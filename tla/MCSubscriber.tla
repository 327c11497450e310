---- MODULE MCSubscriber ----
EXTENDS Subscriber
====
