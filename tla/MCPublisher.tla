---- MODULE MCPublisher ----
EXTENDS Publisher
====
