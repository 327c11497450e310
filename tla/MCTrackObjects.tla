---- MODULE MCTrackObjects ----
EXTENDS TrackObjects
====
