---- MODULE MCScheduler ----
EXTENDS Scheduler
====
