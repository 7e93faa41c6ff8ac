---- MODULE MCUpdater ----
EXTENDS Updater
====
