-------------------------- MODULE MCCmapFormat14 ---------------------------
EXTENDS CmapFormat14
====
