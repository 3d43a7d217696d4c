-------------------------- MODULE MCCmapSerialise --------------------------
EXTENDS CmapSerialise
====
