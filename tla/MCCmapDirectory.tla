-------------------------- MODULE MCCmapDirectory --------------------------
EXTENDS CmapDirectory

MCLayoutKeys == <<<<0, 3>>, <<3, 1>>, <<3, 10>>>>

MCKeys == {<<0, 0>>, <<0, 3>>, <<1, 0>>, <<3, 0>>, <<3, 1>>, <<3, 10>>}

MCDispatchOffsets == <<28, 36, 44>>

====
