----------------------------- MODULE MCDeviceIds -----------------------------
(* Two spellings of one name, the same name with a number, a name without  *)
(* a word that tells its type, and the paths of two video devices.         *)
EXTENDS DeviceIds

MCText(r, t, f) == [root |-> r, tail |-> t, form |-> f]
cam == MCText("cam", <<>>, "plain")
Cam == MCText("cam", <<>>, "capital")
cam1 == MCText("cam", <<1>>, "plain")
loop == MCText("loop", <<>>, "plain")
MCTexts == {cam, Cam, cam1, loop}
MCServerNames == {cam, Cam}

MCLine(t, i, n) == [type |-> t, index |-> i, path |-> n, name |-> n]
MCLines ==
  {MCLine("video", 0, n) : n \in {cam, Cam, cam1}}
    \union {MCLine("audio", 1, cam), MCLine("audio", 0, loop), MCLine("none", 1, loop)}

MCKeywords == [r \in {"cam", "loop"} |-> IF r = "cam" THEN {"video"} ELSE {}]
=============================================================================
