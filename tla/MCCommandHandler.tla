-------------------------- MODULE MCCommandHandler --------------------------
(* Two identical cameras (cam1, cam2 of one name), a microphone of the same *)
(* name, and a device only the Server knows.                                *)
EXTENDS CommandHandler

CONSTANTS cam1, cam2, mic, pcam, pghost, amic, aghost, lens, ghost

MCDevices == {cam1, cam2, mic, pcam, pghost, amic, aghost}
MCNames == {lens, ghost}
MCNameOf == [d \in MCDevices |-> IF d \in {pghost, aghost} THEN ghost ELSE lens]
MCTypeOf == [d \in MCDevices |-> IF d \in {mic, amic, aghost} THEN "audio" ELSE "video"]
MCCached == <<cam1, cam2, mic>>
MCPlaceholder ==
  [tn \in {"video", "audio"} \X MCNames |->
     IF tn[1] = "video" THEN IF tn[2] = lens THEN pcam ELSE pghost
                        ELSE IF tn[2] = lens THEN amic ELSE aghost]

\* Either order of the names and of the ids, and lists that lack one of them.
MCEntry(i, n) == [id |-> i, name |-> n]
MCLists ==
  {<<>>, <<MCEntry(1, lens)>>,
   <<MCEntry(1, lens), MCEntry(2, ghost)>>, <<MCEntry(2, ghost), MCEntry(1, lens)>>,
   <<MCEntry(1, ghost), MCEntry(2, lens)>>}
MCMapChoices == [{"video", "audio"} -> MCLists]
=============================================================================
