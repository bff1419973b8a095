------------------------ MODULE MCAiRunMediaCollection -------------------------
(***************************************************************************)
(* AiRunMediaCollection with requests of up to three media under the cap,  *)
(* or one more, a budget that two slow fetches use up, and chains of up to *)
(* two redirects.                                                          *)
(***************************************************************************)
EXTENDS AiRunMediaCollection

photo == [kind |-> "image", byteSize |-> 2, isNamed |-> TRUE]
largePhoto == [photo EXCEPT !.byteSize = 3]
negativePhoto == [photo EXCEPT !.byteSize = -1]
unweighedPhoto == [photo EXCEPT !.byteSize = None]
unnamedPhoto == [photo EXCEPT !.isNamed = FALSE]
video == [photo EXCEPT !.kind = "video"]
audio == [photo EXCEPT !.kind = "audio"]
hologram == [photo EXCEPT !.kind = "hologram"]

KnownMedia == {photo, largePhoto, video, audio}

Requests ==
    {<<>>, <<hologram>>, <<photo, hologram>>, <<photo, photo, photo>>,
     <<photo, audio, largePhoto>>, <<audio, photo, photo, photo>>,
     <<photo, negativePhoto>>, <<photo, unweighedPhoto>>, <<unnamedPhoto>>}
        \cup {<<m>> : m \in KnownMedia} \cup {<<m, n>> : m, n \in KnownMedia}

EveryFault == MediaFaultKinds
NoFault == {}

================================================================================
