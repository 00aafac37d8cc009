------------------------------- MODULE MCFrames -------------------------------
(***************************************************************************)
(* Frames of arm and 386: words of four bytes, int64 aligned to four.      *)
(***************************************************************************)
EXTENDS FrameAccess, SequencesExt, TLC

MCTypes == {"int8", "int32", "int64", "string", "slice", "empty", "struct"}
MCShape == [t \in MCTypes |-> CASE t = "string" -> "string"
                                [] t = "slice"  -> "slice"
                                [] t = "struct" -> "unsupported"
                                [] OTHER        -> "value"]
MCSize == "int8" :> 1 @@ "int32" :> 4 @@ "int64" :> 8 @@ "string" :> 8
          @@ "slice" :> 12 @@ "empty" :> 0 @@ "struct" :> 8
MCAlign == [t \in MCTypes |-> IF t \in {"int8", "empty"} THEN 1 ELSE 4]

(* Lists of up to two of every type and of three, some of them narrow.     *)
Lists == SeqOf(MCTypes, 2)
         \cup {<<a, b, c>> : a \in {"int8", "empty"}, b \in {"int8", "int64"},
                             c \in {"int8", "string"}}
==============================================================================
