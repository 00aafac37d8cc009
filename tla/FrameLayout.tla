----------------------------- MODULE FrameLayout -----------------------------
(***************************************************************************)
(* The frame of a Go function as its assembly sees it (go_translate.go):   *)
(* goFuncSigForDeclaredFunc turns the parameter and result lists of a Go   *)
(* declaration into the arguments and the return value of an LLVM function *)
(* and into the slots that operands name+off(FP) may address.              *)
(*                                                                         *)
(* An LLVM type is "ptr", "word" (an integer as wide as a pointer), or the *)
(* Go type itself for a type that is passed as one value.  An argument is  *)
(* the sequence of the types of its parts, so a string is <<"ptr","word">>.*)
(* Slots are a set: index and field give the order of the code's lists.    *)
(***************************************************************************)
EXTENDS Integers, Sequences

CONSTANTS
  Types,        \* the Go types that occur in signatures
  Shape,        \* how a type is passed
  Size, Align,  \* frameSz: Sizeof and Alignof, the layout of the frame
  ValueSize,    \* sz: the bytes of the LLVM type of a type passed as one value
  FrameWord,    \* goWordSizeForSizes of frameSz
  ValueWord,    \* goWordSizeForSizes of sz
  ParamLists, ResultLists  \* the signatures

Shapes == {"value", "string", "slice", "interface", "unsupported"}

(* goLLVMTypeForTypeWithSizes: the fields of the LLVM type of t.           *)
PartTypes(t) ==
  IF Shape[t] = "string" THEN <<"ptr", "word">>
  ELSE IF Shape[t] = "slice" THEN <<"ptr", "word", "word">>
  ELSE IF Shape[t] = "interface" THEN <<"ptr", "ptr">>
  ELSE <<t>>

(* What types.Sizes of a Go target promises: alignments are powers of two  *)
(* up to a word, a string, slice or interface is two or three aligned      *)
(* words.  The words of values may be narrower than those of the frame     *)
(* (wasm32 under the frames of GOARCH=wasm), never wider.                  *)
ASSUME FrameAssumption ==
  /\ Shape \in [Types -> Shapes]
  /\ Size \in [Types -> Nat]
  /\ Align \in [Types -> {1, 2, 4, 8}]
  /\ ValueSize \in [Types -> Nat]
  /\ FrameWord \in {4, 8} /\ ValueWord \in {4, 8} /\ ValueWord =< FrameWord
  /\ {"ptr", "word"} \cap Types = {}
  /\ \A t \in Types :
       /\ Align[t] =< FrameWord
       /\ ValueSize[t] =< Size[t]
       /\ Shape[t] \in {"string", "slice", "interface"} =>
            /\ Size[t] = Len(PartTypes(t)) * FrameWord
            /\ Align[t] = FrameWord
  /\ ParamLists \subseteq Seq(Types)
  /\ ResultLists \subseteq Seq(Types)

LLVMTypes == {"ptr", "word"} \cup Types
TypeSize(ty) == IF ty \in {"ptr", "word"} THEN ValueWord ELSE ValueSize[ty]
TypeAlign(ty) == IF ty \in {"ptr", "word"} THEN FrameWord ELSE Align[ty]

(* goAlignOff. *)
AlignOff(at, a) == IF (at % a) = 0 THEN at ELSE at + (a - (at % a))

\* mutant: the parts of a result share one index
SlotsOfOneIndex(t, n, at, flatten) ==
  {[offset |-> at + (i - 1) * FrameWord, type |-> PartTypes(t)[i], index |-> n,
    field  |-> IF flatten \/ Shape[t] = "value" THEN -1 ELSE i - 1] :
     i \in DOMAIN PartTypes(t)}

(* goFramePartsForTypeWithSizes and the loop of                            *)
(* goLLVMArgsAndFrameSlotsForTuple: the slots of a variable of type t at   *)
(* offset at that becomes the n-th value.  Flattened, every part is a      *)
(* value of its own; otherwise a part is a field of one value.             *)
SlotsOf(t, n, at, flatten) ==
  IF Shape[t] = "value"
  THEN {[offset |-> at, type |-> t, index |-> n, field |-> -1]}
  ELSE {[offset |-> at + (i - 1) * FrameWord,
         type   |-> PartTypes(t)[i],
         index  |-> IF flatten THEN n + i - 1 ELSE n,
         field  |-> IF flatten THEN -1 ELSE i - 1] : i \in DOMAIN PartTypes(t)}

(* The values t adds to the arguments, or to the return value.             *)
ValuesOf(t, flatten) ==
  IF flatten THEN [i \in DOMAIN PartTypes(t) |-> <<PartTypes(t)[i]>>]
             ELSE <<PartTypes(t)>>

------------------------------------------------------------------------------
VARIABLES
  params, results,  \* the declaration: the types of its variables
  withFrame,        \* FALSE for a function that is only referenced
  phase,            \* "params", "results", "done" or "error"
  k,                \* the next variable of the list
  off,              \* the end of the frame so far
  args, ret,        \* the values of the LLVM function
  paramSlots, resultSlots

declaration == <<params, results, withFrame>>
layoutVars == <<params, results, withFrame, phase, k, off, args, ret,
                paramSlots, resultSlots>>

Init ==
  /\ params \in ParamLists /\ results \in ResultLists
  /\ withFrame \in BOOLEAN
  /\ phase = "params" /\ k = 1 /\ off = 0
  /\ args = <<>> /\ ret = <<>>
  /\ paramSlots = {} /\ resultSlots = {}

(* One round of the loop over the parameters.  A function that is only     *)
(* referenced has no use for slots.                                        *)
AddParam ==
  /\ phase = "params" /\ k =< Len(params)
  /\ Shape[params[k]] # "unsupported"
  /\ LET t  == params[k]
         at == AlignOff(off, Align[t])
     IN /\ args' = args \o ValuesOf(t, FALSE)
        /\ paramSlots' = IF withFrame
                         THEN paramSlots \cup SlotsOf(t, Len(args), at, FALSE)
                         ELSE paramSlots
        /\ off' = at + Size[t]
  /\ k' = k + 1
  /\ UNCHANGED <<declaration, phase, ret, resultSlots>>

\* mutants: the results at the start of the frame, or behind the last
\* parameter wherever that ends
EndParamsAtStart ==
  /\ phase = "params" /\ k > Len(params)
  /\ phase' = "results" /\ k' = 1 /\ off' = 0
  /\ UNCHANGED <<declaration, args, ret, paramSlots, resultSlots>>
EndParamsUnaligned ==
  /\ phase = "params" /\ k > Len(params)
  /\ phase' = "results" /\ k' = 1
  /\ off' = IF withFrame THEN off ELSE 0
  /\ UNCHANGED <<declaration, args, ret, paramSlots, resultSlots>>

(* Results begin at a word of the frame. *)
EndParams ==
  /\ phase = "params" /\ k > Len(params)
  /\ phase' = "results" /\ k' = 1
  /\ off' = IF withFrame THEN AlignOff(off, FrameWord) ELSE 0
  /\ UNCHANGED <<declaration, args, ret, paramSlots, resultSlots>>

AddResult ==
  /\ phase = "results" /\ k =< Len(results)
  /\ Shape[results[k]] # "unsupported"
  /\ LET t  == results[k]
         at == AlignOff(off, Align[t])
     IN /\ ret' = ret \o ValuesOf(t, withFrame)
        /\ resultSlots' = IF withFrame
                          THEN resultSlots \cup SlotsOf(t, Len(ret), at, TRUE)
                          ELSE resultSlots
        /\ off' = at + Size[t]
  /\ k' = k + 1
  /\ UNCHANGED <<declaration, phase, args, paramSlots>>

EndResults ==
  /\ phase = "results" /\ k > Len(results)
  /\ phase' = "done"
  /\ UNCHANGED <<declaration, k, off, args, ret, paramSlots, resultSlots>>

(* Structures, arrays and complex numbers have no LLVM type here. *)
Unsupported ==
  /\ \/ phase = "params" /\ k =< Len(params)
        /\ Shape[params[k]] = "unsupported"
     \/ phase = "results" /\ k =< Len(results)
        /\ Shape[results[k]] = "unsupported"
  /\ phase' = "error"
  /\ UNCHANGED <<declaration, k, off, args, ret, paramSlots, resultSlots>>

LayoutNext == AddParam \/ EndParams \/ AddResult \/ EndResults \/ Unsupported

Spec == Init /\ [][LayoutNext]_layoutVars

------------------------------------------------------------------------------
SlotEnd(s) == s.offset + TypeSize(s.type)

(* No two slots share a byte, every slot lies in the frame that has been   *)
(* laid out, and on the alignment of what it holds: a store to one operand *)
(* name+off(FP) changes no other.                                          *)
SlotsApart ==
  LET slots == paramSlots \cup resultSlots
  IN \A s \in slots :
       /\ s.offset >= 0 /\ SlotEnd(s) =< off
       /\ (s.offset % TypeAlign(s.type)) = 0
       /\ \A u \in slots : \/ s = u
                           \/ SlotEnd(s) =< u.offset
                           \/ SlotEnd(u) =< s.offset

(* A slot denotes part f of value a: the whole value, or one of its fields.*)
Denotes(s, values, a, f) ==
  /\ s.index = a - 1
  /\ s.field = f - 1 \/ (s.field = -1 /\ Len(values[a]) = 1 /\ f = 1)
  /\ s.type = values[a][f]

(* Slots and parts of values are in one-to-one correspondence: every part  *)
(* of an argument and of the return value can be addressed, at one place,  *)
(* and every slot is a part, with the type of that part (extractvalue and  *)
(* insertvalue take index and field from the slot).                        *)
Covered(slots, values) ==
  /\ \A a \in DOMAIN values : \A f \in DOMAIN values[a] :
       \E s \in slots : Denotes(s, values, a, f)
  /\ \A s \in slots : /\ s.index + 1 \in DOMAIN values
                      /\ \E f \in DOMAIN values[s.index + 1] :
                           Denotes(s, values, s.index + 1, f)
  /\ \A s, u \in slots : s.index = u.index /\ s.field = u.field => s = u

ValuesCovered ==
  withFrame => Covered(paramSlots, args) /\ Covered(resultSlots, ret)

(* The frame of Go's stack-based calling convention, ABI0: variables in    *)
(* order, each at the least aligned offset behind the one before, results  *)
(* in a block of their own that begins at a word.                          *)
LeastMultiple(from, a) == CHOOSE o \in from..(from + a - 1) : (o % a) = 0
EndsOf(list, base) ==
  LET end[i \in 0..Len(list)] ==
        IF i = 0 THEN base
        ELSE LeastMultiple(end[i - 1], Align[list[i]]) + Size[list[i]]
  IN end
PlacesOf(list, base) ==
  UNION {LET start == LeastMultiple(EndsOf(list, base)[i - 1], Align[list[i]])
             parts == PartTypes(list[i])
         IN {<<start + (j - 1) * FrameWord, parts[j]>> : j \in DOMAIN parts} :
         i \in DOMAIN list}

(* The slots are where the Go compiler and the assembler put the variables:*)
(* an offset of the source reaches the variable it names.                  *)
FrameMatchesABI0 ==
  phase = "done" /\ withFrame =>
    /\ {<<s.offset, s.type>> : s \in paramSlots} = PlacesOf(params, 0)
    /\ {<<s.offset, s.type>> : s \in resultSlots} =
         PlacesOf(results, LeastMultiple(EndsOf(params, 0)[Len(params)],
                                         FrameWord))
==============================================================================
