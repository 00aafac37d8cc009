-------------------------- MODULE FrameAccess_proofs --------------------------
(***************************************************************************)
(* Frames of every signature: where the slots are (FrameLayout), then, for *)
(* bodies of any length, that what the emitted loads and stores of         *)
(* name+off(FP) see is what the source program sees (FrameAccess).         *)
(***************************************************************************)
EXTENDS FrameAccess, FiniteSetTheorems, WellFoundedInduction, TLAPS

-----------------------------------------------------------------------------
(***************************************************************************)
(* Frames of every signature: slots never share a byte, they are in        *)
(* one-to-one correspondence with the parts of the LLVM values, and they   *)
(* lie where the stack-based calling convention of Go puts the variables.  *)
(***************************************************************************)

Slot == [offset : Nat, type : LLVMTypes, index : Nat, field : Int]
Supported == {t \in Types : Shape[t] # "unsupported"}

(* goAlignOff returns the least multiple at or above an offset.            *)
LEMMA AlignOffLeast ==
  ASSUME NEW at \in Nat, NEW a \in {1, 2, 4, 8}
  PROVE  /\ AlignOff(at, a) \in Nat
         /\ AlignOff(at, a) >= at /\ AlignOff(at, a) < at + a
         /\ (AlignOff(at, a) % a) = 0
<1>1. CASE a = 1  BY <1>1, SMT DEF AlignOff
<1>2. CASE a = 2  BY <1>2, SMT DEF AlignOff
<1>3. CASE a = 4  BY <1>3, SMT DEF AlignOff
<1>4. CASE a = 8  BY <1>4, SMT DEF AlignOff
<1>5. QED BY <1>1, <1>2, <1>3, <1>4

(* The parts of a supported type: itself, or two or three words.           *)
LEMMA PartsByShape ==
  ASSUME NEW t \in Supported
  PROVE  \/ Shape[t] = "value" /\ PartTypes(t) = <<t>>
         \/ /\ Shape[t] = "string" /\ PartTypes(t) = <<"ptr", "word">>
            /\ Size[t] = 2 * FrameWord /\ Align[t] = FrameWord
         \/ /\ Shape[t] = "slice" /\ PartTypes(t) = <<"ptr", "word", "word">>
            /\ Size[t] = 3 * FrameWord /\ Align[t] = FrameWord
         \/ /\ Shape[t] = "interface" /\ PartTypes(t) = <<"ptr", "ptr">>
            /\ Size[t] = 2 * FrameWord /\ Align[t] = FrameWord
<1>1. Shape[t] \in {"value", "string", "slice", "interface"} /\ t \in Types
  BY FrameAssumption DEF Supported, Shapes
<1>2. CASE Shape[t] = "value"      BY <1>2 DEF PartTypes
<1>3. CASE Shape[t] = "string"
  <2>1. PartTypes(t) = <<"ptr", "word">>  BY <1>3 DEF PartTypes
  <2>2. Size[t] = Len(PartTypes(t)) * FrameWord /\ Align[t] = FrameWord
    BY <1>1, <1>3, FrameAssumption
  <2>3. QED BY <1>3, <2>1, <2>2
<1>4. CASE Shape[t] = "slice"
  <2>1. PartTypes(t) = <<"ptr", "word", "word">>  BY <1>4 DEF PartTypes
  <2>2. Size[t] = Len(PartTypes(t)) * FrameWord /\ Align[t] = FrameWord
    BY <1>1, <1>4, FrameAssumption
  <2>3. QED BY <1>4, <2>1, <2>2
<1>5. CASE Shape[t] = "interface"
  <2>1. PartTypes(t) = <<"ptr", "ptr">>  BY <1>5 DEF PartTypes
  <2>2. Size[t] = Len(PartTypes(t)) * FrameWord /\ Align[t] = FrameWord
    BY <1>1, <1>5, FrameAssumption
  <2>3. QED BY <1>5, <2>1, <2>2
<1>6. QED BY <1>1, <1>2, <1>3, <1>4, <1>5

(* Every part of a supported type is a word of its variable.               *)
LEMMA PartsAreWords ==
  ASSUME NEW t \in Supported, Shape[t] # "value", NEW i \in DOMAIN PartTypes(t)
  PROVE  /\ i \in Nat /\ i >= 1 /\ i * FrameWord =< Size[t]
         /\ PartTypes(t)[i] \in {"ptr", "word"}
         /\ Align[t] = FrameWord
BY PartsByShape, FrameAssumption, SMT

(* The slots of one variable lie in it, aligned, and apart.                *)
LEMMA SlotsOfOne ==
  ASSUME NEW t \in Supported, NEW n \in Nat, NEW at \in Nat,
         NEW flatten \in BOOLEAN, (at % Align[t]) = 0
  PROVE  \A s \in SlotsOf(t, n, at, flatten) :
           /\ s \in Slot
           /\ s.offset >= at /\ SlotEnd(s) =< at + Size[t]
           /\ (s.offset % TypeAlign(s.type)) = 0
           /\ \A u \in SlotsOf(t, n, at, flatten) :
                \/ s = u \/ SlotEnd(s) =< u.offset \/ SlotEnd(u) =< s.offset
<1> t \in Types  BY DEF Supported
<1>1. CASE Shape[t] = "value"
  <2> DEFINE only == [offset |-> at, type |-> t, index |-> n, field |-> -1]
  <2>1. SlotsOf(t, n, at, flatten) = {only}  BY <1>1 DEF SlotsOf
  <2>2. TypeSize(t) = ValueSize[t] /\ TypeAlign(t) = Align[t]
    BY FrameAssumption DEF TypeSize, TypeAlign
  <2>3. ValueSize[t] \in Nat /\ Size[t] \in Nat /\ ValueSize[t] =< Size[t]
    BY FrameAssumption
  <2>4. only \in Slot  BY DEF Slot, LLVMTypes
  <2>5. SlotEnd(only) =< at + Size[t]  BY <2>2, <2>3 DEF SlotEnd
  <2>6. QED BY <2>1, <2>2, <2>3, <2>4, <2>5
<1>2. CASE Shape[t] # "value"
  <2> DEFINE P(i) == [offset |-> at + (i - 1) * FrameWord,
                      type   |-> PartTypes(t)[i],
                      index  |-> IF flatten THEN n + i - 1 ELSE n,
                      field  |-> IF flatten THEN -1 ELSE i - 1]
  <2>1. SlotsOf(t, n, at, flatten) = {P(i) : i \in DOMAIN PartTypes(t)}
    BY <1>2 DEF SlotsOf
  <2>2. FrameWord \in {4, 8} /\ ValueWord \in {4, 8} /\ ValueWord =< FrameWord
        /\ Size[t] \in Nat
    BY FrameAssumption
  <2>3. ASSUME NEW i \in DOMAIN PartTypes(t)
        PROVE  /\ P(i) \in Slot
               /\ P(i).offset >= at /\ SlotEnd(P(i)) =< at + Size[t]
               /\ (P(i).offset % TypeAlign(P(i).type)) = 0
               /\ SlotEnd(P(i)) =< at + i * FrameWord
    <3>1. i \in Nat /\ i >= 1 /\ i * FrameWord =< Size[t]
          /\ PartTypes(t)[i] \in {"ptr", "word"} /\ Align[t] = FrameWord
      BY <1>2, PartsAreWords
    <3>2. TypeSize(P(i).type) = ValueWord /\ TypeAlign(P(i).type) = FrameWord
      BY <3>1 DEF TypeSize, TypeAlign
    <3>3. P(i) \in Slot  BY <3>1, <2>2, SMT DEF Slot, LLVMTypes
    <3>4. (P(i).offset % FrameWord) = 0
      <4>1. CASE FrameWord = 4  BY <3>1, <4>1, SMT
      <4>2. CASE FrameWord = 8  BY <3>1, <4>2, SMT
      <4>3. QED BY <4>1, <4>2, <2>2
    <3>5. SlotEnd(P(i)) =< at + i * FrameWord /\ P(i).offset >= at
      <4>1. CASE FrameWord = 4  BY <3>1, <3>2, <4>1, <2>2, SMT DEF SlotEnd
      <4>2. CASE FrameWord = 8  BY <3>1, <3>2, <4>2, <2>2, SMT DEF SlotEnd
      <4>3. QED BY <4>1, <4>2, <2>2
    <3>6. SlotEnd(P(i)) =< at + Size[t]
      <4>1. CASE FrameWord = 4  BY <3>1, <3>2, <4>1, <2>2, SMT DEF SlotEnd
      <4>2. CASE FrameWord = 8  BY <3>1, <3>2, <4>2, <2>2, SMT DEF SlotEnd
      <4>3. QED BY <4>1, <4>2, <2>2
    <3>7. QED BY <3>2, <3>3, <3>4, <3>5, <3>6
  <2>4. ASSUME NEW i \in DOMAIN PartTypes(t), NEW j \in DOMAIN PartTypes(t), i < j
        PROVE  SlotEnd(P(i)) =< P(j).offset
    <3>1. i \in Nat /\ j \in Nat  BY <1>2, PartsAreWords
    <3>2. SlotEnd(P(i)) =< at + i * FrameWord  BY <2>3
    <3>3. SlotEnd(P(i)) \in Int
      BY <2>3, <2>2, <1>2, PartsAreWords, SMT DEF SlotEnd, TypeSize, Slot
    <3>4. CASE FrameWord = 4  BY <3>1, <3>2, <3>3, <3>4, <2>4, SMT
    <3>5. CASE FrameWord = 8  BY <3>1, <3>2, <3>3, <3>5, <2>4, SMT
    <3>6. QED BY <3>4, <3>5, <2>2
  <2>5. ASSUME NEW i \in DOMAIN PartTypes(t), NEW j \in DOMAIN PartTypes(t)
        PROVE  \/ P(i) = P(j) \/ SlotEnd(P(i)) =< P(j).offset
               \/ SlotEnd(P(j)) =< P(i).offset
    <3>1. i \in Nat /\ j \in Nat  BY <1>2, PartsAreWords
    <3>2. i = j \/ i < j \/ j < i  BY <3>1
    <3>3. CASE i = j  BY <3>3
    <3>4. QED BY <3>2, <3>3, <2>4
  <2>6. QED BY <2>1, <2>3, <2>5
<1>3. QED BY <1>1, <1>2

------------------------------------------------------------------------------
Values == Seq(Seq(LLVMTypes))

TypeOK ==
  /\ params \in Seq(Types) /\ results \in Seq(Types) /\ withFrame \in BOOLEAN
  /\ phase \in {"params", "results", "done", "error"}
  /\ k \in Nat \ {0} /\ off \in Nat
  /\ args \in Values /\ ret \in Values
  /\ paramSlots \subseteq Slot /\ resultSlots \subseteq Slot

(* The slots of a set lie below bound, aligned, and apart.                 *)
LaidOut(slots, bound) ==
  \A s \in slots :
    /\ s.offset >= 0 /\ SlotEnd(s) =< bound
    /\ (s.offset % TypeAlign(s.type)) = 0
    /\ \A u \in slots : s = u \/ SlotEnd(s) =< u.offset \/ SlotEnd(u) =< s.offset

(* What makes SlotsApart inductive: the frame ends where the slots do, and *)
(* a referenced function, whose offset starts over, has none.              *)
LayoutInv ==
  /\ TypeOK
  /\ LaidOut(paramSlots \cup resultSlots, off)
  /\ ~withFrame => paramSlots = {} /\ resultSlots = {}

LEMMA ValuesOfType ==
  ASSUME NEW t \in Supported, NEW flatten \in BOOLEAN
  PROVE  ValuesOf(t, flatten) \in Values
<1>1. t \in Types  BY DEF Supported
<1>2. PartTypes(t) \in Seq(LLVMTypes)
  <2>1. t \in LLVMTypes /\ "ptr" \in LLVMTypes /\ "word" \in LLVMTypes
    BY <1>1 DEF LLVMTypes
  <2>2. CASE PartTypes(t) = <<t>>                   BY <2>1, <2>2
  <2>3. CASE PartTypes(t) = <<"ptr", "word">>          BY <2>1, <2>3
  <2>4. CASE PartTypes(t) = <<"ptr", "word", "word">>  BY <2>1, <2>4
  <2>5. CASE PartTypes(t) = <<"ptr", "ptr">>           BY <2>1, <2>5
  <2>6. QED BY <2>2, <2>3, <2>4, <2>5, PartsByShape
<1>3. CASE flatten
  <2>1. ValuesOf(t, flatten) = [i \in DOMAIN PartTypes(t) |-> <<PartTypes(t)[i]>>]
    BY <1>3 DEF ValuesOf
  <2>2. DOMAIN PartTypes(t) = 1..Len(PartTypes(t)) /\ Len(PartTypes(t)) \in Nat
    BY <1>2
  <2>3. \A i \in DOMAIN PartTypes(t) : <<PartTypes(t)[i]>> \in Seq(LLVMTypes)
    BY <1>2
  <2>4. QED BY <2>1, <2>2, <2>3 DEF Values
<1>4. CASE ~flatten
  <2>1. ValuesOf(t, flatten) = <<PartTypes(t)>>  BY <1>4 DEF ValuesOf
  <2>2. QED BY <2>1, <1>2 DEF Values
<1>5. QED BY <1>3, <1>4

LEMMA ConcatValues ==
  ASSUME NEW values \in Values, NEW more \in Values
  PROVE  values \o more \in Values
BY DEF Values

(* A variable behind the frame so far extends it.                          *)
LEMMA LaidOutExtends ==
  ASSUME NEW slots \in SUBSET Slot, NEW bound \in Nat, LaidOut(slots, bound),
         NEW t \in Supported, NEW n \in Nat, NEW flatten \in BOOLEAN
  PROVE  LET at == AlignOff(bound, Align[t])
         IN LaidOut(slots \cup SlotsOf(t, n, at, flatten), at + Size[t])
<1> DEFINE at == AlignOff(bound, Align[t])
           new == SlotsOf(t, n, at, flatten)
<1>1. t \in Types /\ Align[t] \in {1, 2, 4, 8} /\ Size[t] \in Nat
  BY FrameAssumption DEF Supported
<1>2. at \in Nat /\ at >= bound /\ (at % Align[t]) = 0
  BY <1>1, AlignOffLeast
<1>3. \A s \in new :
        /\ s \in Slot
        /\ s.offset >= at /\ SlotEnd(s) =< at + Size[t]
        /\ (s.offset % TypeAlign(s.type)) = 0
        /\ \A u \in new : s = u \/ SlotEnd(s) =< u.offset \/ SlotEnd(u) =< s.offset
  BY <1>2, SlotsOfOne
<1>4. \A s \in Slot : s.offset \in Nat /\ SlotEnd(s) \in Nat
  <2>1. ValueWord \in Nat /\ \A y \in Types : ValueSize[y] \in Nat
    BY FrameAssumption
  <2>2. QED BY <2>1 DEF Slot, SlotEnd, TypeSize, LLVMTypes
<1>5. \A s \in slots : SlotEnd(s) =< bound  BY DEF LaidOut
<1>6. \A s \in slots, u \in new : SlotEnd(s) =< u.offset
  BY <1>1, <1>2, <1>3, <1>4, <1>5
<1>7. \A s \in slots : SlotEnd(s) =< at + Size[t]
  BY <1>1, <1>2, <1>4, <1>5
<1>8. \A s \in new : s.offset >= 0
  BY <1>3, <1>4
<1> HIDE DEF at, new
<1>9. LaidOut(slots \cup new, at + Size[t])
  BY <1>3, <1>6, <1>7, <1>8 DEF LaidOut
<1>10. QED BY <1>9 DEF at, new

LEMMA LaidOutHigher ==
  ASSUME NEW slots \in SUBSET Slot, NEW low \in Nat, NEW high \in Nat,
         LaidOut(slots, low), low =< high
  PROVE  LaidOut(slots, high)
<1>1. \A s \in Slot : SlotEnd(s) \in Nat
  <2>1. ValueWord \in Nat /\ \A y \in Types : ValueSize[y] \in Nat
    BY FrameAssumption
  <2>2. QED BY <2>1 DEF Slot, SlotEnd, TypeSize, LLVMTypes
<1>2. QED BY <1>1 DEF LaidOut

(* The frame is laid out, and its slots stay apart, from the start.        *)
LEMMA InitLayout == Init => LayoutInv
BY FrameAssumption DEF Init, LayoutInv, TypeOK, LaidOut, Values, Slot

LEMMA StepLayout == LayoutInv /\ [LayoutNext]_layoutVars => LayoutInv'
<1> SUFFICES ASSUME LayoutInv, [LayoutNext]_layoutVars
             PROVE  LayoutInv'
  OBVIOUS
<1> USE DEF LayoutInv
<1>1. CASE AddParam
  <2> DEFINE t == params[k]
             at == AlignOff(off, Align[t])
  <2>a. t = params[k] /\ at = AlignOff(off, Align[t]) /\ 0 \in Nat
        /\ TRUE \in BOOLEAN /\ FALSE \in BOOLEAN
    OBVIOUS
  <2>1. k \in DOMAIN params /\ t \in Supported
    BY <1>1 DEF AddParam, TypeOK, Supported
  <2>2. Align[t] \in {1, 2, 4, 8} /\ Size[t] \in Nat
    BY <2>1, FrameAssumption DEF Supported
  <2>3. at \in Nat /\ (at % Align[t]) = 0  BY <2>2, AlignOffLeast DEF TypeOK
  <2>4. Len(args) \in Nat  BY DEF TypeOK, Values
  <2>5. \A s \in SlotsOf(t, Len(args), at, FALSE) : s \in Slot
    BY <2>1, <2>3, <2>4, SlotsOfOne
  <2>6. ValuesOf(t, FALSE) \in Values  BY <2>1, ValuesOfType
  <2>7. /\ args' = args \o ValuesOf(t, FALSE)
        /\ paramSlots' = IF withFrame
                         THEN paramSlots \cup SlotsOf(t, Len(args), at, FALSE)
                         ELSE paramSlots
        /\ off' = at + Size[t] /\ k' = k + 1
        /\ UNCHANGED <<params, results, withFrame, phase, ret, resultSlots>>
    BY <1>1 DEF AddParam, declaration
  <2> HIDE DEF at, t
  <2>8. TypeOK'
    <3>1. args' \in Values
      <4>1. args \in Values  BY DEF TypeOK
      <4>2. QED BY <4>1, <2>6, <2>7, ConcatValues
    <3>2. paramSlots' \subseteq Slot  BY <2>5, <2>7 DEF TypeOK
    <3>3. k' \in Nat \ {0} /\ off' \in Nat  BY <2>2, <2>3, <2>7 DEF TypeOK
    <3>4. QED BY <2>7, <3>1, <3>2, <3>3, Zenon DEF TypeOK
  <2>9. LaidOut(paramSlots \cup resultSlots, off)'
    <3>1. paramSlots \cup resultSlots \in SUBSET Slot /\ off \in Nat  BY DEF TypeOK
    <3>2. CASE withFrame
      <4>1. LaidOut((paramSlots \cup resultSlots)
                      \cup SlotsOf(t, Len(args), at, FALSE), at + Size[t])
        BY <2>1, <2>4, <3>1, LaidOutExtends DEF at
      <4>2. paramSlots' \cup resultSlots' = (paramSlots \cup resultSlots)
                      \cup SlotsOf(t, Len(args), at, FALSE)
        BY <2>7, <3>2
      <4>3. QED BY <2>7, <4>1, <4>2 DEF LaidOut
    <3>3. CASE ~withFrame
      <4>1. paramSlots' \cup resultSlots' = {}  BY <2>7, <3>3
      <4>2. QED BY <4>1 DEF LaidOut
    <3>4. QED BY <3>2, <3>3 DEF TypeOK
  <2>10. QED BY <2>7, <2>8, <2>9
<1>2. CASE EndParams
  <2>1. AlignOff(off, FrameWord) \in Nat /\ off =< AlignOff(off, FrameWord)
    BY FrameAssumption, AlignOffLeast DEF TypeOK
  <2>2. TypeOK'  BY <1>2, <2>1 DEF EndParams, TypeOK, declaration
  <2>3. LaidOut(paramSlots \cup resultSlots, off)'
    <3>1. CASE withFrame
      BY <1>2, <2>1, <3>1, LaidOutHigher
         DEF EndParams, TypeOK, declaration, LaidOut
    <3>2. CASE ~withFrame
      BY <1>2, <3>2 DEF EndParams, LaidOut, declaration
    <3>3. QED BY <3>1, <3>2 DEF TypeOK
  <2>4. QED BY <1>2, <2>2, <2>3 DEF EndParams, declaration
<1>3. CASE AddResult
  <2> DEFINE t == results[k]
             at == AlignOff(off, Align[t])
  <2>a. t = results[k] /\ at = AlignOff(off, Align[t]) /\ 0 \in Nat
        /\ TRUE \in BOOLEAN /\ FALSE \in BOOLEAN
    OBVIOUS
  <2>1. k \in DOMAIN results /\ t \in Supported
    BY <1>3 DEF AddResult, TypeOK, Supported
  <2>2. Align[t] \in {1, 2, 4, 8} /\ Size[t] \in Nat
    BY <2>1, FrameAssumption DEF Supported
  <2>3. at \in Nat /\ (at % Align[t]) = 0  BY <2>2, AlignOffLeast DEF TypeOK
  <2>4. Len(ret) \in Nat  BY DEF TypeOK, Values
  <2>5. \A s \in SlotsOf(t, Len(ret), at, TRUE) : s \in Slot
    BY <2>1, <2>3, <2>4, SlotsOfOne
  <2>6. ValuesOf(t, withFrame) \in Values  BY <2>1, ValuesOfType DEF TypeOK
  <2>7. /\ ret' = ret \o ValuesOf(t, withFrame)
        /\ resultSlots' = IF withFrame
                          THEN resultSlots \cup SlotsOf(t, Len(ret), at, TRUE)
                          ELSE resultSlots
        /\ off' = at + Size[t] /\ k' = k + 1
        /\ UNCHANGED <<params, results, withFrame, phase, args, paramSlots>>
    BY <1>3 DEF AddResult, declaration
  <2> HIDE DEF at, t
  <2>8. TypeOK'
    <3>1. ret' \in Values
      <4>1. ret \in Values  BY DEF TypeOK
      <4>2. QED BY <4>1, <2>6, <2>7, ConcatValues
    <3>2. resultSlots' \subseteq Slot  BY <2>5, <2>7 DEF TypeOK
    <3>3. k' \in Nat \ {0} /\ off' \in Nat  BY <2>2, <2>3, <2>7 DEF TypeOK
    <3>4. QED BY <2>7, <3>1, <3>2, <3>3, Zenon DEF TypeOK
  <2>9. LaidOut(paramSlots \cup resultSlots, off)'
    <3>1. paramSlots \cup resultSlots \in SUBSET Slot /\ off \in Nat  BY DEF TypeOK
    <3>2. CASE withFrame
      <4>1. LaidOut((paramSlots \cup resultSlots)
                      \cup SlotsOf(t, Len(ret), at, TRUE), at + Size[t])
        BY <2>1, <2>4, <3>1, LaidOutExtends DEF at
      <4>2. paramSlots' \cup resultSlots' = (paramSlots \cup resultSlots)
                      \cup SlotsOf(t, Len(ret), at, TRUE)
        BY <2>7, <3>2
      <4>3. QED BY <2>7, <4>1, <4>2 DEF LaidOut
    <3>3. CASE ~withFrame
      <4>1. paramSlots' \cup resultSlots' = {}  BY <2>7, <3>3
      <4>2. QED BY <4>1 DEF LaidOut
    <3>4. QED BY <3>2, <3>3 DEF TypeOK
  <2>10. QED BY <2>7, <2>8, <2>9
<1>4. CASE EndResults
  BY <1>4 DEF EndResults, TypeOK, LaidOut, declaration
<1>5. CASE Unsupported
  BY <1>5 DEF Unsupported, TypeOK, LaidOut, declaration
<1>6. CASE UNCHANGED layoutVars
  BY <1>6 DEF layoutVars, TypeOK, LaidOut
<1>7. QED BY <1>1, <1>2, <1>3, <1>4, <1>5, <1>6 DEF LayoutNext

(* Whatever the signature, the types and the sizes: no two operands        *)
(* name+off(FP) of different slots share a byte, every slot is aligned and *)
(* in the frame.  The argument: each variable starts at or behind the end  *)
(* of the frame so far, which is the end of all slots before it.           *)
THEOREM SlotsStayApart == Spec => []SlotsApart
<1>1. LayoutInv => SlotsApart  BY DEF LayoutInv, LaidOut, SlotsApart
<1>2. QED BY <1>1, InitLayout, StepLayout, PTL DEF Spec

------------------------------------------------------------------------------
LEMMA ConcatParts ==
  ASSUME NEW values \in Values, NEW more \in Values
  PROVE  /\ Len(values) \in Nat /\ Len(more) \in Nat
         /\ Len(values \o more) = Len(values) + Len(more)
         /\ DOMAIN values = 1..Len(values) /\ DOMAIN more = 1..Len(more)
         /\ DOMAIN (values \o more) = 1..(Len(values) + Len(more))
         /\ \A a \in 1..Len(values) : (values \o more)[a] = values[a]
         /\ \A b \in 1..Len(more) : (values \o more)[Len(values) + b] = more[b]
BY DEF Values

(* The slots new cover the values more, which stand behind n others in all.*)
CoversBehind(new, all, n, more) ==
  /\ \A b \in DOMAIN more : \A f \in DOMAIN more[b] :
       \E s \in new : Denotes(s, all, n + b, f)
  /\ \A s \in new :
       /\ s.index >= n /\ s.index + 1 \in DOMAIN all
       /\ \E f \in DOMAIN all[s.index + 1] : Denotes(s, all, s.index + 1, f)
  /\ \A s, u \in new : s.index = u.index /\ s.field = u.field => s = u

(* The slots of one variable against the values it adds behind values.     *)
LEMMA CoveredByOne ==
  ASSUME NEW t \in Supported, NEW values \in Values, NEW at \in Nat,
         NEW flatten \in BOOLEAN
  PROVE  CoversBehind(SlotsOf(t, Len(values), at, flatten),
                      values \o ValuesOf(t, flatten),
                      Len(values), ValuesOf(t, flatten))
<1> SUFFICES ASSUME NEW all, all = values \o ValuesOf(t, flatten),
                    NEW new, new = SlotsOf(t, Len(values), at, flatten)
             PROVE  CoversBehind(new, all, Len(values), ValuesOf(t, flatten))
  OBVIOUS
<1> USE DEF CoversBehind
<1> DEFINE n == Len(values)
           more == ValuesOf(t, flatten)
           parts == PartTypes(t)
<1>1. more \in Values  BY ValuesOfType
<1>2. /\ n \in Nat /\ Len(more) \in Nat /\ DOMAIN more = 1..Len(more)
      /\ DOMAIN all = 1..(n + Len(more))
      /\ \A b \in 1..Len(more) : all[n + b] = more[b]
  BY <1>1, ConcatParts
<1>3. CASE Shape[t] = "value"
  <2> DEFINE only == [offset |-> at, type |-> t, index |-> n, field |-> -1]
  <2>1. new = {only}  BY <1>3 DEF SlotsOf
  <2>2. parts = <<t>>  BY <1>3, PartsByShape
  <2>3. more = <<<<t>>>>
    <3>1. CASE flatten  BY <2>2, <3>1 DEF ValuesOf
    <3>2. CASE ~flatten  BY <2>2, <3>2 DEF ValuesOf
    <3>3. QED BY <3>1, <3>2
  <2> HIDE DEF more, n, parts
  <2>4. Len(more) = 1 /\ DOMAIN more = {1} /\ more[1] = <<t>>  BY <2>3
  <2>5. all[n + 1] = <<t>> /\ n + 1 \in DOMAIN all
    BY <1>2, <2>4
  <2>6. DOMAIN <<t>> = {1} /\ Len(<<t>>) = 1 /\ <<t>>[1] = t  OBVIOUS
  <2>7. only.index = n /\ only.field = -1 /\ only.type = t  OBVIOUS
  <2>8. Denotes(only, all, n + 1, 1)
    BY <1>2, <2>5, <2>6, <2>7 DEF Denotes
  <2>9. QED BY <1>2, <2>1, <2>4, <2>5, <2>6, <2>7, <2>8 DEF more, n
<1>4. CASE Shape[t] # "value"
  <2> DEFINE P(i) == [offset |-> at + (i - 1) * FrameWord,
                      type   |-> parts[i],
                      index  |-> IF flatten THEN n + i - 1 ELSE n,
                      field  |-> IF flatten THEN -1 ELSE i - 1]
  <2>1. new = {P(i) : i \in DOMAIN parts}  BY <1>4 DEF SlotsOf
  <2>2. \A i \in DOMAIN parts : i \in Nat /\ i >= 1  BY <1>4, PartsAreWords
  <2>3. Len(parts) \in Nat /\ DOMAIN parts = 1..Len(parts)
    BY PartsByShape
  <2>4. CASE flatten
    <3>1. more = [i \in DOMAIN parts |-> <<parts[i]>>]  BY <2>4 DEF ValuesOf
    <3>2. DOMAIN more = DOMAIN parts /\ \A i \in DOMAIN parts : more[i] = <<parts[i]>>
      BY <3>1
    <3>3. \A i \in DOMAIN parts : /\ P(i).index = n + i - 1 /\ P(i).field = -1
                                 /\ P(i).type = parts[i]
      BY <2>4
    <3> HIDE DEF more, n, parts, P
    <3>4. ASSUME NEW i \in DOMAIN parts
          PROVE  /\ all[n + i] = <<parts[i]>> /\ n + i \in DOMAIN all
                 /\ Denotes(P(i), all, n + i, 1)
                 /\ P(i).index + 1 = n + i
      <4>1. all[n + i] = <<parts[i]>> /\ n + i \in DOMAIN all
        <5>1. i \in 1..Len(more) /\ more[i] = <<parts[i]>>  BY <1>2, <3>2
        <5>2. all[n + i] = more[i]  BY <1>2, <5>1
        <5>3. n + i \in 1..(n + Len(more))  BY <1>2, <5>1
        <5>4. QED BY <1>2, <5>1, <5>2, <5>3
      <4>2. Len(<<parts[i]>>) = 1 /\ <<parts[i]>>[1] = parts[i]  OBVIOUS
      <4>3. P(i).index = n + i - 1 /\ P(i).field = -1 /\ P(i).type = parts[i]
        BY <3>3
      <4>4. QED BY <1>2, <2>2, <4>1, <4>2, <4>3 DEF Denotes
    <3>5. \A b \in DOMAIN more : \A f \in DOMAIN more[b] :
            \E s \in new : Denotes(s, all, n + b, f)
      <4> SUFFICES ASSUME NEW b \in DOMAIN more, NEW f \in DOMAIN more[b]
                   PROVE  \E s \in new : Denotes(s, all, n + b, f)
        OBVIOUS
      <4>1. b \in DOMAIN parts /\ more[b] = <<parts[b]>>  BY <3>2
      <4>2. f = 1  BY <4>1
      <4>3. QED BY <2>1, <3>4, <4>1, <4>2
    <3>6. \A s \in new :
            /\ s.index >= n /\ s.index + 1 \in DOMAIN all
            /\ \E f \in DOMAIN all[s.index + 1] : Denotes(s, all, s.index + 1, f)
      <4> SUFFICES ASSUME NEW i \in DOMAIN parts
                   PROVE  /\ P(i).index >= n /\ P(i).index + 1 \in DOMAIN all
                          /\ \E f \in DOMAIN all[P(i).index + 1] :
                               Denotes(P(i), all, P(i).index + 1, f)
        BY <2>1
      <4>1. 1 \in DOMAIN <<parts[i]>>  OBVIOUS
      <4>2. P(i).index >= n  BY <1>2, <2>2, <3>3
      <4>3. QED BY <3>4, <4>1, <4>2
    <3>7. \A s, u \in new : s.index = u.index /\ s.field = u.field => s = u
      <4>1. ASSUME NEW i \in DOMAIN parts, NEW j \in DOMAIN parts,
                   P(i).index = P(j).index
            PROVE  i = j
        BY <1>2, <2>2, <3>3, <4>1
      <4>2. QED BY <2>1, <4>1
    <3>8. QED BY <3>5, <3>6, <3>7 DEF more, n
  <2>5. CASE ~flatten
    <3>1. more = <<parts>>  BY <2>5 DEF ValuesOf
    <3>2. Len(more) = 1 /\ DOMAIN more = {1} /\ more[1] = parts  BY <3>1
    <3>3. \A i \in DOMAIN parts : /\ P(i).index = n /\ P(i).field = i - 1
                                 /\ P(i).type = parts[i]
      BY <2>5
    <3> HIDE DEF more, n, parts, P
    <3>4. all[n + 1] = parts /\ n + 1 \in DOMAIN all  BY <1>2, <3>2
    <3>5. \A i \in DOMAIN parts : Denotes(P(i), all, n + 1, i)
      <4> SUFFICES ASSUME NEW i \in DOMAIN parts
                   PROVE  Denotes(P(i), all, n + 1, i)
        OBVIOUS
      <4>1. P(i).index = n /\ P(i).field = i - 1 /\ P(i).type = parts[i]  BY <3>3
      <4>2. n = (n + 1) - 1  BY <1>2
      <4>3. QED BY <3>4, <4>1, <4>2 DEF Denotes
    <3>6. \A b \in DOMAIN more : \A f \in DOMAIN more[b] :
            \E s \in new : Denotes(s, all, n + b, f)
      BY <2>1, <3>2, <3>5
    <3>7. \A s \in new :
            /\ s.index >= n /\ s.index + 1 \in DOMAIN all
            /\ \E f \in DOMAIN all[s.index + 1] : Denotes(s, all, s.index + 1, f)
      <4> SUFFICES ASSUME NEW i \in DOMAIN parts
                   PROVE  /\ P(i).index >= n /\ P(i).index + 1 \in DOMAIN all
                          /\ \E f \in DOMAIN all[P(i).index + 1] :
                               Denotes(P(i), all, P(i).index + 1, f)
        BY <2>1
      <4>1. P(i).index = n  BY <3>3
      <4>2. n >= n  BY <1>2
      <4>3. QED BY <3>4, <3>5, <4>1, <4>2
    <3>8. \A s, u \in new : s.index = u.index /\ s.field = u.field => s = u
      <4>1. ASSUME NEW i \in DOMAIN parts, NEW j \in DOMAIN parts,
                   P(i).field = P(j).field
            PROVE  i = j
        BY <2>2, <3>3, <4>1
      <4>2. QED BY <2>1, <4>1
    <3>9. QED BY <3>6, <3>7, <3>8 DEF more, n
  <2>6. QED BY <2>4, <2>5
<1>5. QED BY <1>3, <1>4

(* Values and slots of one more variable keep the correspondence.          *)
LEMMA CoveredExtends ==
  ASSUME NEW t \in Supported, NEW values \in Values, NEW at \in Nat,
         NEW flatten \in BOOLEAN, NEW slots \in SUBSET Slot,
         Covered(slots, values)
  PROVE  Covered(slots \cup SlotsOf(t, Len(values), at, flatten),
                 values \o ValuesOf(t, flatten))
<1> DEFINE n == Len(values)
           more == ValuesOf(t, flatten)
           all == values \o more
           new == SlotsOf(t, n, at, flatten)
<1>1. more \in Values  BY ValuesOfType
<1>2. /\ n \in Nat /\ Len(more) \in Nat
      /\ DOMAIN values = 1..n /\ DOMAIN more = 1..Len(more)
      /\ DOMAIN all = 1..(n + Len(more))
      /\ \A a \in 1..n : all[a] = values[a]
      /\ \A b \in 1..Len(more) : all[n + b] = more[b]
  BY <1>1, ConcatParts
<1>3. /\ \A b \in DOMAIN more : \A f \in DOMAIN more[b] :
           \E s \in new : Denotes(s, all, n + b, f)
      /\ \A s \in new :
           /\ s.index >= n /\ s.index + 1 \in DOMAIN all
           /\ \E f \in DOMAIN all[s.index + 1] : Denotes(s, all, s.index + 1, f)
      /\ \A s, u \in new : s.index = u.index /\ s.field = u.field => s = u
  <2>1. CoversBehind(new, all, n, more)  BY CoveredByOne
  <2> HIDE DEF n, more, all, new
  <2>2. QED BY <2>1 DEF CoversBehind
<1> HIDE DEF n, more, all, new
<1>4. /\ \A a \in DOMAIN values : \A f \in DOMAIN values[a] :
           \E s \in slots : Denotes(s, values, a, f)
      /\ \A s \in slots :
           /\ s.index + 1 \in DOMAIN values
           /\ \E f \in DOMAIN values[s.index + 1] :
                Denotes(s, values, s.index + 1, f)
      /\ \A s, u \in slots : s.index = u.index /\ s.field = u.field => s = u
  BY DEF Covered
<1>5. \A a \in 1..n : \A s, f : Denotes(s, values, a, f) => Denotes(s, all, a, f)
  BY <1>2 DEF Denotes
<1>6. \A a \in DOMAIN all : \A f \in DOMAIN all[a] :
        \E s \in slots \cup new : Denotes(s, all, a, f)
  <2> SUFFICES ASSUME NEW a \in DOMAIN all, NEW f \in DOMAIN all[a]
               PROVE  \E s \in slots \cup new : Denotes(s, all, a, f)
    OBVIOUS
  <2>1. CASE a \in 1..n  BY <2>1, <1>2, <1>4, <1>5
  <2>2. CASE a \notin 1..n
    <3>1. PICK b \in 1..Len(more) : a = n + b
      <4>1. a - n \in 1..Len(more) /\ a = n + (a - n)  BY <2>2, <1>2
      <4>2. QED BY <4>1
    <3>2. QED BY <3>1, <1>2, <1>3
  <2>3. QED BY <2>1, <2>2
<1>7. ASSUME NEW s \in slots
      PROVE  /\ s.index \in Nat /\ s.index < n /\ s.index + 1 \in DOMAIN all
             /\ \E f \in DOMAIN all[s.index + 1] : Denotes(s, all, s.index + 1, f)
  <2>1. s.index \in Nat  BY DEF Slot
  <2>2. s.index + 1 \in 1..n  BY <1>2, <1>4
  <2>3. s.index < n /\ s.index + 1 \in DOMAIN all  BY <1>2, <2>1, <2>2
  <2>4. QED BY <1>2, <1>4, <1>5, <2>1, <2>2, <2>3
<1>8. ASSUME NEW s \in slots \cup new, NEW u \in slots \cup new,
             s.index = u.index, s.field = u.field
      PROVE  s = u
  <2>1. CASE s \in slots /\ u \in slots  BY <2>1, <1>4, <1>8
  <2>2. CASE s \in new /\ u \in new  BY <2>2, <1>3, <1>8
  <2>3. CASE s \in slots /\ u \in new
    <3>1. s.index \in Nat /\ s.index < n /\ u.index >= n  BY <2>3, <1>3, <1>7
    <3>2. QED BY <3>1, <1>2, <1>8
  <2>4. CASE s \in new /\ u \in slots
    <3>1. u.index \in Nat /\ u.index < n /\ s.index >= n  BY <2>4, <1>3, <1>7
    <3>2. QED BY <3>1, <1>2, <1>8
  <2>5. QED BY <2>1, <2>2, <2>3, <2>4
<1>9. \A s \in slots \cup new :
        /\ s.index + 1 \in DOMAIN all
        /\ \E f \in DOMAIN all[s.index + 1] : Denotes(s, all, s.index + 1, f)
  BY <1>3, <1>7
<1>10. Covered(slots \cup new, all)
  BY <1>6, <1>8, <1>9 DEF Covered
<1>11. QED BY <1>10 DEF n, more, all, new

LEMMA StepCovered ==
  LayoutInv /\ ValuesCovered /\ [LayoutNext]_layoutVars => ValuesCovered'
<1> SUFFICES ASSUME LayoutInv, ValuesCovered, [LayoutNext]_layoutVars, withFrame'
             PROVE  Covered(paramSlots', args') /\ Covered(resultSlots', ret')
  BY DEF ValuesCovered, Covered, Denotes
<1>0. withFrame /\ Covered(paramSlots, args) /\ Covered(resultSlots, ret)
  BY DEF ValuesCovered, LayoutNext, layoutVars, declaration, AddParam, EndParams,
         AddResult, EndResults, Unsupported
<1> USE DEF LayoutInv
<1>1. CASE AddParam
  <2> DEFINE t == params[k]
             at == AlignOff(off, Align[t])
  <2>a. t = params[k] /\ at = AlignOff(off, Align[t]) /\ 0 \in Nat
        /\ TRUE \in BOOLEAN /\ FALSE \in BOOLEAN
    OBVIOUS
  <2>1. t \in Supported  BY <1>1 DEF AddParam, TypeOK, Supported
  <2>2. at \in Nat  BY <2>1, FrameAssumption, AlignOffLeast DEF TypeOK, Supported
  <2>3. args \in Values /\ paramSlots \in SUBSET Slot  BY DEF TypeOK
  <2>4. Covered(paramSlots \cup SlotsOf(t, Len(args), at, FALSE),
                args \o ValuesOf(t, FALSE))
    BY <1>0, <2>1, <2>2, <2>3, CoveredExtends
  <2>5. /\ args' = args \o ValuesOf(t, FALSE)
        /\ paramSlots' = paramSlots \cup SlotsOf(t, Len(args), at, FALSE)
        /\ resultSlots' = resultSlots /\ ret' = ret
    BY <1>0, <1>1 DEF AddParam
  <2>6. QED BY <1>0, <2>4, <2>5
<1>2. CASE AddResult
  <2> DEFINE t == results[k]
             at == AlignOff(off, Align[t])
  <2>a. t = results[k] /\ at = AlignOff(off, Align[t]) /\ 0 \in Nat
        /\ TRUE \in BOOLEAN /\ FALSE \in BOOLEAN
    OBVIOUS
  <2>1. t \in Supported  BY <1>2 DEF AddResult, TypeOK, Supported
  <2>2. at \in Nat  BY <2>1, FrameAssumption, AlignOffLeast DEF TypeOK, Supported
  <2>3. ret \in Values /\ resultSlots \in SUBSET Slot  BY DEF TypeOK
  <2>4. Covered(resultSlots \cup SlotsOf(t, Len(ret), at, TRUE),
                ret \o ValuesOf(t, TRUE))
    BY <1>0, <2>1, <2>2, <2>3, CoveredExtends
  <2>5. /\ ret' = ret \o ValuesOf(t, withFrame)
        /\ resultSlots' = resultSlots \cup SlotsOf(t, Len(ret), at, TRUE)
        /\ paramSlots' = paramSlots /\ args' = args
    BY <1>0, <1>2 DEF AddResult
  <2>6. ValuesOf(t, withFrame) = ValuesOf(t, TRUE)  BY <1>0 DEF ValuesOf
  <2>7. QED BY <1>0, <2>4, <2>5, <2>6
<1>3. CASE UNCHANGED <<args, ret, paramSlots, resultSlots>>
  BY <1>0, <1>3
<1>4. EndParams \/ EndResults \/ Unsupported \/ UNCHANGED layoutVars
        => UNCHANGED <<args, ret, paramSlots, resultSlots>>
  BY DEF EndParams, EndResults, Unsupported, layoutVars
<1>5. QED BY <1>1, <1>2, <1>3, <1>4 DEF LayoutNext

(* Every part of every argument and result of a declared function has      *)
(* exactly one slot, and that slot has its index, field and type.          *)
THEOREM ValuesStayCovered == Spec => []ValuesCovered
<1>1. Init => ValuesCovered  BY DEF Init, ValuesCovered, Covered
<1>2. QED BY <1>1, InitLayout, StepLayout, StepCovered, PTL DEF Spec

------------------------------------------------------------------------------
(* Induction without an operator for the induction hypothesis: a set of    *)
(* numbers has a least one.  The intervals below the numbers of S are      *)
(* finite sets, of which strict inclusion has a minimal one.               *)
LEMMA LeastElement ==
  ASSUME NEW S \in SUBSET Nat, S # {}
  PROVE  \E n \in S : \A m \in S : n =< m
<1> DEFINE T == {0..(n - 1) : n \in S}
           R == StrictSubsetOrdering(Nat)
           F == FiniteSubsetsOf(Nat)
<1>1. IsWellFoundedOn(R, F) BY FS_StrictSubsetOrderingWellFounded
<1>2. T \subseteq F
  <2>1. \A n \in S : IsFiniteSet(0..(n - 1)) BY FS_Interval
  <2>2. \A n \in S : 0..(n-1) \subseteq Nat OBVIOUS
  <2>3. QED BY <2>1, <2>2 DEF FiniteSubsetsOf
<1>3. T # {} OBVIOUS
<1>4. \E x \in T : \A y \in T : ~ (<<y, x>> \in R)
  <2> HIDE DEF T, R, F
  <2>1. QED BY <1>1, <1>2, <1>3, WFMin
<1>5. PICK n \in S : \A m \in S : ~ (<<0..(m-1), 0..(n-1)>> \in R)
  BY <1>4
<1>6. ASSUME NEW m \in S, m < n PROVE FALSE
  <2>1. 0..(m-1) \in F /\ 0..(n-1) \in F  BY <1>2
  <2>2. 0..(m-1) \subseteq 0..(n-1) BY <1>6
  <2>3. m \in 0..(n-1) /\ m \notin 0..(m-1) BY <1>6
  <2>4. <<0..(m-1), 0..(n-1)>> \in R BY <2>1, <2>2, <2>3 DEF StrictSubsetOrdering
  <2>5. QED BY <2>4, <1>5
<1>7. QED BY <1>5, <1>6

(* f iterates the n steps G from c. *)
Steps(S, n) == [1..n -> [S -> S]]
Iterates(f, S, c, n, G) ==
  /\ f \in [0..n -> S] /\ f[0] = c
  /\ \A i \in 1..n : f[i] = G[i][f[i - 1]]

(* A function that iterates given steps exists: the function of one step   *)
(* less, extended by one.                                                  *)
LEMMA Recursion ==
  ASSUME NEW S, NEW c \in S, NEW n \in Nat, NEW G \in Steps(S, n)
  PROVE  \E f : Iterates(f, S, c, n, G)
<1> DEFINE Good(m, f) == /\ f \in [0..m -> S] /\ f[0] = c
                         /\ \A i \in 1..m : f[i] = G[i][f[i - 1]]
           Bad == {m \in 0..n : ~ \E f : Good(m, f)}
<1>1. SUFFICES ASSUME Bad # {} PROVE FALSE
  <2>1. n \in 0..n  OBVIOUS
  <2>2. QED BY <2>1 DEF Iterates
<1>2. PICK m \in Bad : \A b \in Bad : m =< b
  <2>1. Bad \in SUBSET Nat  OBVIOUS
  <2> HIDE DEF Bad
  <2>2. QED BY <1>1, <2>1, LeastElement
<1>3. m # 0
  <2>1. Good(0, [i \in 0..0 |-> c])  OBVIOUS
  <2>2. QED BY <2>1
<1>4. m \in 1..n /\ m - 1 \in 0..n /\ ~ (m =< m - 1)  BY <1>3
<1>5. PICK f : Good(m - 1, f)
  <2>1. m - 1 \notin Bad  BY <1>2, <1>4
  <2>2. QED BY <1>4, <2>1
<1> DEFINE h == [i \in 0..m |-> IF i = m THEN G[m][f[m - 1]] ELSE f[i]]
<1>6. f[m - 1] \in S /\ G[m][f[m - 1]] \in S  BY <1>4, <1>5 DEF Steps
<1>7. h \in [0..m -> S]  BY <1>4, <1>5, <1>6
<1>8. h[0] = c  BY <1>4, <1>5
<1>9. ASSUME NEW i \in 1..m PROVE h[i] = G[i][h[i - 1]]
  <2>1. h[i - 1] = f[i - 1]  BY <1>4
  <2>2. CASE i = m  BY <2>1, <2>2, <1>4
  <2>3. CASE i # m
    <3>1. h[i] = f[i] /\ i \in 1..(m - 1)  BY <2>3, <1>4
    <3>2. QED BY <1>5, <2>1, <3>1
  <2>4. QED BY <2>2, <2>3
<1> HIDE DEF h
<1>10. Good(m, h)  BY <1>7, <1>8, <1>9
<1>11. QED BY <1>10

(* goAlignOff returns what ABI0 asks for: the least multiple.              *)
LEMMA LeastMultipleIs ==
  ASSUME NEW at \in Nat, NEW a \in {1, 2, 4, 8}
  PROVE  LeastMultiple(at, a) = AlignOff(at, a)
<1> DEFINE o == AlignOff(at, a)
           C == {x \in at..(at + a - 1) : (x % a) = 0}
<1>1. o \in at..(at + a - 1) /\ (o % a) = 0
  <2>1. o \in Nat /\ at =< o /\ o < at + a /\ (o % a) = 0  BY AlignOffLeast
  <2> HIDE DEF o
  <2>2. QED BY <2>1
<1>2. ASSUME NEW x \in at..(at + a - 1), (x % a) = 0
      PROVE  x = o
  <2> HIDE DEF o
  <2>1. CASE a = 1  BY <1>1, <1>2, <2>1, SMT
  <2>2. CASE a = 2  BY <1>1, <1>2, <2>2, SMT
  <2>3. CASE a = 4  BY <1>1, <1>2, <2>3, SMT
  <2>4. CASE a = 8  BY <1>1, <1>2, <2>4, SMT
  <2>5. QED BY <2>1, <2>2, <2>3, <2>4
<1> HIDE DEF o
<1>3. QED BY <1>1, <1>2 DEF LeastMultiple, o

(* One variable behind a frame that ends at e. *)
EndStep(list, i, e) == LeastMultiple(e, Align[list[i]]) + Size[list[i]]

(* The recursive function of EndsOf, as TLA+ defines it. *)
LEMMA EndsOfChoice ==
  ASSUME NEW list, NEW base
  PROVE  EndsOf(list, base) =
           CHOOSE g : g = [i \in 0..Len(list) |->
                             IF i = 0 THEN base ELSE EndStep(list, i, g[i - 1])]
BY DEF EndsOf, EndStep

(* It exists, and so has the ends the translator computes one by one.       *)
LEMMA EndsByStep ==
  ASSUME NEW list \in Seq(Types), NEW base \in Nat
  PROVE  /\ EndsOf(list, base) \in [0..Len(list) -> Nat]
         /\ EndsOf(list, base)[0] = base
         /\ \A i \in 1..Len(list) :
              EndsOf(list, base)[i] =
                AlignOff(EndsOf(list, base)[i - 1], Align[list[i]]) + Size[list[i]]
<1> DEFINE n == Len(list)
           G == [i \in 1..n |-> [e \in Nat |-> EndStep(list, i, e)]]
           E == EndsOf(list, base)
<1>1. n \in Nat /\ \A i \in 1..n : list[i] \in Types  OBVIOUS
<1>2. \A i \in 1..n : Align[list[i]] \in {1, 2, 4, 8} /\ Size[list[i]] \in Nat
  BY <1>1, FrameAssumption
<1>3. ASSUME NEW i \in 1..n, NEW e \in Nat
      PROVE  /\ EndStep(list, i, e) = AlignOff(e, Align[list[i]]) + Size[list[i]]
             /\ EndStep(list, i, e) \in Nat
  <2> DEFINE a == Align[list[i]]
  <2>1. a \in {1, 2, 4, 8} /\ Size[list[i]] \in Nat  BY <1>2
  <2> HIDE DEF a
  <2>2. LeastMultiple(e, a) = AlignOff(e, a) /\ AlignOff(e, a) \in Nat
    BY <2>1, LeastMultipleIs, AlignOffLeast
  <2>3. QED BY <2>1, <2>2 DEF EndStep, a
<1>4. G \in Steps(Nat, n)  BY <1>3 DEF Steps
<1> HIDE DEF n
<1>5. PICK f : Iterates(f, Nat, base, n, G)
  <2> HIDE DEF G
  <2>1. QED BY <1>1, <1>4, Recursion
<1>6. ASSUME NEW i \in 0..n
      PROVE  f[i] = IF i = 0 THEN base ELSE EndStep(list, i, f[i - 1])
  <2>1. CASE i = 0  BY <1>5, <2>1 DEF Iterates
  <2>2. CASE i # 0
    <3>1. i \in 1..n /\ i - 1 \in 0..n  BY <1>1, <2>2
    <3>2. f[i - 1] \in Nat /\ f[i] = G[i][f[i - 1]]
      BY <1>5, <3>1 DEF Iterates
    <3>3. G[i][f[i - 1]] = EndStep(list, i, f[i - 1])  BY <3>1, <3>2
    <3>4. QED BY <2>2, <3>2, <3>3
  <2>3. QED BY <2>1, <2>2
<1>7. f = [i \in 0..n |-> IF i = 0 THEN base ELSE EndStep(list, i, f[i - 1])]
  BY <1>5, <1>6 DEF Iterates
<1>8. E = CHOOSE g : g = [i \in 0..n |-> IF i = 0 THEN base
                                         ELSE EndStep(list, i, g[i - 1])]
  BY EndsOfChoice DEF n
<1> HIDE DEF E
<1>9. E = [i \in 0..n |-> IF i = 0 THEN base ELSE EndStep(list, i, E[i - 1])]
  BY <1>7, <1>8
<1>10. /\ DOMAIN E = 0..n
       /\ \A i \in 0..n :
            E[i] = IF i = 0 THEN base ELSE EndStep(list, i, E[i - 1])
  BY <1>9
<1>11. \A i \in 0..n : E[i] \in Nat
  <2> DEFINE Bad == {i \in 0..n : E[i] \notin Nat}
  <2>1. SUFFICES ASSUME Bad # {} PROVE FALSE  OBVIOUS
  <2>2. PICK i \in Bad : \A b \in Bad : i =< b
    <3>1. Bad \in SUBSET Nat  OBVIOUS
    <3> HIDE DEF Bad
    <3>2. QED BY <2>1, <3>1, LeastElement
  <2>3. i # 0  BY <1>10
  <2>4. i \in 1..n /\ i - 1 \in 0..n /\ ~ (i =< i - 1)  BY <1>1, <2>3
  <2>5. E[i - 1] \in Nat  BY <2>2, <2>4
  <2>6. QED BY <1>3, <1>10, <2>3, <2>4, <2>5
<1>12. E \in [0..n -> Nat]  BY <1>9, <1>11
<1>13. E[0] = base  BY <1>1, <1>10
<1>14. ASSUME NEW i \in 1..n
       PROVE  E[i] = AlignOff(E[i - 1], Align[list[i]]) + Size[list[i]]
  <2>1. i \in 0..n /\ i # 0 /\ i - 1 \in 0..n  BY <1>1
  <2>2. QED BY <1>3, <1>10, <1>11, <2>1
<1>15. QED BY <1>12, <1>13, <1>14 DEF E, n

------------------------------------------------------------------------------
(* The operands that reach something, and where ABI0 puts the parts of the *)
(* first n variables.                                                      *)
Reached(slots) == {<<s.offset, s.type>> : s \in slots}
PartsAt(t, at) ==
  {<<at + (j - 1) * FrameWord, PartTypes(t)[j]>> : j \in DOMAIN PartTypes(t)}
StartOf(list, base, n) == AlignOff(EndsOf(list, base)[n - 1], Align[list[n]])
PlacesUpTo(list, base, n) ==
  UNION {PartsAt(list[i], StartOf(list, base, i)) : i \in 1..n}

(* The slots of a variable reach exactly its parts, at its place.          *)
LEMMA SlotsReachParts ==
  ASSUME NEW t \in Supported, NEW n \in Nat, NEW at \in Nat,
         NEW flatten \in BOOLEAN
  PROVE  Reached(SlotsOf(t, n, at, flatten)) = PartsAt(t, at)
<1>1. CASE Shape[t] = "value"
  <2> DEFINE only == [offset |-> at, type |-> t, index |-> n, field |-> -1]
  <2>1. SlotsOf(t, n, at, flatten) = {only}  BY <1>1 DEF SlotsOf
  <2>2. Reached(SlotsOf(t, n, at, flatten)) = {<<at, t>>}  BY <2>1 DEF Reached
  <2>3. PartTypes(t) = <<t>>  BY <1>1, PartsByShape
  <2>4. FrameWord \in Nat  BY FrameAssumption
  <2>5. at + (1 - 1) * FrameWord = at
    <3>1. CASE FrameWord = 4  BY <3>1
    <3>2. CASE FrameWord = 8  BY <3>2
    <3>3. QED BY <3>1, <3>2, FrameAssumption
  <2>6. DOMAIN <<t>> = {1} /\ <<t>>[1] = t  OBVIOUS
  <2>7. PartsAt(t, at) = {<<at + (j - 1) * FrameWord, <<t>>[j]>> : j \in {1}}
    BY <2>3, <2>6 DEF PartsAt
  <2>8. PartsAt(t, at) = {<<at, t>>}  BY <2>5, <2>6, <2>7
  <2>9. QED BY <2>2, <2>8
<1>2. CASE Shape[t] # "value"
  <2> DEFINE P(i) == [offset |-> at + (i - 1) * FrameWord,
                      type   |-> PartTypes(t)[i],
                      index  |-> IF flatten THEN n + i - 1 ELSE n,
                      field  |-> IF flatten THEN -1 ELSE i - 1]
  <2>1. SlotsOf(t, n, at, flatten) = {P(i) : i \in DOMAIN PartTypes(t)}
    BY <1>2 DEF SlotsOf
  <2>2. \A i : /\ P(i).offset = at + (i - 1) * FrameWord
               /\ P(i).type = PartTypes(t)[i]
    OBVIOUS
  <2> HIDE DEF P
  <2>3. Reached(SlotsOf(t, n, at, flatten))
          = {<<P(i).offset, P(i).type>> : i \in DOMAIN PartTypes(t)}
    BY <2>1 DEF Reached
  <2>4. QED BY <2>2, <2>3 DEF PartsAt
<1>3. QED BY <1>1, <1>2

(* Slots added to slots reach the places of both.                          *)
LEMMA ReachedJoin ==
  ASSUME NEW slots, NEW more
  PROVE  Reached(slots \cup more) = Reached(slots) \cup Reached(more)
BY DEF Reached

(* One more variable adds its parts to the places.                         *)
LEMMA PlacesGrow ==
  ASSUME NEW list \in Seq(Types), NEW base \in Nat, NEW n \in 1..Len(list)
  PROVE  PlacesUpTo(list, base, n)
           = PlacesUpTo(list, base, n - 1) \cup PartsAt(list[n], StartOf(list, base, n))
<1> DEFINE Part(i) == PartsAt(list[i], StartOf(list, base, i))
           left == PlacesUpTo(list, base, n)
           right == PlacesUpTo(list, base, n - 1) \cup Part(n)
<1> HIDE DEF Part
<1>1. \A m, x : x \in UNION {Part(i) : i \in 1..m} <=> \E i \in 1..m : x \in Part(i)
  OBVIOUS
<1>2. \A i : i \in 1..n <=> i \in 1..(n - 1) \/ i = n  OBVIOUS
<1>3. \A m : PlacesUpTo(list, base, m) = UNION {Part(i) : i \in 1..m}
  BY DEF PlacesUpTo, Part
<1>4. ASSUME NEW x PROVE x \in left <=> x \in right
  BY <1>1, <1>2, <1>3
<1> HIDE DEF left, right
<1>5. left = right  BY <1>4
<1>6. QED BY <1>5 DEF left, right, Part

(* All variables of a list together are at the places of the list.         *)
LEMMA PlacesAll ==
  ASSUME NEW list \in Seq(Types), NEW base \in Nat
  PROVE  PlacesOf(list, base) = PlacesUpTo(list, base, Len(list))
<1> DEFINE E == EndsOf(list, base)
<1>1. E \in [0..Len(list) -> Nat]  BY EndsByStep
<1>2. DOMAIN list = 1..Len(list) /\ Len(list) \in Nat  OBVIOUS
<1> HIDE DEF E
<1>3. ASSUME NEW i \in DOMAIN list
      PROVE  LeastMultiple(E[i - 1], Align[list[i]]) = AlignOff(E[i - 1], Align[list[i]])
  <2>1. i - 1 \in 0..Len(list)  BY <1>2
  <2>2. E[i - 1] \in Nat  BY <1>1, <2>1
  <2>3. Align[list[i]] \in {1, 2, 4, 8}  BY <1>2, FrameAssumption
  <2>4. QED BY <2>2, <2>3, LeastMultipleIs
<1>4. PlacesOf(list, base)
        = UNION {PartsAt(list[i], LeastMultiple(E[i - 1], Align[list[i]])) :
                   i \in DOMAIN list}
  BY DEF PlacesOf, PartsAt, E
<1>5. QED BY <1>2, <1>3, <1>4 DEF PlacesUpTo, StartOf, E

(* Offsets and slots are those of ABI0 as far as the loops have come.      *)
ResultsStart == LeastMultiple(EndsOf(params, 0)[Len(params)], FrameWord)
PlacedInv ==
  withFrame =>
    /\ phase = "params" =>
         /\ k =< Len(params) + 1 /\ off = EndsOf(params, 0)[k - 1]
         /\ Reached(paramSlots) = PlacesUpTo(params, 0, k - 1)
         /\ resultSlots = {}
    /\ phase = "results" =>
         /\ Reached(paramSlots) = PlacesOf(params, 0)
         /\ k =< Len(results) + 1 /\ off = EndsOf(results, ResultsStart)[k - 1]
         /\ Reached(resultSlots) = PlacesUpTo(results, ResultsStart, k - 1)
    /\ phase = "done" =>
         /\ Reached(paramSlots) = PlacesOf(params, 0)
         /\ Reached(resultSlots) = PlacesOf(results, ResultsStart)

(* At the start no variable has a place.                                   *)
LEMMA InitPlaced == Init => PlacedInv
<1> SUFFICES ASSUME Init PROVE PlacedInv
  OBVIOUS
<1>1. params \in Seq(Types)  BY FrameAssumption DEF Init
<1>2. EndsOf(params, 0)[0] = 0  BY <1>1, EndsByStep
<1>3. PlacesUpTo(params, 0, 0) = {}  BY DEF PlacesUpTo
<1>4. Reached({}) = {}  BY DEF Reached
<1>5. phase = "params" /\ k = 1 /\ off = 0 /\ paramSlots = {} /\ resultSlots = {}
  BY DEF Init
<1>6. k - 1 = 0 /\ k =< Len(params) + 1  BY <1>1, <1>5
<1>7. QED BY <1>2, <1>3, <1>4, <1>5, <1>6, Zenon DEF PlacedInv

(* The frame of the parameters ends at a word at which results may begin.  *)
LEMMA ResultsStartIs ==
  ASSUME TypeOK
  PROVE  /\ ResultsStart \in Nat
         /\ ResultsStart = AlignOff(EndsOf(params, 0)[Len(params)], FrameWord)
<1> DEFINE e == EndsOf(params, 0)[Len(params)]
<1>1. params \in Seq(Types) /\ Len(params) \in 0..Len(params)  BY DEF TypeOK
<1>2. e \in Nat  BY <1>1, EndsByStep
<1> HIDE DEF e
<1>3. FrameWord \in {1, 2, 4, 8}  BY FrameAssumption
<1>4. QED BY <1>2, <1>3, LeastMultipleIs, AlignOffLeast DEF ResultsStart, e

(* Where a variable starts, and what its slots add to those before it.     *)
LEMMA StartIs ==
  ASSUME NEW list \in Seq(Types), NEW base \in Nat, NEW n \in 1..Len(list)
  PROVE  /\ StartOf(list, base, n) \in Nat
         /\ EndsOf(list, base)[n] = StartOf(list, base, n) + Size[list[n]]
<1>1. n - 1 \in 0..Len(list) /\ list[n] \in Types  OBVIOUS
<1>2. EndsOf(list, base) \in [0..Len(list) -> Nat]  BY EndsByStep
<1>3. EndsOf(list, base)[n - 1] \in Nat  BY <1>1, <1>2
<1>4. Align[list[n]] \in {1, 2, 4, 8}  BY <1>1, FrameAssumption
<1>5. StartOf(list, base, n) \in Nat  BY <1>3, <1>4, AlignOffLeast DEF StartOf
<1>6. QED BY <1>5, EndsByStep DEF StartOf

(* The slots of the next variable of a list go where ABI0 puts it.         *)
LEMMA PlaceOne ==
  ASSUME NEW list \in Seq(Types), NEW base \in Nat, NEW n \in 1..Len(list),
         NEW slots, Reached(slots) = PlacesUpTo(list, base, n - 1),
         NEW new, Reached(new) = PartsAt(list[n], StartOf(list, base, n))
  PROVE  Reached(slots \cup new) = PlacesUpTo(list, base, n)
<1>1. Reached(slots \cup new) = Reached(slots) \cup Reached(new)
  BY ReachedJoin
<1>2. PlacesUpTo(list, base, n)
        = PlacesUpTo(list, base, n - 1) \cup PartsAt(list[n], StartOf(list, base, n))
  BY PlacesGrow
<1>3. QED BY <1>1, <1>2

(* One action of the layout per case: a variable is placed, or a list      *)
(* ends.                                                                   *)
LEMMA StepPlaced == LayoutInv /\ PlacedInv /\ [LayoutNext]_layoutVars => PlacedInv'
<1> SUFFICES ASSUME LayoutInv, PlacedInv, [LayoutNext]_layoutVars, withFrame'
             PROVE  PlacedInv'
  BY DEF PlacedInv
<1>0. /\ withFrame /\ UNCHANGED <<params, results, withFrame>>
  BY DEF LayoutNext, layoutVars, declaration, AddParam, EndParams, AddResult,
         EndResults, Unsupported
<1>t. TypeOK  BY DEF LayoutInv
<1>a. /\ params \in Seq(Types) /\ results \in Seq(Types) /\ k \in Nat \ {0}
      /\ Len(params) \in Nat /\ Len(results) \in Nat
      /\ Len(args) \in Nat /\ Len(ret) \in Nat
  BY <1>t DEF TypeOK, Values
<1>r. ResultsStart' = ResultsStart  BY <1>0 DEF ResultsStart
<1>1. CASE AddParam
  <2>1. phase = "params" /\ phase' = "params" /\ k \in 1..Len(params) /\ k' = k + 1
        /\ params[k] \in Supported /\ resultSlots' = resultSlots
    BY <1>1, <1>a DEF AddParam, Supported
  <2>2. /\ off = EndsOf(params, 0)[k - 1] /\ resultSlots = {}
        /\ Reached(paramSlots) = PlacesUpTo(params, 0, k - 1)
    BY <1>0, <2>1 DEF PlacedInv
  <2> DEFINE at == StartOf(params, 0, k)
             new == SlotsOf(params[k], Len(args), at, FALSE)
  <2>3. /\ off' = at + Size[params[k]]
        /\ paramSlots' = paramSlots \cup new
    BY <1>0, <1>1, <2>2 DEF AddParam, StartOf
  <2>4. EndsOf(params, 0)[k] = at + Size[params[k]]
    BY <1>a, <2>1, StartIs
  <2>5. Reached(paramSlots \cup new) = PlacesUpTo(params, 0, k)
    <3>1. at \in Nat  BY <1>a, <2>1, StartIs
    <3>2. Reached(new) = PartsAt(params[k], at)  BY <1>a, <2>1, <3>1, SlotsReachParts
    <3> HIDE DEF new
    <3>3. QED BY <1>a, <2>1, <2>2, <3>2, PlaceOne
  <2> HIDE DEF at, new
  <2>6. k' - 1 = k /\ k' =< Len(params) + 1  BY <1>a, <2>1
  <2>7. QED BY <1>0, <1>r, <2>1, <2>2, <2>3, <2>4, <2>5, <2>6 DEF PlacedInv
<1>2. CASE EndParams
  <2>1. phase = "params" /\ phase' = "results" /\ k > Len(params) /\ k' = 1
        /\ off' = AlignOff(off, FrameWord)
        /\ paramSlots' = paramSlots /\ resultSlots' = resultSlots
    BY <1>0, <1>2 DEF EndParams
  <2>2. /\ off = EndsOf(params, 0)[k - 1] /\ resultSlots = {} /\ k =< Len(params) + 1
        /\ Reached(paramSlots) = PlacesUpTo(params, 0, k - 1)
    BY <1>0, <2>1 DEF PlacedInv
  <2>3. k - 1 = Len(params)  BY <1>a, <2>1, <2>2
  <2>4. off' = ResultsStart /\ ResultsStart \in Nat
    BY <1>t, <2>1, <2>2, <2>3, ResultsStartIs
  <2>5. EndsOf(results, ResultsStart)[0] = ResultsStart
    BY <1>a, <2>4, EndsByStep
  <2>6. PlacesOf(params, 0) = PlacesUpTo(params, 0, Len(params))
    BY <1>a, PlacesAll
  <2>7. PlacesUpTo(results, ResultsStart, 0) = {} /\ Reached({}) = {}
    BY DEF PlacesUpTo, Reached
  <2>8. k' - 1 = 0 /\ k' =< Len(results) + 1  BY <1>a, <2>1
  <2>9. QED BY <1>0, <1>r, <2>1, <2>2, <2>3, <2>4, <2>5, <2>6, <2>7, <2>8
            DEF PlacedInv
<1>3. CASE AddResult
  <2>1. phase = "results" /\ phase' = "results" /\ k \in 1..Len(results)
        /\ k' = k + 1 /\ results[k] \in Supported /\ paramSlots' = paramSlots
    BY <1>3, <1>a DEF AddResult, Supported
  <2>2. /\ off = EndsOf(results, ResultsStart)[k - 1]
        /\ Reached(resultSlots) = PlacesUpTo(results, ResultsStart, k - 1)
        /\ Reached(paramSlots) = PlacesOf(params, 0)
    BY <1>0, <2>1 DEF PlacedInv
  <2> DEFINE at == StartOf(results, ResultsStart, k)
             new == SlotsOf(results[k], Len(ret), at, TRUE)
  <2>3. ResultsStart \in Nat  BY <1>t, ResultsStartIs
  <2>4. /\ off' = at + Size[results[k]]
        /\ resultSlots' = resultSlots \cup new
    BY <1>0, <1>3, <2>2 DEF AddResult, StartOf
  <2>5. EndsOf(results, ResultsStart)[k] = at + Size[results[k]]
    BY <1>a, <2>1, <2>3, StartIs
  <2>6. Reached(resultSlots \cup new) = PlacesUpTo(results, ResultsStart, k)
    <3>1. at \in Nat  BY <1>a, <2>1, <2>3, StartIs
    <3>2. Reached(new) = PartsAt(results[k], at)  BY <1>a, <2>1, <3>1, SlotsReachParts
    <3> HIDE DEF new
    <3>3. QED BY <1>a, <2>1, <2>2, <2>3, <3>2, PlaceOne
  <2> HIDE DEF at, new
  <2>7. k' - 1 = k /\ k' =< Len(results) + 1  BY <1>a, <2>1
  <2>8. QED BY <1>0, <1>r, <2>1, <2>2, <2>4, <2>5, <2>6, <2>7 DEF PlacedInv
<1>4. CASE EndResults
  <2>1. phase = "results" /\ phase' = "done" /\ k > Len(results)
        /\ paramSlots' = paramSlots /\ resultSlots' = resultSlots
    BY <1>4 DEF EndResults
  <2>2. /\ Reached(paramSlots) = PlacesOf(params, 0) /\ k =< Len(results) + 1
        /\ Reached(resultSlots) = PlacesUpTo(results, ResultsStart, k - 1)
    BY <1>0, <2>1 DEF PlacedInv
  <2>3. k - 1 = Len(results)  BY <1>a, <2>1, <2>2
  <2>4. PlacesOf(results, ResultsStart)
          = PlacesUpTo(results, ResultsStart, Len(results))
    BY <1>a, <1>t, ResultsStartIs, PlacesAll
  <2>5. QED BY <1>0, <1>r, <2>1, <2>2, <2>3, <2>4 DEF PlacedInv
<1>5. CASE Unsupported
  BY <1>5 DEF Unsupported, PlacedInv
<1>6. CASE UNCHANGED layoutVars
  BY <1>0, <1>6, <1>r DEF layoutVars, PlacedInv
<1>7. QED BY <1>1, <1>2, <1>3, <1>4, <1>5, <1>6 DEF LayoutNext

(* An operand name+off(FP) reaches the variable that the Go compiler put   *)
(* there, whatever the signature: the loops of                             *)
(* goFuncSigForDeclaredFunc compute the places of ABI0, which are defined  *)
(* here by a recursion of their own, over the whole list.                  *)
THEOREM FramesMatchABI0 == Spec => []FrameMatchesABI0
<1>1. LayoutInv /\ PlacedInv => FrameMatchesABI0
  BY DEF PlacedInv, FrameMatchesABI0, Reached, ResultsStart
<1>2. QED BY <1>1, InitLayout, StepLayout, InitPlaced, StepPlaced, PTL DEF Spec

-----------------------------------------------------------------------------
(* Slots of a frame in the order of their variables: parameters in front   *)
(* of results, a result is a value of its own, and the type of a slot is   *)
(* that of a part.                                                         *)
IsPart(s) == s.type \in {"ptr", "word"} \/ Shape[s.type] = "value"
OrderInv ==
  /\ \A s \in paramSlots \cup resultSlots : IsPart(s)
  /\ phase = "params" => resultSlots = {}
  /\ \A s \in paramSlots, u \in resultSlots : SlotEnd(s) =< u.offset
  /\ \A s, u \in paramSlots : s.index < u.index => SlotEnd(s) =< u.offset
  /\ \A s \in resultSlots : s.field = -1

(* The parts of a variable have the types of parts.                        *)
LEMMA NewParts ==
  ASSUME NEW t \in Supported, NEW n \in Nat, NEW at \in Nat,
         NEW flatten \in BOOLEAN, NEW s \in SlotsOf(t, n, at, flatten)
  PROVE  IsPart(s)
<1>1. CASE Shape[t] = "value"
  BY <1>1 DEF SlotsOf, IsPart
<1>2. CASE Shape[t] # "value"
  <2>1. PICK i \in DOMAIN PartTypes(t) : s.type = PartTypes(t)[i]
    BY <1>2 DEF SlotsOf
  <2>2. QED BY <1>2, <2>1, PartsAreWords DEF IsPart
<1>3. QED BY <1>1, <1>2

(* The order of the slots is kept by every step of the layout.             *)
LEMMA StepOrder ==
  LayoutInv /\ ValuesCovered /\ OrderInv /\ [LayoutNext]_layoutVars => OrderInv'
<1> SUFFICES ASSUME LayoutInv, ValuesCovered, OrderInv, [LayoutNext]_layoutVars
             PROVE  OrderInv'
  OBVIOUS
<1>1. ASSUME NEW s \in paramSlots \cup resultSlots
      PROVE  s \in Slot /\ s.offset \in Nat /\ s.index \in Nat
             /\ SlotEnd(s) \in Nat /\ SlotEnd(s) =< off
  <2>1. s \in Slot  BY DEF LayoutInv, TypeOK
  <2>2. ValueWord \in Nat /\ \A y \in Types : ValueSize[y] \in Nat
    BY FrameAssumption
  <2>3. SlotEnd(s) \in Nat  BY <2>1, <2>2 DEF Slot, SlotEnd, TypeSize, LLVMTypes
  <2>4. SlotEnd(s) =< off  BY DEF LayoutInv, LaidOut
  <2>5. QED BY <2>1, <2>3, <2>4 DEF Slot
<1>2. CASE AddParam
  <2> DEFINE t == params[k]
             at == AlignOff(off, Align[t])
             new == SlotsOf(t, Len(args), at, FALSE)
  <2>1. t \in Supported  BY <1>2 DEF LayoutInv, AddParam, TypeOK, Supported
  <2>2. off \in Nat /\ at \in Nat /\ at >= off /\ (at % Align[t]) = 0
    BY <2>1, FrameAssumption, AlignOffLeast DEF LayoutInv, TypeOK, Supported
  <2>3. Len(args) \in Nat  BY DEF LayoutInv, TypeOK, Values
  <2>4. \A s \in new : s \in Slot /\ s.offset >= at
    BY <2>1, <2>2, <2>3, SlotsOfOne
  <2>5. \A s \in new : s.index = Len(args) /\ IsPart(s)
    <3>1. \A s \in new : s.index = Len(args)  BY DEF SlotsOf
    <3>2. \A s \in new : IsPart(s)  BY <2>1, <2>2, <2>3, NewParts
    <3>3. QED BY <3>1, <3>2
  <2>6. phase' = phase /\ phase = "params" /\ resultSlots' = resultSlots
        /\ paramSlots' = IF withFrame THEN paramSlots \cup new ELSE paramSlots
    BY <1>2 DEF AddParam
  <2> HIDE DEF new, at, t
  <2>7. resultSlots' = {}  BY <2>6 DEF OrderInv
  <2>8. CASE withFrame
    <3>1. \A s \in paramSlots : s.index < Len(args)
      <4>1. \A s \in paramSlots : s.index + 1 \in DOMAIN args
        BY <2>8 DEF ValuesCovered, Covered
      <4>2. DOMAIN args = 1..Len(args)  BY DEF LayoutInv, TypeOK, Values
      <4>3. QED BY <1>1, <2>3, <4>1, <4>2
    <3>2. ASSUME NEW s \in paramSlots', NEW u \in paramSlots', s.index < u.index
          PROVE  SlotEnd(s) =< u.offset
      <4>1. s \in paramSlots \cup new /\ u \in paramSlots \cup new  BY <2>6, <2>8
      <4>2. s \in paramSlots
        <5>1. u.index =< Len(args) /\ u.index \in Nat
          BY <1>1, <2>3, <2>5, <3>1, <4>1
        <5>2. QED BY <2>3, <2>5, <3>2, <4>1, <5>1
      <4>3. CASE u \in paramSlots  BY <3>2, <4>2, <4>3 DEF OrderInv
      <4>4. CASE u \in new
        <5>1. u.offset >= at /\ u.offset \in Nat  BY <2>4, <4>4 DEF Slot
        <5>2. QED BY <1>1, <2>2, <4>2, <5>1
      <4>5. QED BY <4>1, <4>3, <4>4
    <3>3. \A s \in paramSlots' \cup resultSlots' : IsPart(s)
      BY <2>5, <2>6, <2>8 DEF OrderInv
    <3>4. QED BY <2>7, <3>2, <3>3 DEF OrderInv, SlotEnd, IsPart
  <2>9. CASE ~withFrame  BY <2>6, <2>9 DEF OrderInv, SlotEnd, IsPart
  <2>10. QED BY <2>8, <2>9
<1>3. CASE AddResult
  <2> DEFINE t == results[k]
             at == AlignOff(off, Align[t])
             new == SlotsOf(t, Len(ret), at, TRUE)
  <2>1. t \in Supported  BY <1>3 DEF LayoutInv, AddResult, TypeOK, Supported
  <2>2. off \in Nat /\ at \in Nat /\ at >= off /\ (at % Align[t]) = 0
    BY <2>1, FrameAssumption, AlignOffLeast DEF LayoutInv, TypeOK, Supported
  <2>3. Len(ret) \in Nat  BY DEF LayoutInv, TypeOK, Values
  <2>4. \A s \in new : s \in Slot /\ s.offset >= at
    BY <2>1, <2>2, <2>3, SlotsOfOne
  <2>5. \A s \in new : s.field = -1 /\ IsPart(s)
    <3>1. \A s \in new : s.field = -1  BY DEF SlotsOf
    <3>2. \A s \in new : IsPart(s)  BY <2>1, <2>2, <2>3, NewParts
    <3>3. QED BY <3>1, <3>2
  <2>6. phase' = phase /\ phase = "results" /\ paramSlots' = paramSlots
        /\ resultSlots' = IF withFrame THEN resultSlots \cup new ELSE resultSlots
    BY <1>3 DEF AddResult
  <2> HIDE DEF new, at, t
  <2>7. ASSUME NEW s \in paramSlots, NEW u \in new
        PROVE  SlotEnd(s) =< u.offset
    <3>1. u.offset >= at /\ u.offset \in Nat  BY <2>4 DEF Slot
    <3>2. QED BY <1>1, <2>2, <3>1
  <2>8. QED BY <2>5, <2>6, <2>7 DEF OrderInv, SlotEnd, IsPart
<1>4. CASE EndParams \/ EndResults \/ Unsupported \/ UNCHANGED layoutVars
  <2>1. /\ paramSlots' = paramSlots /\ resultSlots' = resultSlots
        /\ phase' = "params" => phase = "params"
    BY <1>4 DEF EndParams, EndResults, Unsupported, layoutVars
  <2>2. QED BY <2>1 DEF OrderInv, SlotEnd, IsPart
<1>5. QED BY <1>2, <1>3, <1>4 DEF LayoutNext

------------------------------------------------------------------------------
Bytes(n) == [1..n -> Int]

(* The slots that a body finds have places of their own.                   *)
OwnPlaces ==
  /\ phase = "done" /\ withFrame
  /\ \A s, u \in resultSlots : s.offset = u.offset => s = u
  /\ target = "arm" => \A s, u \in paramSlots : s.offset = u.offset => s = u

(* What the frame of a body is known to be.                                *)
GoodFrame ==
  LayoutInv /\ ValuesCovered /\ OrderInv /\ OwnPlaces
    /\ target \in {"arm", "386"}

(* A slot has a place of a size that its type gives, within the frame.     *)
LEMMA SlotBasics ==
  ASSUME GoodFrame, NEW s \in Slots
  PROVE  /\ s.offset \in Nat /\ s.index \in Nat
         /\ TypeSize(s.type) \in {0, 1, 2, 4, 8}
         /\ SlotEnd(s) = s.offset + TypeSize(s.type) /\ SlotEnd(s) =< off
         /\ off \in Nat
<1>1. s \in Slot /\ off \in Nat /\ SlotEnd(s) =< off /\ IsPart(s)
  BY DEF GoodFrame, OrderInv, LayoutInv, TypeOK, LaidOut, Slots
<1>2. CASE s.type \in {"ptr", "word"}
  <2>1. TypeSize(s.type) = 4  BY <1>2, BodyAssumption DEF TypeSize
  <2>2. QED BY <1>1, <2>1 DEF Slot, SlotEnd
<1>3. CASE s.type \notin {"ptr", "word"}
  <2>1. s.type \in Types /\ Shape[s.type] = "value"
    BY <1>1, <1>3 DEF Slot, LLVMTypes, IsPart
  <2>2. TypeSize(s.type) = ValueSize[s.type]  BY <1>3 DEF TypeSize
  <2>3. TypeSize(s.type) \in {0, 1, 2, 4, 8}  BY <2>1, <2>2, BodyAssumption
  <2>4. QED BY <1>1, <2>3 DEF Slot, SlotEnd
<1>4. QED BY <1>2, <1>3

(* No byte belongs to two slots, in the frame or in the LLVM function.     *)
LEMMA ByteOwner ==
  ASSUME GoodFrame, NEW s \in Slots, NEW u \in Slots,
         NEW i \in 0..TypeSize(s.type) - 1, NEW j \in 0..TypeSize(u.type) - 1,
         s.offset + i = u.offset + j
  PROVE  s = u /\ i = j
<1>1. /\ s.offset \in Nat /\ TypeSize(s.type) \in Nat
      /\ SlotEnd(s) = s.offset + TypeSize(s.type)
      /\ u.offset \in Nat /\ TypeSize(u.type) \in Nat
      /\ SlotEnd(u) = u.offset + TypeSize(u.type)
  BY SlotBasics
<1>2. s = u \/ SlotEnd(s) =< u.offset \/ SlotEnd(u) =< s.offset
  BY DEF GoodFrame, LayoutInv, LaidOut, Slots
<1>3. i \in Nat /\ j \in Nat /\ i < TypeSize(s.type) /\ j < TypeSize(u.type)
  BY <1>1
<1>4. s = u  BY <1>1, <1>2, <1>3
<1>5. QED BY <1>1, <1>3, <1>4

(* A result is found by its index: its parts are values of their own.      *)
LEMMA ResultIndex ==
  ASSUME GoodFrame, NEW s \in resultSlots, NEW u \in resultSlots, s.index = u.index
  PROVE  s = u
<1>1. s.field = u.field  BY DEF GoodFrame, OrderInv
<1>2. QED BY <1>1 DEF GoodFrame, OwnPlaces, ValuesCovered, Covered

(* A part that is not empty is not both: results lie behind parameters.    *)
LEMMA OneSide ==
  ASSUME GoodFrame, NEW s \in paramSlots, NEW u \in resultSlots,
         TypeSize(s.type) > 0
  PROVE  s.offset < u.offset /\ s # u
<1>1. s \in Slots /\ u \in Slots  BY DEF Slots
<1>2. SlotEnd(s) =< u.offset  BY DEF GoodFrame, OrderInv
<1>3. QED BY <1>1, <1>2, SlotBasics

(* No byte of the LLVM function belongs to two slots, whether the slots    *)
(* are allocas (arm) or one array of bytes (386).                          *)
LEMMA LocOwner ==
  ASSUME GoodFrame, NEW s \in Slots, NEW u \in Slots,
         NEW i \in 0..TypeSize(s.type) - 1, NEW j \in 0..TypeSize(u.type) - 1,
         Loc(s, i) = Loc(u, j)
  PROVE  s = u /\ i = j
<1>1. CASE target = "386"
  <2>1. s.offset + i = u.offset + j  BY <1>1 DEF Loc
  <2>2. QED BY <2>1, ByteOwner
<1>2. CASE target # "386"
  <2>1. CASE s \in paramSlots /\ u \in paramSlots
    <3>1. s.offset = u.offset /\ i = j  BY <1>2, <2>1 DEF Loc
    <3>2. target = "arm"  BY <1>2 DEF GoodFrame
    <3>3. QED BY <2>1, <3>1, <3>2 DEF GoodFrame, OwnPlaces
  <2>2. CASE s \notin paramSlots /\ u \notin paramSlots
    <3>1. s.index = u.index /\ i = j  BY <1>2, <2>2 DEF Loc
    <3>2. QED BY <2>2, <3>1, ResultIndex DEF Slots
  <2>3. CASE ~(s \in paramSlots <=> u \in paramSlots)
    <3>1. FALSE  BY <1>2, <2>3 DEF Loc
    <3>2. QED BY <3>1
  <2>4. QED BY <2>1, <2>2, <2>3
<1>3. QED BY <1>1, <1>2

------------------------------------------------------------------------------
(* What the lookups by offset find.                                        *)
Halves(o) == {s \in resultSlots : Is64(s) /\ o \in {s.offset, s.offset + 4}}

(* At the offset of a parameter: it, and perhaps empty ones before it.     *)
LEMMA AtParam ==
  ASSUME GoodFrame, NEW s \in paramSlots, TypeSize(s.type) > 0
  PROVE  /\ s \in LastAt(paramSlots, s.offset)
         /\ \A u \in LastAt(paramSlots, s.offset) : u = s \/ TypeSize(u.type) = 0
<1>1. ASSUME NEW u \in paramSlots, u.offset = s.offset
      PROVE  u = s \/ TypeSize(u.type) = 0
  <2>1. s \in Slots /\ u \in Slots  BY DEF Slots
  <2>2. s = u \/ SlotEnd(s) =< u.offset \/ SlotEnd(u) =< s.offset
    BY <2>1 DEF GoodFrame, LayoutInv, LaidOut, Slots
  <2>3. QED BY <1>1, <2>1, <2>2, SlotBasics
<1>2. ASSUME NEW u \in paramSlots, u.offset = s.offset
      PROVE  u.index =< s.index
  <2>1. s \in Slots /\ u \in Slots  BY DEF Slots
  <2>2. s.index < u.index => SlotEnd(s) =< u.offset  BY DEF GoodFrame, OrderInv
  <2>3. QED BY <1>2, <2>1, <2>2, SlotBasics
<1>3. QED BY <1>1, <1>2 DEF LastAt

(* At the high half of a parameter: nothing but that half.                 *)
LEMMA AtParamHigh ==
  ASSUME GoodFrame, NEW s \in paramSlots, Is64(s), NEW o, o = s.offset + 4
  PROVE  /\ LastAt(paramSlots, o) = {} /\ HighHalfAt(paramSlots, o) = {s}
         /\ FirstAt(resultSlots, o) = {} /\ HighHalfAt(resultSlots, o) = {}
         /\ Halves(o) = {}
<1>1. s \in Slots /\ s.offset \in Nat /\ SlotEnd(s) = s.offset + 8
  BY SlotBasics DEF Slots, Is64
<1>2. ASSUME NEW u \in Slots PROVE u.offset # o
  <2>1. s = u \/ SlotEnd(s) =< u.offset \/ SlotEnd(u) =< s.offset
    BY <1>1 DEF GoodFrame, LayoutInv, LaidOut, Slots
  <2>2. QED BY <1>1, <2>1, SlotBasics
<1>3. ASSUME NEW u \in Slots, Is64(u), u.offset + 4 = o PROVE u = s
  <2>1. s = u \/ SlotEnd(s) =< u.offset \/ SlotEnd(u) =< s.offset
    BY <1>1 DEF GoodFrame, LayoutInv, LaidOut, Slots
  <2>2. u.offset \in Nat /\ SlotEnd(u) = u.offset + 8
    BY <1>3, SlotBasics DEF Is64
  <2>3. QED BY <1>1, <1>3, <2>1, <2>2
<1>4. s \notin resultSlots
  BY OneSide DEF Is64
<1>5. QED BY <1>2, <1>3, <1>4
          DEF LastAt, HighHalfAt, FirstAt, Halves, Slots

(* At the offset of a result: it, and perhaps an empty parameter.          *)
LEMMA AtResult ==
  ASSUME GoodFrame, NEW s \in resultSlots, TypeSize(s.type) > 0,
         NEW o, o = s.offset
  PROVE  /\ \A u \in LastAt(paramSlots, o) : TypeSize(u.type) = 0
         /\ HighHalfAt(paramSlots, o) = {}
         /\ FirstAt(resultSlots, o) = {s} /\ LastAt(resultSlots, o) = {s}
         /\ Halves(o) = IF Is64(s) THEN {s} ELSE {}
<1>1. s \in Slots /\ s.offset \in Nat /\ SlotEnd(s) = s.offset + TypeSize(s.type)
      /\ TypeSize(s.type) \in Nat /\ s.index \in Nat
  BY SlotBasics DEF Slots
<1>2. ASSUME NEW u \in paramSlots, TypeSize(u.type) > 0
      PROVE  u.offset # o /\ (Is64(u) => u.offset + 4 # o)
  <2>1. u \in Slots  BY DEF Slots
  <2>2. u.offset \in Nat /\ SlotEnd(u) = u.offset + TypeSize(u.type)
        /\ TypeSize(u.type) \in Nat
    BY <2>1, SlotBasics
  <2>3. SlotEnd(u) =< o  BY DEF GoodFrame, OrderInv
  <2>4. QED BY <1>1, <1>2, <2>2, <2>3 DEF Is64
<1>3. \A u \in LastAt(paramSlots, o) : TypeSize(u.type) = 0
  <2>1. \A u \in paramSlots : TypeSize(u.type) \in Nat  BY SlotBasics DEF Slots
  <2>2. QED BY <1>2, <2>1 DEF LastAt
<1>4. HighHalfAt(paramSlots, o) = {}  BY <1>2 DEF HighHalfAt, Is64
<1>5. \A u \in resultSlots : u.offset = o => u = s
  BY DEF GoodFrame, OwnPlaces
<1>6. FirstAt(resultSlots, o) = {s} /\ LastAt(resultSlots, o) = {s}
  BY <1>1, <1>5 DEF FirstAt, LastAt
<1>7. ASSUME NEW u \in resultSlots, Is64(u), u.offset + 4 = o PROVE FALSE
  <2>1. u \in Slots  BY DEF Slots
  <2>2. u.offset \in Nat /\ SlotEnd(u) = u.offset + 8
    BY <1>7, <2>1, SlotBasics DEF Is64
  <2>3. s = u \/ SlotEnd(s) =< u.offset \/ SlotEnd(u) =< s.offset
    BY <1>1, <2>1 DEF GoodFrame, LayoutInv, LaidOut, Slots
  <2>4. QED BY <1>1, <1>7, <2>2, <2>3
<1>8. Halves(o) = IF Is64(s) THEN {s} ELSE {}
  BY <1>5, <1>7 DEF Halves
<1>9. QED BY <1>3, <1>4, <1>6, <1>8

(* At the high half of a result: nothing but that half.                    *)
LEMMA AtResultHigh ==
  ASSUME GoodFrame, NEW s \in resultSlots, Is64(s), NEW o, o = s.offset + 4
  PROVE  /\ LastAt(paramSlots, o) = {} /\ HighHalfAt(paramSlots, o) = {}
         /\ FirstAt(resultSlots, o) = {} /\ HighHalfAt(resultSlots, o) = {s}
         /\ Halves(o) = {s}
<1>1. s \in Slots /\ s.offset \in Nat /\ SlotEnd(s) = s.offset + 8
  BY SlotBasics DEF Slots, Is64
<1>2. ASSUME NEW u \in Slots PROVE u.offset # o
  <2>1. s = u \/ SlotEnd(s) =< u.offset \/ SlotEnd(u) =< s.offset
    BY <1>1 DEF GoodFrame, LayoutInv, LaidOut, Slots
  <2>2. QED BY <1>1, <2>1, SlotBasics
<1>3. ASSUME NEW u \in Slots, Is64(u), u.offset + 4 = o PROVE u = s
  <2>1. s = u \/ SlotEnd(s) =< u.offset \/ SlotEnd(u) =< s.offset
    BY <1>1 DEF GoodFrame, LayoutInv, LaidOut, Slots
  <2>2. u.offset \in Nat /\ SlotEnd(u) = u.offset + 8
    BY <1>3, SlotBasics DEF Is64
  <2>3. QED BY <1>1, <1>3, <2>1, <2>2
<1>4. s \notin paramSlots  BY OneSide DEF Is64
<1>5. QED BY <1>2, <1>3, <1>4
          DEF LastAt, HighHalfAt, FirstAt, Halves, Slots

------------------------------------------------------------------------------
(* An operand names w bytes of a slot, from its byte d on.                 *)
Names(s, d, o, w) ==
  /\ s \in Slots /\ TypeSize(s.type) > 0 /\ o = s.offset + d
  /\ \/ Is64(s) /\ d \in {0, 4} /\ w = 4
     \/ ~Is64(s) /\ d = 0 /\ w = TypeSize(s.type)

(* Every operand names bytes of a slot.                                    *)
LEMMA OperandNames ==
  ASSUME GoodFrame, NEW x \in Operands
  PROVE  \E s, d : Names(s, d, x[1], x[2])
<1>1. PICK s \in Slots :
        x \in (IF IsEmpty(s) THEN {}
               ELSE IF Is64(s) THEN {<<s.offset, 4>>, <<s.offset + 4, 4>>}
               ELSE {<<s.offset, TypeSize(s.type)>>})
  BY DEF Operands
<1>2. s.offset \in Nat /\ TypeSize(s.type) \in {0, 1, 2, 4, 8}
  BY SlotBasics
<1>3. TypeSize(s.type) > 0  BY <1>1, <1>2 DEF IsEmpty
<1>4. CASE Is64(s)
  <2>1. x = <<s.offset, 4>> \/ x = <<s.offset + 4, 4>>
    BY <1>1, <1>4 DEF IsEmpty, Is64
  <2>2. CASE x = <<s.offset, 4>>
    <3>1. Names(s, 0, x[1], x[2])  BY <1>2, <1>3, <1>4, <2>2 DEF Names
    <3>2. QED BY <3>1
  <2>3. CASE x = <<s.offset + 4, 4>>
    <3>1. Names(s, 4, x[1], x[2])  BY <1>2, <1>3, <1>4, <2>3 DEF Names
    <3>2. QED BY <3>1
  <2>4. QED BY <2>1, <2>2, <2>3
<1>5. CASE ~Is64(s)
  <2>1. x = <<s.offset, TypeSize(s.type)>>  BY <1>1, <1>5
  <2>2. Names(s, 0, x[1], x[2])  BY <1>2, <1>3, <1>5, <2>1 DEF Names
  <2>3. QED BY <2>2
<1>6. QED BY <1>4, <1>5

(* Those bytes lie in the slot.                                            *)
LEMMA NamesBounds ==
  ASSUME GoodFrame, NEW s, NEW d, NEW o, NEW w, Names(s, d, o, w)
  PROVE  /\ w \in {1, 2, 4} /\ d \in {0, 4} /\ o \in Nat
         /\ d + w =< TypeSize(s.type)
<1>1. s \in Slots  BY DEF Names
<1>2. s.offset \in Nat /\ TypeSize(s.type) \in {0, 1, 2, 4, 8}
  BY <1>1, SlotBasics
<1>3. QED BY <1>2 DEF Names, Is64

------------------------------------------------------------------------------
(* Values are sequences of bytes.                                          *)
LEMMA BytesLen ==
  ASSUME NEW n \in Nat, NEW b \in Bytes(n)
  PROVE  b \in Seq(Int) /\ Len(b) = n
BY DEF Bytes

(* Bytes fitted to a width are cut, or followed by zeros.                  *)
LEMMA FitBytes ==
  ASSUME NEW n \in Nat, NEW m \in Nat, NEW b \in Bytes(m)
  PROVE  /\ Fit(n, b) \in Bytes(n)
         /\ \A i \in 1..n : Fit(n, b)[i] = IF i =< m THEN b[i] ELSE 0
<1>1. Len(b) = m  BY BytesLen
<1>2. Fit(n, b) = [i \in 1..n |-> IF i =< m THEN b[i] ELSE 0]
  BY <1>1 DEF Fit
<1>3. \A i \in 1..n : i =< m => b[i] \in Int  BY DEF Bytes
<1>4. QED BY <1>2, <1>3 DEF Bytes

FrameTypeOK ==
  /\ frame \in [0..off - 1 -> Int]
  /\ mem \in [DOMAIN mem -> Int]
  /\ \A s \in Slots : \A i \in 0..TypeSize(s.type) - 1 :
       Loc(s, i) \in DOMAIN mem

(* The content of a slot is what the bytes of its place hold.              *)
LEMMA ContentBytes ==
  ASSUME GoodFrame, FrameTypeOK, NEW s \in Slots
  PROVE  /\ Content(s) \in Bytes(TypeSize(s.type))
         /\ \A i \in 1..TypeSize(s.type) : Content(s)[i] = mem[Loc(s, i - 1)]
<1>1. TypeSize(s.type) \in Nat  BY SlotBasics
<1>2. ASSUME NEW i \in 1..TypeSize(s.type) PROVE mem[Loc(s, i - 1)] \in Int
  <2>1. i \in Nat /\ i - 1 \in 0..TypeSize(s.type) - 1  BY <1>1
  <2>2. Loc(s, i - 1) \in DOMAIN mem  BY <2>1 DEF FrameTypeOK
  <2>3. mem \in [DOMAIN mem -> Int]  BY DEF FrameTypeOK
  <2>4. QED BY <2>2, <2>3
<1>3. Content(s) = [i \in 1..TypeSize(s.type) |-> mem[Loc(s, i - 1)]]
  BY DEF Content
<1>4. QED BY <1>1, <1>2, <1>3 DEF Bytes

(* The high half of a slot of 64 bits.                                     *)
LEMMA HighHalfBytes ==
  ASSUME GoodFrame, FrameTypeOK, NEW s \in Slots, Is64(s)
  PROVE  /\ HighHalf(s) \in Bytes(4)
         /\ \A i \in 1..4 : HighHalf(s)[i] = mem[Loc(s, 4 + i - 1)]
<1>1. Content(s) \in Bytes(8)
      /\ \A i \in 1..8 : Content(s)[i] = mem[Loc(s, i - 1)]
  BY ContentBytes DEF Is64
<1>2. Content(s) \in Seq(Int) /\ Len(Content(s)) = 8  BY <1>1, BytesLen
<1> HIDE DEF Content
<1>3. HighHalf(s) = [i \in 1..4 |-> Content(s)[i + 4]]
  BY <1>2 DEF HighHalf
<1>4. \A i \in 1..4 : i + 4 \in 1..8 /\ i + 4 - 1 = 4 + i - 1  OBVIOUS
<1>5. QED BY <1>1, <1>3, <1>4 DEF Bytes

(* v holds the w bytes of slot s behind its byte d, and zeros.             *)
Sees(v, s, d, w) ==
  /\ v \in Bytes(4)
  /\ \A i \in 1..4 : v[i] = IF i =< w THEN mem[Loc(s, d + i - 1)] ELSE 0

(* A value that is widened, cut to the width of the instruction and        *)
(* widened again, as on 386.                                               *)
LEMMA SeesCut ==
  ASSUME NEW s, NEW d \in Nat, NEW m \in Nat, NEW c \in Bytes(m),
         NEW w \in Nat, w =< m, w =< 4, NEW n \in {4, 8},
         \A i \in 1..w : c[i] = mem[Loc(s, d + i - 1)]
  PROVE  Sees(Fit(4, Fit(w, Fit(n, c))), s, d, w)
<1> DEFINE v1 == Fit(n, c)
           v2 == Fit(w, v1)
           v3 == Fit(4, v2)
<1>1. v1 \in Bytes(n) /\ \A i \in 1..n : v1[i] = IF i =< m THEN c[i] ELSE 0
  BY n \in Nat, FitBytes
<1> HIDE DEF v1
<1>2. v2 \in Bytes(w) /\ \A i \in 1..w : v2[i] = IF i =< n THEN v1[i] ELSE 0
  BY <1>1, n \in Nat, FitBytes
<1> HIDE DEF v2
<1>3. v3 \in Bytes(4) /\ \A i \in 1..4 : v3[i] = IF i =< w THEN v2[i] ELSE 0
  BY <1>2, 4 \in Nat, FitBytes
<1> HIDE DEF v3
<1>4. ASSUME NEW i \in 1..4
      PROVE  v3[i] = IF i =< w THEN mem[Loc(s, d + i - 1)] ELSE 0
  <2>1. CASE i =< w
    <3>1. i \in 1..w /\ i \in 1..n /\ i \in 1..m  BY <2>1
    <3>2. QED BY <1>1, <1>2, <1>3, <2>1, <3>1
  <2>2. CASE ~(i =< w)  BY <1>3, <2>2
  <2>3. QED BY <2>1, <2>2
<1>5. Sees(v3, s, d, w)  BY <1>3, <1>4 DEF Sees
<1>6. QED BY <1>5 DEF v3, v2, v1

(* A value that fills a word, or is widened to one, as on arm.             *)
LEMMA SeesFour ==
  ASSUME NEW s, NEW d \in Nat, NEW m \in Nat, NEW c \in Bytes(m),
         NEW w \in Nat, w =< m, w =< 4, w = 4 \/ w = m,
         \A i \in 1..w : c[i] = mem[Loc(s, d + i - 1)]
  PROVE  Sees(Fit(4, c), s, d, w)
<1>1. Fit(4, c) \in Bytes(4)
      /\ \A i \in 1..4 : Fit(4, c)[i] = IF i =< m THEN c[i] ELSE 0
  BY 4 \in Nat, FitBytes
<1>2. ASSUME NEW i \in 1..4
      PROVE  Fit(4, c)[i] = IF i =< w THEN mem[Loc(s, d + i - 1)] ELSE 0
  <2>1. CASE i =< w
    <3>1. i \in 1..w /\ i =< m  BY <2>1
    <3>2. QED BY <1>1, <2>1, <3>1
  <2>2. CASE ~(i =< w)
    <3>1. ~(i =< m)  BY <2>2
    <3>2. QED BY <1>1, <2>2, <3>1
  <2>3. QED BY <2>1, <2>2
<1>3. QED BY <1>1, <1>2 DEF Sees

(* The bytes that an operand names, as the slot or half of a slot holds    *)
(* them.                                                                   *)
LEMMA OperandBytes ==
  ASSUME GoodFrame, FrameTypeOK, NEW s, NEW d, NEW o, NEW w, Names(s, d, o, w)
  PROVE  /\ d = 0 =>
              /\ Content(s) \in Bytes(TypeSize(s.type))
              /\ \A i \in 1..w : Content(s)[i] = mem[Loc(s, d + i - 1)]
         /\ d = 4 =>
              /\ HighHalf(s) \in Bytes(4)
              /\ \A i \in 1..w : HighHalf(s)[i] = mem[Loc(s, d + i - 1)]
<1>1. s \in Slots  BY DEF Names
<1>2. w \in {1, 2, 4} /\ d \in {0, 4} /\ d + w =< TypeSize(s.type)
  BY NamesBounds
<1>3. TypeSize(s.type) \in {0, 1, 2, 4, 8}  BY <1>1, SlotBasics
<1>4. CASE d = 0
  <2>1. \A i \in 1..w : i \in 1..TypeSize(s.type) /\ d + i - 1 = i - 1
    BY <1>2, <1>3, <1>4
  <2>2. QED BY <1>1, <1>4, <2>1, ContentBytes
<1>5. CASE d = 4
  <2>1. Is64(s) /\ w = 4  BY <1>5 DEF Names
  <2>2. QED BY <1>1, <1>5, <2>1, HighHalfBytes
<1>6. QED BY <1>2, <1>4, <1>5

(* A load gives the bytes its operand names, and zeros.                    *)
LEMMA LoadsArm ==
  ASSUME GoodFrame, FrameTypeOK, NEW s, NEW d, NEW o, NEW w,
         Names(s, d, o, w), NEW v \in EvalArm(o)
  PROVE  Sees(v, s, d, w)
<1>1. s \in Slots /\ TypeSize(s.type) > 0 /\ o = s.offset + d
  BY DEF Names
<1>2. w \in {1, 2, 4} /\ d \in {0, 4} /\ d + w =< TypeSize(s.type)
  BY NamesBounds
<1>3. TypeSize(s.type) \in {0, 1, 2, 4, 8} /\ s.offset \in Nat  BY <1>1, SlotBasics
<1>4. CASE d = 0 /\ s \in paramSlots
  <2>1. v \in {Fit(4, Content(u)) : u \in {y \in LastAt(paramSlots, o) : ~IsEmpty(y)}}
    <3>1. LastAt(paramSlots, o) # {}  BY <1>1, <1>3, <1>4, AtParam
    <3>2. QED BY <3>1 DEF EvalArm
  <2>2. v = Fit(4, Content(s))
    <3>1. s.offset = o  BY <1>1, <1>3, <1>4
    <3>2. \A u \in LastAt(paramSlots, o) : u = s \/ IsEmpty(u)
      BY <1>1, <1>4, <3>1, AtParam DEF IsEmpty
    <3>3. QED BY <2>1, <3>2
  <2>3. w = 4 \/ w = TypeSize(s.type)  BY DEF Names
  <2>4. Content(s) \in Bytes(TypeSize(s.type))
        /\ \A i \in 1..w : Content(s)[i] = mem[Loc(s, d + i - 1)]
    BY <1>4, OperandBytes
  <2>5. d \in Nat /\ TypeSize(s.type) \in Nat /\ w \in Nat
        /\ w =< TypeSize(s.type) /\ w =< 4
    BY <1>2, <1>3, <1>4
  <2>6. QED BY <2>2, <2>3, <2>4, <2>5, SeesFour
<1>5. CASE d = 0 /\ s \notin paramSlots
  <2>1. s \in resultSlots /\ o = s.offset  BY <1>1, <1>3, <1>5 DEF Slots
  <2>2. /\ \A u \in LastAt(paramSlots, o) : IsEmpty(u)
        /\ HighHalfAt(paramSlots, o) = {}
    BY <1>1, <2>1, AtResult DEF IsEmpty
  <2>3. FALSE  BY <2>2 DEF EvalArm
  <2>4. QED BY <2>3
<1>6. CASE d = 4
  <2>1. Is64(s) /\ w = 4 /\ o = s.offset + 4  BY <1>6 DEF Names
  <2>2. CASE s \in paramSlots
    <3>1. LastAt(paramSlots, o) = {} /\ HighHalfAt(paramSlots, o) = {s}
      BY <2>1, <2>2, AtParamHigh
    <3>2. v = HighHalf(s)  BY <3>1 DEF EvalArm
    <3>3. HighHalf(s) \in Bytes(4)
          /\ \A i \in 1..w : HighHalf(s)[i] = mem[Loc(s, d + i - 1)]
      BY <1>6, OperandBytes
    <3>4. \A i \in 1..4 : i =< w  BY <2>1
    <3>5. QED BY <2>1, <3>2, <3>3, <3>4 DEF Sees
  <2>3. CASE s \notin paramSlots
    <3>1. s \in resultSlots  BY <1>1, <2>3 DEF Slots
    <3>2. LastAt(paramSlots, o) = {} /\ HighHalfAt(paramSlots, o) = {}
      BY <2>1, <3>1, AtResultHigh
    <3>3. FALSE  BY <3>2 DEF EvalArm
    <3>4. QED BY <3>3
  <2>4. QED BY <2>2, <2>3
<1>7. QED BY <1>2, <1>4, <1>5, <1>6

(* On 386 it also finds results and their halves.                          *)
LEMMA LoadsX86 ==
  ASSUME GoodFrame, FrameTypeOK, NEW s, NEW d, NEW o, NEW w,
         Names(s, d, o, w), NEW v \in EvalX86(o)
  PROVE  Sees(Fit(4, Fit(w, v)), s, d, w)
<1>1. s \in Slots /\ TypeSize(s.type) > 0 /\ o = s.offset + d
  BY DEF Names
<1>2. w \in {1, 2, 4} /\ d \in {0, 4} /\ d + w =< TypeSize(s.type)
  BY NamesBounds
<1>3. TypeSize(s.type) \in {0, 1, 2, 4, 8} /\ s.offset \in Nat  BY <1>1, SlotBasics
<1>4. CASE d = 0
  <2>1. s.offset = o  BY <1>1, <1>3, <1>4
  <2>2. v = Fit(8, Content(s))
    <3>1. CASE s \in paramSlots
      <4>1. LastAt(paramSlots, o) # {}
            /\ \A u \in LastAt(paramSlots, o) : u = s \/ IsEmpty(u)
        BY <1>1, <2>1, <3>1, AtParam DEF IsEmpty
      <4>2. QED BY <4>1 DEF EvalX86
    <3>2. CASE s \notin paramSlots
      <4>1. s \in resultSlots  BY <1>1, <3>2 DEF Slots
      <4>2. /\ \A u \in LastAt(paramSlots, o) : IsEmpty(u)
            /\ HighHalfAt(paramSlots, o) = {}
            /\ FirstAt(resultSlots, o) = {s}
        BY <1>1, <2>1, <4>1, AtResult DEF IsEmpty
      <4>3. ~IsEmpty(s)  BY <1>1, <1>3 DEF IsEmpty
      <4>4. QED BY <4>2, <4>3 DEF EvalX86
    <3>3. QED BY <3>1, <3>2
  <2>3. Content(s) \in Bytes(TypeSize(s.type))
        /\ \A i \in 1..w : Content(s)[i] = mem[Loc(s, d + i - 1)]
    BY <1>4, OperandBytes
  <2>4. d \in Nat /\ TypeSize(s.type) \in Nat /\ w \in Nat
        /\ w =< TypeSize(s.type) /\ w =< 4
    BY <1>2, <1>3, <1>4
  <2>5. QED BY <2>2, <2>3, <2>4, SeesCut
<1>5. CASE d = 4
  <2>1. Is64(s) /\ w = 4 /\ o = s.offset + 4  BY <1>5 DEF Names
  <2>2. v = Fit(8, HighHalf(s))
    <3>1. CASE s \in paramSlots
      <4>1. LastAt(paramSlots, o) = {} /\ HighHalfAt(paramSlots, o) = {s}
        BY <2>1, <3>1, AtParamHigh
      <4>2. QED BY <4>1 DEF EvalX86
    <3>2. CASE s \notin paramSlots
      <4>1. s \in resultSlots  BY <1>1, <3>2 DEF Slots
      <4>2. /\ LastAt(paramSlots, o) = {} /\ HighHalfAt(paramSlots, o) = {}
            /\ FirstAt(resultSlots, o) = {} /\ HighHalfAt(resultSlots, o) = {s}
        BY <2>1, <4>1, AtResultHigh
      <4>3. QED BY <4>2 DEF EvalX86
    <3>3. QED BY <3>1, <3>2
  <2>3. HighHalf(s) \in Bytes(4)
        /\ \A i \in 1..w : HighHalf(s)[i] = mem[Loc(s, d + i - 1)]
    BY <1>5, OperandBytes
  <2>4. d \in Nat /\ 4 \in Nat /\ w \in Nat /\ w =< 4
    BY <1>2
  <2>5. QED BY <2>2, <2>3, <2>4, SeesCut
<1>6. QED BY <1>2, <1>4, <1>5

LEMMA Loads ==
  ASSUME GoodFrame, FrameTypeOK, NEW s, NEW d, NEW o, NEW w,
         Names(s, d, o, w), NEW v \in EvalFP(o, w)
  PROVE  Sees(v, s, d, w)
<1>1. CASE target = "arm"
  BY <1>1, LoadsArm DEF EvalFP
<1>2. CASE target # "arm"
  <2>1. PICK y \in EvalX86(o) : v = Fit(4, Fit(w, y))
    BY <1>2 DEF EvalFP
  <2>2. QED BY <2>1, LoadsX86
<1>3. QED BY <1>1, <1>2

------------------------------------------------------------------------------
(* A byte of a slot that the program has defined is the same in the LLVM   *)
(* function; of a result that is not marked as written it has defined none.*)
Agree(s, i) == frame[s.offset + i] # Undef => mem[Loc(s, i)] = frame[s.offset + i]
BytesAgree ==
  /\ \A s \in Slots : \A i \in 0..TypeSize(s.type) - 1 : Agree(s, i)
  /\ \A s \in resultSlots : s.index \notin written =>
       \A i \in 0..TypeSize(s.type) - 1 : frame[s.offset + i] = Undef

(* A store finds the slot its operand names, and changes its bytes.        *)
Stored(after, s, d, w, v) ==
  /\ after[2] = (IF s \in resultSlots THEN {s.index} ELSE {})
  /\ \E b \in Bytes(w) : /\ after[1] = Put(s, d, b)
                         /\ \A i \in 1..w : b[i] = v[i]

(* On arm a store finds a parameter, a result or half of a result.         *)
LEMMA StoresArm ==
  ASSUME GoodFrame, target = "arm", ~Store64Params,
         NEW s, NEW d, NEW o, NEW w, Names(s, d, o, w),
         NEW v \in Bytes(4), Storable(o), NEW after \in StoreArm(o, v)
  PROVE  Stored(after, s, d, w, v)
<1>1. s \in Slots /\ TypeSize(s.type) > 0 /\ o = s.offset + d
  BY DEF Names
<1>2. w \in {1, 2, 4} /\ d \in {0, 4} /\ d + w =< TypeSize(s.type)
  BY NamesBounds
<1>3. TypeSize(s.type) \in {0, 1, 2, 4, 8} /\ s.offset \in Nat  BY <1>1, SlotBasics
<1>4. Fit(w, v) \in Bytes(w) /\ \A i \in 1..w : Fit(w, v)[i] = v[i]
  <2>1. w \in Nat /\ 4 \in Nat  BY <1>2
  <2>2. \A i \in 1..w : i =< 4  BY <1>2
  <2>3. QED BY <2>1, <2>2, FitBytes
<1>5. CASE d = 0 /\ s \in paramSlots
  <2>1. o = s.offset  BY <1>1, <1>3, <1>5
  <2>2. /\ s \in LastAt(paramSlots, o)
        /\ \A u \in LastAt(paramSlots, o) : u = s \/ IsEmpty(u)
    BY <1>1, <1>5, <2>1, AtParam DEF IsEmpty
  <2>3. w = TypeSize(s.type)  BY <2>2 DEF Storable, Names
  <2>4. after = <<Put(s, 0, Fit(w, v)), {}>>
    BY <2>2, <2>3 DEF StoreArm
  <2>5. s \notin resultSlots  BY <1>1, <1>3, <1>5, OneSide
  <2>6. QED BY <1>4, <1>5, <2>4, <2>5 DEF Stored
<1>6. CASE d = 0 /\ s \notin paramSlots
  <2>1. s \in resultSlots /\ o = s.offset  BY <1>1, <1>3, <1>6 DEF Slots
  <2>2. /\ \A u \in LastAt(paramSlots, o) : IsEmpty(u)
        /\ FirstAt(resultSlots, o) = {s}
        /\ Halves(o) = IF Is64(s) THEN {s} ELSE {}
    BY <1>1, <2>1, AtResult DEF IsEmpty
  <2>3. LastAt(paramSlots, o) = {}  BY <2>2 DEF StoreArm
  <2>4. CASE Is64(s)
    <3>1. w = 4  BY <2>4 DEF Names
    <3>2. Halves(o) = {s} /\ o - s.offset = d
      BY <1>3, <1>6, <2>1, <2>2, <2>4
    <3>3. after = <<Put(s, d, v), {s.index}>>
      BY <2>3, <3>2 DEF StoreArm, Halves
    <3>4. QED BY <2>1, <3>1, <3>3 DEF Stored
  <2>5. CASE ~Is64(s)
    <3>1. w = TypeSize(s.type)  BY <2>5 DEF Names
    <3>2. after = <<Put(s, 0, Fit(w, v)), {s.index}>>
      BY <2>2, <2>3, <2>5, <3>1 DEF StoreArm, Halves
    <3>3. QED BY <1>4, <1>6, <2>1, <3>2 DEF Stored
  <2>6. QED BY <2>4, <2>5
<1>7. CASE d = 4
  <2>1. Is64(s) /\ w = 4 /\ o = s.offset + 4  BY <1>7 DEF Names
  <2>2. CASE s \in paramSlots
    <3>1. LastAt(paramSlots, o) = {} /\ FirstAt(resultSlots, o) = {} /\ Halves(o) = {}
      BY <2>1, <2>2, AtParamHigh
    <3>2. FALSE  BY <3>1 DEF StoreArm, Halves
    <3>3. QED BY <3>2
  <2>3. CASE s \notin paramSlots
    <3>1. s \in resultSlots  BY <1>1, <2>3 DEF Slots
    <3>2. LastAt(paramSlots, o) = {} /\ Halves(o) = {s} /\ o - s.offset = d
      BY <1>3, <1>7, <2>1, <3>1, AtResultHigh
    <3>3. after = <<Put(s, d, v), {s.index}>>
      BY <3>2 DEF StoreArm, Halves
    <3>4. QED BY <2>1, <3>1, <3>3 DEF Stored
  <2>4. QED BY <2>2, <2>3
<1>8. QED BY <1>2, <1>5, <1>6, <1>7

(* On 386 a store finds a parameter of the width of the value, a result or *)
(* half of a result.                                                       *)
LEMMA StoresX86 ==
  ASSUME GoodFrame, NEW s, NEW d, NEW o, NEW w, Names(s, d, o, w),
         NEW v \in Bytes(w), NEW after \in StoreX86(o, v)
  PROVE  Stored(after, s, d, w, v)
<1>1. s \in Slots /\ TypeSize(s.type) > 0 /\ o = s.offset + d
  BY DEF Names
<1>2. w \in {1, 2, 4} /\ d \in {0, 4} /\ d + w =< TypeSize(s.type)
  BY NamesBounds
<1>3. TypeSize(s.type) \in {0, 1, 2, 4, 8} /\ s.offset \in Nat  BY <1>1, SlotBasics
<1>4. Len(v) = w  BY <1>2, w \in Nat, BytesLen
<1>5. CASE d = 0 /\ s \in paramSlots
  <2>1. o = s.offset  BY <1>1, <1>3, <1>5
  <2>2. /\ s \in LastAt(paramSlots, o)
        /\ \A u \in LastAt(paramSlots, o) : u = s \/ IsEmpty(u)
    BY <1>1, <1>5, <2>1, AtParam DEF IsEmpty
  <2>3. after = <<Put(s, 0, v), {}>>
    <3>1. PICK u \in LastAt(paramSlots, o) :
            TypeSize(u.type) = w /\ after = <<Put(u, 0, v), {}>>
      BY <1>4, <2>2 DEF StoreX86
    <3>2. u = s  BY <1>2, <2>2, <3>1 DEF IsEmpty
    <3>3. QED BY <3>1, <3>2
  <2>4. s \notin resultSlots  BY <1>1, <1>3, <1>5, OneSide
  <2>5. QED BY <1>5, <2>3, <2>4 DEF Stored
<1>6. CASE d = 0 /\ s \notin paramSlots
  <2>1. s \in resultSlots /\ o = s.offset  BY <1>1, <1>3, <1>6 DEF Slots
  <2>2. /\ \A u \in LastAt(paramSlots, o) : IsEmpty(u)
        /\ FirstAt(resultSlots, o) = {s}
        /\ Halves(o) = IF Is64(s) THEN {s} ELSE {}
    BY <1>1, <2>1, AtResult DEF IsEmpty
  <2>3. LastAt(paramSlots, o) = {}
    <3>1. \A u \in LastAt(paramSlots, o) : TypeSize(u.type) # Len(v)
      BY <1>2, <1>4, <2>2 DEF IsEmpty
    <3>2. QED BY <3>1 DEF StoreX86
  <2>4. CASE Is64(s)
    <3>1. w = 4  BY <2>4 DEF Names
    <3>2. Halves(o) = {s} /\ o - s.offset = d
      BY <1>3, <1>6, <2>1, <2>2, <2>4
    <3>3. after = <<Put(s, d, v), {s.index}>>
      BY <1>4, <2>3, <3>1, <3>2 DEF StoreX86, Halves
    <3>4. QED BY <2>1, <3>3 DEF Stored
  <2>5. CASE ~Is64(s)
    <3>1. w = TypeSize(s.type)  BY <2>5 DEF Names
    <3>2. after = <<Put(s, 0, Fit(w, v)), {s.index}>>
      BY <2>2, <2>3, <2>5, <3>1 DEF StoreX86, Halves
    <3>3. Fit(w, v) \in Bytes(w) /\ \A i \in 1..w : Fit(w, v)[i] = v[i]
      <4>1. w \in Nat  BY <1>2
      <4>2. \A i \in 1..w : i =< w  BY <4>1
      <4>3. QED BY <4>1, <4>2, FitBytes
    <3>4. QED BY <1>6, <2>1, <3>2, <3>3 DEF Stored
  <2>6. QED BY <2>4, <2>5
<1>7. CASE d = 4
  <2>1. Is64(s) /\ w = 4 /\ o = s.offset + 4  BY <1>7 DEF Names
  <2>2. CASE s \in paramSlots
    <3>1. LastAt(paramSlots, o) = {} /\ FirstAt(resultSlots, o) = {} /\ Halves(o) = {}
      BY <2>1, <2>2, AtParamHigh
    <3>2. FALSE  BY <3>1 DEF StoreX86, Halves
    <3>3. QED BY <3>2
  <2>3. CASE s \notin paramSlots
    <3>1. s \in resultSlots  BY <1>1, <2>3 DEF Slots
    <3>2. LastAt(paramSlots, o) = {} /\ Halves(o) = {s} /\ o - s.offset = d
      BY <1>3, <1>7, <2>1, <3>1, AtResultHigh
    <3>3. after = <<Put(s, d, v), {s.index}>>
      BY <1>4, <2>1, <3>2 DEF StoreX86, Halves
    <3>4. QED BY <2>1, <3>1, <3>3 DEF Stored
  <2>4. QED BY <2>2, <2>3
<1>8. QED BY <1>2, <1>5, <1>6, <1>7

LEMMA Stores ==
  ASSUME GoodFrame, ~Store64Params, NEW s, NEW d, NEW o, NEW w,
         Names(s, d, o, w), NEW v \in Bytes(4), Storable(o),
         NEW after \in StoreFP(o, w, v)
  PROVE  Stored(after, s, d, w, v)
<1>1. CASE target = "arm"
  BY <1>1, StoresArm DEF StoreFP
<1>2. CASE target # "arm"
  <2>1. w \in Nat /\ 4 \in Nat /\ \A i \in 1..w : i =< 4
    BY NamesBounds
  <2> DEFINE y == Fit(w, v)
  <2>2. y \in Bytes(w) /\ \A i \in 1..w : y[i] = v[i]  BY <2>1, FitBytes
  <2>3. after \in StoreX86(o, y)  BY <1>2 DEF StoreFP
  <2> HIDE DEF y
  <2>4. Stored(after, s, d, w, y)  BY <2>2, <2>3, StoresX86
  <2>5. QED BY <2>2, <2>4 DEF Stored
<1>3. QED BY <1>1, <1>2

------------------------------------------------------------------------------
(* Putting bytes into a slot changes those bytes of it and no other.       *)
Inside(u, j, s, d, w) == u = s /\ j \in d..(d + w - 1)

LEMMA PutBytes ==
  ASSUME GoodFrame, FrameTypeOK, NEW s \in Slots, NEW d \in Nat, NEW w \in Nat,
         d + w =< TypeSize(s.type), NEW b \in Bytes(w)
  PROVE  /\ DOMAIN Put(s, d, b) = DOMAIN mem
         /\ Put(s, d, b) \in [DOMAIN mem -> Int]
         /\ \A u \in Slots : \A j \in 0..TypeSize(u.type) - 1 :
              Put(s, d, b)[Loc(u, j)] =
                IF Inside(u, j, s, d, w) THEN b[j - d + 1] ELSE mem[Loc(u, j)]
<1>1. DOMAIN b = 1..w /\ \A i \in 1..w : b[i] \in Int  BY DEF Bytes
<1>2. TypeSize(s.type) \in Nat  BY SlotBasics
<1>3. Put(s, d, b) =
        [l \in DOMAIN mem |->
           IF \E i \in 1..w : l = Loc(s, d + i - 1)
           THEN b[CHOOSE i \in 1..w : l = Loc(s, d + i - 1)]
           ELSE mem[l]]
  BY <1>1 DEF Put
<1>4. \A l \in DOMAIN mem : mem[l] \in Int  BY DEF FrameTypeOK
<1>5. Put(s, d, b) \in [DOMAIN mem -> Int]
  BY <1>1, <1>3, <1>4
<1>6. ASSUME NEW u \in Slots, NEW j \in 0..TypeSize(u.type) - 1
      PROVE  Put(s, d, b)[Loc(u, j)] =
               IF Inside(u, j, s, d, w) THEN b[j - d + 1] ELSE mem[Loc(u, j)]
  <2>1. Loc(u, j) \in DOMAIN mem  BY DEF FrameTypeOK
  <2> DEFINE at(i) == Loc(s, d + i - 1)
             l == Loc(u, j)
  <2>2. ASSUME NEW i \in 1..w, l = at(i)
        PROVE  u = s /\ j = d + i - 1
    <3>1. d + i - 1 \in 0..TypeSize(s.type) - 1  BY <1>2
    <3>2. QED BY <2>2, <3>1, LocOwner
  <2>3. TypeSize(u.type) \in Nat  BY SlotBasics
  <2>4. Put(s, d, b)[l] =
          IF \E i \in 1..w : l = at(i) THEN b[CHOOSE i \in 1..w : l = at(i)]
          ELSE mem[l]
    BY <1>3, <2>1
  <2>5. Inside(u, j, s, d, w) => l = at(j - d + 1)
    <3>1. HAVE Inside(u, j, s, d, w)
    <3>2. u = s /\ j = d + (j - d + 1) - 1  BY <2>3, <3>1 DEF Inside
    <3>3. QED BY <3>2
  <2> HIDE DEF at, l
  <2>6. CASE Inside(u, j, s, d, w)
    <3> DEFINE n == j - d + 1
    <3>1. n \in 1..w  BY <2>3, <2>6 DEF Inside
    <3>2. l = at(n)  BY <2>5, <2>6
    <3>3. \A i \in 1..w : l = at(i) => i = n
      <4>1. \A i \in 1..w : l = at(i) => j = d + i - 1  BY <2>2
      <4>2. \A i \in 1..w : j = d + i - 1 => i = j - d + 1  BY <2>3
      <4>3. QED BY <4>1, <4>2
    <3> HIDE DEF n
    <3>4. (CHOOSE i \in 1..w : l = at(i)) = n  BY <3>1, <3>2, <3>3
    <3>5. Put(s, d, b)[l] = b[n]  BY <2>4, <3>1, <3>2, <3>4
    <3>6. QED BY <2>6, <3>5 DEF n, l
  <2>7. CASE ~Inside(u, j, s, d, w)
    <3>1. ASSUME NEW i \in 1..w, l = at(i) PROVE FALSE
      <4>1. u = s /\ j = d + i - 1  BY <2>2, <3>1
      <4>2. j \in d..(d + w - 1)  BY <4>1
      <4>3. QED BY <2>7, <4>1, <4>2 DEF Inside
    <3>2. Put(s, d, b)[l] = mem[l]  BY <2>4, <3>1
    <3>3. QED BY <2>7, <3>2 DEF l
  <2>8. QED BY <2>6, <2>7
<1>7. QED BY <1>3, <1>5, <1>6

(* A store of the source program changes the same bytes of the frame.      *)
LEMMA RealStoreBytes ==
  ASSUME GoodFrame, FrameTypeOK, NEW s \in Slots, NEW d \in Nat, NEW w \in 0..4,
         d + w =< TypeSize(s.type), NEW v \in Bytes(4)
  PROVE  /\ RealStore(s.offset + d, w, v) \in [0..off - 1 -> Int]
         /\ \A u \in Slots : \A j \in 0..TypeSize(u.type) - 1 :
              RealStore(s.offset + d, w, v)[u.offset + j] =
                IF Inside(u, j, s, d, w) THEN v[j - d + 1] ELSE frame[u.offset + j]
<1>1. s.offset \in Nat /\ TypeSize(s.type) \in Nat /\ off \in Nat  BY SlotBasics
<1>2. DOMAIN frame = 0..off - 1 /\ \A p \in 0..off - 1 : frame[p] \in Int
  BY DEF FrameTypeOK
<1>3. RealStore(s.offset + d, w, v) =
        [p \in 0..off - 1 |->
           IF p \in (s.offset + d)..(s.offset + d + w - 1)
           THEN v[p - (s.offset + d) + 1] ELSE frame[p]]
  BY <1>2 DEF RealStore
<1>4. \A p \in (s.offset + d)..(s.offset + d + w - 1) :
        v[p - (s.offset + d) + 1] \in Int
  <2>1. \A p \in (s.offset + d)..(s.offset + d + w - 1) :
          p - (s.offset + d) + 1 \in 1..4
    BY <1>1
  <2>2. QED BY <2>1 DEF Bytes
<1>5. ASSUME NEW u \in Slots, NEW j \in 0..TypeSize(u.type) - 1
      PROVE  RealStore(s.offset + d, w, v)[u.offset + j] =
               IF Inside(u, j, s, d, w) THEN v[j - d + 1] ELSE frame[u.offset + j]
  <2>1. /\ u.offset \in Nat /\ TypeSize(u.type) \in Nat
        /\ u.offset + TypeSize(u.type) =< off
    BY SlotBasics
  <2>2. u.offset + j \in 0..off - 1  BY <1>1, <2>1
  <2>3. u.offset + j \in (s.offset + d)..(s.offset + d + w - 1)
          <=> Inside(u, j, s, d, w)
    <3>1. ASSUME u.offset + j \in (s.offset + d)..(s.offset + d + w - 1)
          PROVE  Inside(u, j, s, d, w)
      <4> DEFINE i == u.offset + j - s.offset
      <4>1. i \in 0..TypeSize(s.type) - 1 /\ s.offset + i = u.offset + j
            /\ i \in d..(d + w - 1)
        BY <1>1, <2>1, <3>1
      <4> HIDE DEF i
      <4>2. s = u /\ i = j  BY <4>1, ByteOwner
      <4>3. QED BY <4>1, <4>2 DEF Inside
    <3>2. ASSUME Inside(u, j, s, d, w)
          PROVE  u.offset + j \in (s.offset + d)..(s.offset + d + w - 1)
      BY <1>1, <2>1, <3>2 DEF Inside
    <3>3. QED BY <3>1, <3>2
  <2> DEFINE p == u.offset + j
  <2>4. RealStore(s.offset + d, w, v)[p] =
          IF p \in (s.offset + d)..(s.offset + d + w - 1)
          THEN v[p - (s.offset + d) + 1] ELSE frame[p]
    BY <1>3, <2>2
  <2>5. CASE Inside(u, j, s, d, w)
    <3> DEFINE e == p - (s.offset + d) + 1
    <3>1. RealStore(s.offset + d, w, v)[p] = v[e]  BY <2>3, <2>4, <2>5
    <3>2. e = j - d + 1  BY <1>1, <2>1, <2>5 DEF Inside
    <3> HIDE DEF e, p
    <3>3. RealStore(s.offset + d, w, v)[p] = v[j - d + 1]  BY <3>1, <3>2
    <3>4. QED BY <2>5, <3>3 DEF p
  <2>6. CASE ~Inside(u, j, s, d, w)  BY <2>3, <2>4, <2>6
  <2>7. QED BY <2>5, <2>6
<1>6. QED BY <1>2, <1>3, <1>4, <1>5

(* A store of the same bytes to both keeps them in agreement.              *)
LEMMA StoreKeeps ==
  ASSUME GoodFrame, FrameTypeOK, BytesAgree,
         NEW s \in Slots, NEW d \in Nat, NEW w \in 0..4,
         d + w =< TypeSize(s.type), NEW b \in Bytes(w), NEW v \in Bytes(4),
         \A i \in 1..w : v[i] # Undef => b[i] = v[i],
         UNCHANGED <<layoutVars, target>>,
         mem' = Put(s, d, b), frame' = RealStore(s.offset + d, w, v),
         written \subseteq written', s \in resultSlots => s.index \in written'
  PROVE  FrameTypeOK' /\ BytesAgree'
<1>1. /\ paramSlots' = paramSlots /\ resultSlots' = resultSlots /\ off' = off
      /\ target' = target /\ Slots' = Slots
  BY DEF layoutVars, Slots
<1>2. \A u, j : Loc(u, j)' = Loc(u, j)  BY <1>1 DEF Loc
<1>3. w \in Nat  OBVIOUS
<1>4. /\ DOMAIN mem' = DOMAIN mem /\ mem' \in [DOMAIN mem -> Int]
      /\ \A u \in Slots : \A j \in 0..TypeSize(u.type) - 1 :
           mem'[Loc(u, j)] =
             IF Inside(u, j, s, d, w) THEN b[j - d + 1] ELSE mem[Loc(u, j)]
  BY <1>3, PutBytes
<1>5. /\ frame' \in [0..off - 1 -> Int]
      /\ \A u \in Slots : \A j \in 0..TypeSize(u.type) - 1 :
           frame'[u.offset + j] =
             IF Inside(u, j, s, d, w) THEN v[j - d + 1] ELSE frame[u.offset + j]
  BY RealStoreBytes
<1>6. FrameTypeOK'
  BY <1>1, <1>2, <1>4, <1>5 DEF FrameTypeOK
<1>7. ASSUME NEW u \in Slots, NEW j \in 0..TypeSize(u.type) - 1
      PROVE  frame'[u.offset + j] # Undef => mem'[Loc(u, j)] = frame'[u.offset + j]
  <2>1. CASE Inside(u, j, s, d, w)
    <3>1. TypeSize(u.type) \in Nat  BY SlotBasics
    <3>2. j - d + 1 \in 1..w  BY <2>1, <3>1 DEF Inside
    <3>3. QED BY <1>4, <1>5, <2>1, <3>2
  <2>2. CASE ~Inside(u, j, s, d, w)
    <3>1. Agree(u, j)  BY DEF BytesAgree
    <3>2. QED BY <1>4, <1>5, <2>2, <3>1 DEF Agree
  <2>3. QED BY <2>1, <2>2
<1>8. ASSUME NEW u \in resultSlots, u.index \notin written',
             NEW j \in 0..TypeSize(u.type) - 1
      PROVE  frame'[u.offset + j] = Undef
  <2>1. u \in Slots  BY DEF Slots
  <2>2. u # s  BY <1>8
  <2>3. ~Inside(u, j, s, d, w)  BY <2>2 DEF Inside
  <2>4. frame[u.offset + j] = Undef  BY <1>8 DEF BytesAgree
  <2>5. QED BY <1>5, <2>1, <2>3, <2>4
<1>9. BytesAgree'  BY <1>1, <1>2, <1>7, <1>8 DEF BytesAgree, Agree
<1>10. QED BY <1>6, <1>9

(* A load of the same bytes from both keeps the registers in agreement.    *)
LEMMA LoadAgrees ==
  ASSUME GoodFrame, FrameTypeOK, BytesAgree, NEW s, NEW d, NEW o, NEW w,
         Names(s, d, o, w), NEW v \in EvalFP(o, w)
  PROVE  /\ v \in Bytes(4) /\ RealLoad(o, w) \in Bytes(4)
         /\ \A i \in 1..4 : RealLoad(o, w)[i] # Undef => v[i] = RealLoad(o, w)[i]
<1>1. Sees(v, s, d, w)  BY Loads
<1>2. s \in Slots /\ o = s.offset + d  BY DEF Names
<1>3. w \in {1, 2, 4} /\ d \in {0, 4} /\ o \in Nat /\ d + w =< TypeSize(s.type)
  BY NamesBounds
<1>4. /\ s.offset \in Nat /\ TypeSize(s.type) \in Nat /\ off \in Nat
      /\ s.offset + TypeSize(s.type) =< off
  BY <1>2, SlotBasics
<1>5. \A i \in 1..4 : RealLoad(o, w)[i] = IF i =< w THEN frame[o + i - 1] ELSE 0
  BY DEF RealLoad
<1>6. \A p \in 0..off - 1 : frame[p] \in Int  BY DEF FrameTypeOK
<1>7. RealLoad(o, w) \in Bytes(4)
  <2>1. ASSUME NEW i \in 1..4, i =< w PROVE frame[o + i - 1] \in Int
    <3>1. o + i - 1 \in 0..off - 1  BY <1>2, <1>3, <1>4, <2>1
    <3>2. QED BY <1>6, <3>1
  <2>2. QED BY <2>1 DEF RealLoad, Bytes
<1>8. ASSUME NEW i \in 1..4, RealLoad(o, w)[i] # Undef
      PROVE  v[i] = RealLoad(o, w)[i]
  <2>1. CASE i =< w
    <3> DEFINE j == d + i - 1
    <3>1. j \in 0..TypeSize(s.type) - 1 /\ s.offset + j = o + i - 1
      BY <1>2, <1>3, <1>4, <2>1
    <3>2. v[i] = mem[Loc(s, j)]  BY <1>1, <2>1 DEF Sees
    <3>3. RealLoad(o, w)[i] = frame[s.offset + j]  BY <1>5, <2>1, <3>1
    <3> HIDE DEF j
    <3>4. Agree(s, j)  BY <1>2, <3>1 DEF BytesAgree
    <3>5. QED BY <1>8, <3>2, <3>3, <3>4 DEF Agree
  <2>2. CASE ~(i =< w)  BY <1>1, <1>5, <2>2 DEF Sees
  <2>3. QED BY <2>1, <2>2
<1>9. QED BY <1>1, <1>7, <1>8 DEF Sees

------------------------------------------------------------------------------
(* The inductive invariant of bodies.                                      *)
Running == stage \in {"body", "returned"}
RegistersAgree ==
  \A r \in Registers : \A i \in 1..4 :
    realReg[r][i] # Undef => reg[r][i] = realReg[r][i]
ResultsAgree ==
  \A s \in resultSlots : \A i \in 1..TypeSize(s.type) :
    frame[s.offset + i - 1] # Undef
      => returned[s.index][i] = frame[s.offset + i - 1]
RegTypeOK ==
  /\ target \in {"arm", "386"}
  /\ reg \in [Registers -> Bytes(4)] /\ realReg \in [Registers -> Bytes(4)]
BodyInv ==
  /\ RegTypeOK /\ RegistersAgree
  /\ Running => OwnPlaces /\ FrameTypeOK /\ BytesAgree
  /\ stage = "returned" => ResultsAgree

FrameInv == LayoutInv /\ ValuesCovered /\ OrderInv

(* Entry: the places of the slots are distinct, so each is initialized by  *)
(* itself.                                                                 *)
LEMMA EnterFrame ==
  ASSUME GoodFrame, Enter
  PROVE  FrameTypeOK' /\ BytesAgree'
<1>1. /\ paramSlots' = paramSlots /\ resultSlots' = resultSlots /\ off' = off
      /\ target' = target /\ Slots' = Slots
  BY DEF Enter, layoutVars, Slots
<1>2. \A u, j : Loc(u, j)' = Loc(u, j)  BY <1>1 DEF Loc
<1> DEFINE value(s, i) == IF s \in paramSlots THEN s.offset + i + 1 ELSE 0
           entry(s, i) == <<Loc(s, i), value(s, i)>>
<1>3. \A p : p \in InitialBytes <=>
        \E s \in Slots : \E i \in 0..TypeSize(s.type) - 1 : p = entry(s, i)
  BY DEF InitialBytes
<1>4. mem' = [l \in {p[1] : p \in InitialBytes} |->
                (CHOOSE p \in InitialBytes : p[1] = l)[2]]
  BY DEF Enter
<1>5. \A s \in Slots : \A i \in 0..TypeSize(s.type) - 1 : value(s, i) \in Int
  <2>1. \A s \in Slots : s.offset \in Nat /\ TypeSize(s.type) \in Nat
    BY SlotBasics
  <2>2. QED BY <2>1
<1> HIDE DEF InitialBytes
<1>6. mem' \in [DOMAIN mem' -> Int]
  <2>1. ASSUME NEW l \in {p[1] : p \in InitialBytes}
        PROVE  (CHOOSE p \in InitialBytes : p[1] = l)[2] \in Int
    <3> DEFINE q == CHOOSE p \in InitialBytes : p[1] = l
    <3>1. q \in InitialBytes  BY <2>1
    <3> HIDE DEF q
    <3>2. q[2] \in Int  BY <1>3, <1>5, <3>1
    <3>3. QED BY <3>2 DEF q
  <2>2. QED BY <1>4, <2>1
<1>7. ASSUME NEW u \in Slots, NEW j \in 0..TypeSize(u.type) - 1
      PROVE  Loc(u, j) \in DOMAIN mem' /\ mem'[Loc(u, j)] = value(u, j)
  <2> DEFINE l == Loc(u, j)
             q == CHOOSE p \in InitialBytes : p[1] = l
  <2>1. entry(u, j) \in InitialBytes  BY <1>3
  <2>2. entry(u, j)[1] = l  OBVIOUS
  <2>3. l \in {p[1] : p \in InitialBytes}  BY <2>1, <2>2
  <2>4. q \in InitialBytes /\ q[1] = l  BY <2>1, <2>2
  <2>5. mem'[l] = q[2] /\ l \in DOMAIN mem'  BY <1>4, <2>3
  <2> HIDE DEF q
  <2>6. PICK s \in Slots : \E i \in 0..TypeSize(s.type) - 1 : q = entry(s, i)
    BY <1>3, <2>4
  <2>7. PICK i \in 0..TypeSize(s.type) - 1 : q = entry(s, i)  BY <2>6
  <2>8. Loc(s, i) = Loc(u, j)  BY <2>4, <2>7
  <2>9. s = u /\ i = j  BY <2>8, LocOwner
  <2>10. QED BY <2>5, <2>7, <2>9
<1> HIDE DEF value, entry
<1>8. frame' = [p \in 0..off - 1 |-> ParamByte(p)]  BY DEF Enter
<1>9. frame' \in [0..off - 1 -> Int]
  <2>1. \A p \in 0..off - 1 : ParamByte(p) \in Int  BY DEF ParamByte, Undef
  <2>2. QED BY <1>8, <2>1
<1>10. ASSUME NEW u \in Slots, NEW j \in 0..TypeSize(u.type) - 1
       PROVE  /\ u \in paramSlots => frame'[u.offset + j] = u.offset + j + 1
              /\ u \notin paramSlots => frame'[u.offset + j] = Undef
  <2>1. /\ u.offset \in Nat /\ TypeSize(u.type) \in Nat /\ off \in Nat
        /\ SlotEnd(u) = u.offset + TypeSize(u.type) /\ SlotEnd(u) =< off
    BY SlotBasics
  <2> DEFINE p == u.offset + j
  <2>2. p \in 0..off - 1 /\ u.offset =< p /\ p < SlotEnd(u)  BY <2>1
  <2>3. frame'[p] = ParamByte(p)  BY <1>8, <2>2
  <2>4. ASSUME u \in paramSlots PROVE frame'[p] = p + 1
    BY <2>2, <2>3, <2>4 DEF ParamByte
  <2>5. ASSUME u \notin paramSlots PROVE frame'[p] = Undef
    <3>1. ASSUME NEW s \in paramSlots, s.offset =< p, p < SlotEnd(s) PROVE FALSE
      <4>1. s \in Slots  BY DEF Slots
      <4>2. s.offset \in Nat /\ TypeSize(s.type) \in Nat
            /\ SlotEnd(s) = s.offset + TypeSize(s.type)
        BY <4>1, SlotBasics
      <4> DEFINE i == p - s.offset
      <4>3. i \in 0..TypeSize(s.type) - 1 /\ s.offset + i = u.offset + j
        BY <2>1, <3>1, <4>2
      <4> HIDE DEF i
      <4>4. s = u  BY <4>1, <4>3, ByteOwner
      <4>5. QED BY <2>5, <4>4
    <3>2. QED BY <2>3, <3>1 DEF ParamByte
  <2>6. QED BY <2>4, <2>5
<1>11. FrameTypeOK'
  BY <1>1, <1>2, <1>6, <1>7, <1>9 DEF FrameTypeOK
<1>12. ASSUME NEW u \in Slots, NEW j \in 0..TypeSize(u.type) - 1
       PROVE  frame'[u.offset + j] # Undef => mem'[Loc(u, j)] = frame'[u.offset + j]
  BY <1>7, <1>10 DEF value
<1>13. ASSUME NEW u \in resultSlots, NEW j \in 0..TypeSize(u.type) - 1
       PROVE  frame'[u.offset + j] = Undef
  <2>1. u \in Slots  BY DEF Slots
  <2>2. TypeSize(u.type) \in Nat /\ u.offset \in Nat  BY <2>1, SlotBasics
  <2>3. u \notin paramSlots  BY <2>2, OneSide
  <2>4. QED BY <1>10, <2>1, <2>3
<1>14. BytesAgree'
  BY <1>1, <1>2, <1>12, <1>13 DEF BytesAgree, Agree
<1>15. QED BY <1>11, <1>14

(* A step of the body is none of the layout, and the other way round.      *)
LEMMA LayoutSteps == [FNext]_vars => [LayoutNext]_layoutVars
BY DEF FNext, Body, Enter, Const, Load, LoadRejected, Store, StoreRejected,
       StoreThroughAddress, Return, ReturnRejected, Executed, Rejected,
       vars, layoutVars

(* What is left alone stays in agreement. *)
LEMMA NothingStored ==
  ASSUME UNCHANGED <<layoutVars, target, mem, frame, written>>
  PROVE  /\ OwnPlaces => OwnPlaces'
         /\ FrameTypeOK => FrameTypeOK'
         /\ BytesAgree => BytesAgree'
<1>1. /\ paramSlots' = paramSlots /\ resultSlots' = resultSlots /\ off' = off
      /\ phase' = phase /\ withFrame' = withFrame /\ mem' = mem /\ frame' = frame
      /\ target' = target /\ written' = written /\ Slots' = Slots
  BY DEF layoutVars, Slots
<1>2. \A u, j : Loc(u, j)' = Loc(u, j)  BY <1>1 DEF Loc
<1>3. OwnPlaces => OwnPlaces'  BY <1>1 DEF OwnPlaces
<1>4. FrameTypeOK => FrameTypeOK'  BY <1>1, <1>2 DEF FrameTypeOK
<1>5. BytesAgree => BytesAgree'  BY <1>1, <1>2 DEF BytesAgree, Agree
<1>6. QED BY <1>3, <1>4, <1>5

(* MOVW $imm, R puts the same bytes into both registers.                   *)
LEMMA StepConst ==
  ASSUME FrameInv, BodyInv, NEW r \in Registers, Const(r)
  PROVE  BodyInv'
<1>1. stage = "body" /\ stage' = stage /\ target' = target
      /\ UNCHANGED <<layoutVars, target, mem, frame, written>>
  BY DEF Const, Executing, Executed
<1>2. OwnPlaces' /\ FrameTypeOK' /\ BytesAgree'
  BY <1>1, NothingStored DEF BodyInv, Running
<1>3. Immediate \in Bytes(4)  BY DEF Immediate, Bytes
<1>4. /\ reg' = [reg EXCEPT ![r] = Immediate]
      /\ realReg' = [realReg EXCEPT ![r] = Immediate]
  BY DEF Const
<1> HIDE DEF Immediate
<1>5. RegTypeOK'  BY <1>1, <1>3, <1>4 DEF BodyInv, RegTypeOK
<1>6. RegistersAgree'  BY <1>4 DEF BodyInv, RegTypeOK, RegistersAgree
<1>7. QED BY <1>1, <1>2, <1>5, <1>6 DEF BodyInv

(* The registers agree after a load.                                       *)
LEMMA StepLoad ==
  ASSUME FrameInv, BodyInv, NEW x \in Operands, NEW r \in Registers,
         Load(x[1], x[2], r)
  PROVE  BodyInv'
<1>1. stage = "body" /\ stage' = stage /\ target' = target
      /\ UNCHANGED <<layoutVars, target, mem, frame, written>>
  BY DEF Load, Executing, Executed
<1>2. OwnPlaces' /\ FrameTypeOK' /\ BytesAgree'
  BY <1>1, NothingStored DEF BodyInv, Running
<1>3. GoodFrame /\ FrameTypeOK /\ BytesAgree
  BY <1>1 DEF GoodFrame, FrameInv, BodyInv, Running, RegTypeOK
<1>4. PICK s, d : Names(s, d, x[1], x[2])  BY <1>3, OperandNames
<1>5. PICK v \in EvalFP(x[1], x[2]) : reg' = [reg EXCEPT ![r] = v]
  BY DEF Load
<1> DEFINE y == RealLoad(x[1], x[2])
<1>6. realReg' = [realReg EXCEPT ![r] = y]  BY DEF Load
<1>7. v \in Bytes(4) /\ y \in Bytes(4) /\ \A i \in 1..4 : y[i] # Undef => v[i] = y[i]
  BY <1>3, <1>4, <1>5, LoadAgrees
<1> HIDE DEF y
<1>8. RegTypeOK'  BY <1>1, <1>5, <1>6, <1>7 DEF BodyInv, RegTypeOK
<1>9. RegistersAgree'
  BY <1>5, <1>6, <1>7 DEF BodyInv, RegTypeOK, RegistersAgree
<1>10. QED BY <1>1, <1>2, <1>8, <1>9 DEF BodyInv

(* A store reaches the bytes its operand names, and marks a result.        *)
LEMMA StepStore ==
  ASSUME ~Store64Params, FrameInv, BodyInv, NEW x \in Operands,
         NEW r \in Registers, Store(x[1], x[2], r)
  PROVE  BodyInv'
<1>1. stage = "body" /\ stage' = stage /\ UNCHANGED <<layoutVars, target>>
      /\ reg' = reg /\ realReg' = realReg /\ Storable(x[1])
  BY DEF Store, Executing, Executed
<1>2. GoodFrame /\ FrameTypeOK /\ BytesAgree /\ OwnPlaces
  BY <1>1 DEF GoodFrame, FrameInv, BodyInv, Running, RegTypeOK
<1>3. PICK s, d : Names(s, d, x[1], x[2])  BY <1>2, OperandNames
<1> DEFINE o == x[1]
           w == x[2]
<1>4. s \in Slots /\ o = s.offset + d  BY <1>3 DEF Names
<1>5. w \in {1, 2, 4} /\ d \in {0, 4} /\ d + w =< TypeSize(s.type)
  BY <1>2, <1>3, NamesBounds
<1>6. reg[r] \in Bytes(4) /\ realReg[r] \in Bytes(4)
      /\ \A i \in 1..4 : realReg[r][i] # Undef => reg[r][i] = realReg[r][i]
  BY DEF BodyInv, RegTypeOK, RegistersAgree
<1>7. PICK after \in StoreFP(o, w, reg[r]) :
        mem' = after[1] /\ written' = written \cup after[2]
  BY DEF Store
<1>8. frame' = RealStore(s.offset + d, w, realReg[r])  BY <1>4 DEF Store
<1> HIDE DEF o, w
<1>9. Stored(after, s, d, w, reg[r])
  BY <1>1, <1>2, <1>3, <1>6, <1>7, Stores DEF o, w
<1>10. PICK b \in Bytes(w) : after[1] = Put(s, d, b) /\ \A i \in 1..w : b[i] = reg[r][i]
  BY <1>9 DEF Stored
<1>11. written \subseteq written' /\ (s \in resultSlots => s.index \in written')
  BY <1>7, <1>9 DEF Stored
<1>12. \A i \in 1..w : realReg[r][i] # Undef => b[i] = realReg[r][i]
  <2>1. \A i \in 1..w : i \in 1..4  BY <1>5
  <2>2. QED BY <1>6, <1>10, <2>1
<1>13. d \in Nat /\ w \in 0..4 /\ mem' = Put(s, d, b)  BY <1>5, <1>7, <1>10
<1>14. FrameTypeOK' /\ BytesAgree'
  BY <1>1, <1>2, <1>4, <1>5, <1>6, <1>8, <1>11, <1>12, <1>13, StoreKeeps
<1>15. OwnPlaces'  BY <1>1, <1>2 DEF OwnPlaces, layoutVars
<1>16. RegTypeOK' /\ RegistersAgree'
  BY <1>1 DEF BodyInv, RegTypeOK, RegistersAgree
<1>17. QED BY <1>1, <1>14, <1>15, <1>16 DEF BodyInv

(* A store through the address of a result finds that result: no two       *)
(* results of a body have one offset.                                      *)
LEMMA StepStoreThroughAddress ==
  ASSUME FrameInv, BodyInv, NEW s \in resultSlots, NEW d \in {0, 4},
         NEW r \in Registers, StoreThroughAddress(s, d, r)
  PROVE  BodyInv'
<1>1. stage = "body" /\ stage' = stage /\ UNCHANGED <<layoutVars, target>>
      /\ reg' = reg /\ realReg' = realReg
  BY DEF StoreThroughAddress, Executing, Executed
<1>2. GoodFrame /\ FrameTypeOK /\ BytesAgree /\ OwnPlaces
  BY <1>1 DEF GoodFrame, FrameInv, BodyInv, Running, RegTypeOK
<1>3. s \in Slots  BY DEF Slots
<1> DEFINE w == IF TypeSize(s.type) = 1 THEN 1 ELSE 4
           b == Fit(w, reg[r])
<1>4. w \in {1, 4} /\ d + w =< TypeSize(s.type)
      /\ (\E u \in LastAt(resultSlots, s.offset) : mem' = Put(u, d, b))
      /\ frame' = RealStore(s.offset + d, w, realReg[r])
      /\ written' = written \cup {u.index : u \in FirstAt(resultSlots, s.offset)}
  BY DEF StoreThroughAddress
<1> HIDE DEF w
<1>5. reg[r] \in Bytes(4) /\ realReg[r] \in Bytes(4)
      /\ \A i \in 1..4 : realReg[r][i] # Undef => reg[r][i] = realReg[r][i]
  BY DEF BodyInv, RegTypeOK, RegistersAgree
<1>6. b \in Bytes(w) /\ \A i \in 1..w : b[i] = reg[r][i]
  <2>1. w \in Nat /\ 4 \in Nat /\ \A i \in 1..w : i =< 4  BY <1>4
  <2>2. QED BY <1>5, <2>1, FitBytes
<1> HIDE DEF b
<1>7. FirstAt(resultSlots, s.offset) = {s} /\ LastAt(resultSlots, s.offset) = {s}
  <2>1. TypeSize(s.type) > 0  BY <1>2, <1>3, <1>4, SlotBasics
  <2>2. QED BY <1>2, <2>1, AtResult
<1>8. \A i \in 1..w : realReg[r][i] # Undef => b[i] = realReg[r][i]
  <2>1. \A i \in 1..w : i \in 1..4  BY <1>4
  <2>2. QED BY <1>5, <1>6, <2>1
<1>9. d \in Nat /\ w \in 0..4 /\ mem' = Put(s, d, b)
      /\ written \subseteq written' /\ s.index \in written'
  BY <1>4, <1>7
<1>10. FrameTypeOK' /\ BytesAgree'
  BY <1>1, <1>2, <1>3, <1>4, <1>5, <1>6, <1>8, <1>9, StoreKeeps
<1>11. OwnPlaces'  BY <1>1, <1>2 DEF OwnPlaces, layoutVars
<1>12. RegTypeOK' /\ RegistersAgree'
  BY <1>1 DEF BodyInv, RegTypeOK, RegistersAgree
<1>13. QED BY <1>1, <1>10, <1>11, <1>12 DEF BodyInv

(* RET hands back what was written; a result that is not marked as written *)
(* has no defined byte, whatever register it is taken from.                *)
LEMMA StepReturn ==
  ASSUME FrameInv, BodyInv, Return
  PROVE  BodyInv'
<1>1. /\ stage = "body" /\ stage' = "returned"
      /\ UNCHANGED <<layoutVars, target, mem, frame, written>>
      /\ reg' = reg /\ realReg' = realReg /\ frame' = frame
      /\ resultSlots' = resultSlots
  BY DEF Return, real, layoutVars
<1>2. GoodFrame /\ FrameTypeOK /\ BytesAgree
  BY <1>1 DEF GoodFrame, FrameInv, BodyInv, Running, RegTypeOK
<1>3. OwnPlaces' /\ FrameTypeOK' /\ BytesAgree'
  BY <1>1, NothingStored DEF BodyInv, Running
<1>4. RegTypeOK' /\ RegistersAgree'
  BY <1>1 DEF BodyInv, RegTypeOK, RegistersAgree
<1>5. ASSUME NEW s \in resultSlots, NEW i \in 1..TypeSize(s.type),
             frame[s.offset + i - 1] # Undef
      PROVE  returned'[s.index][i] = frame[s.offset + i - 1]
  <2>1. s \in Slots  BY DEF Slots
  <2>2. s.offset \in Nat /\ TypeSize(s.type) \in Nat  BY <1>2, <2>1, SlotBasics
  <2> DEFINE j == i - 1
  <2>3. j \in 0..TypeSize(s.type) - 1 /\ s.offset + i - 1 = s.offset + j
    BY <2>2
  <2> HIDE DEF j
  <2>4. s.index \in written  BY <1>2, <1>5, <2>3 DEF BytesAgree
  <2>5. (CHOOSE u \in resultSlots : u.index = s.index) = s
    BY <1>2, ResultIndex
  <2>6. returned'[s.index] = Content(s)
    <3> DEFINE n == s.index
    <3>1. n \in {u.index : u \in resultSlots}  OBVIOUS
    <3>2. n \in written /\ (CHOOSE u \in resultSlots : u.index = n) = s
      BY <2>4, <2>5
    <3> HIDE DEF n
    <3>3. returned'[n] = Content(s)  BY <3>1, <3>2 DEF Return
    <3>4. QED BY <3>3 DEF n
  <2>7. Content(s)[i] = mem[Loc(s, j)]
    BY <1>2, <2>1, ContentBytes DEF j
  <2>8. Agree(s, j)  BY <1>2, <2>1, <2>3 DEF BytesAgree
  <2>9. QED BY <1>5, <2>3, <2>6, <2>7, <2>8 DEF Agree
<1>6. ResultsAgree'  BY <1>1, <1>5 DEF ResultsAgree
<1>7. QED BY <1>3, <1>4, <1>6 DEF BodyInv

(* After a rejected instruction nothing runs.                              *)
LEMMA StepRejected ==
  ASSUME BodyInv, Rejected
  PROVE  BodyInv'
<1>1. stage' = "rejected" /\ target' = target /\ reg' = reg /\ realReg' = realReg
  BY DEF Rejected, llvm, real
<1>2. RegTypeOK' /\ RegistersAgree'
  BY <1>1 DEF BodyInv, RegTypeOK, RegistersAgree
<1>3. ~Running' /\ stage' # "returned"  BY <1>1 DEF Running
<1>4. QED BY <1>2, <1>3 DEF BodyInv

(* On arm two parameters of one offset are rejected, so the rest are       *)
(* apart.                                                                  *)
LEMMA StepEnter ==
  ASSUME FrameInv, BodyInv, Enter
  PROVE  BodyInv'
<1>1. /\ UNCHANGED <<layoutVars, target>> /\ reg' = reg /\ realReg' = realReg
      /\ stage' \in {"rejected", "body"}
  BY DEF Enter
<1>2. RegTypeOK' /\ RegistersAgree'
  BY <1>1 DEF BodyInv, RegTypeOK, RegistersAgree
<1>3. stage' # "returned"  BY <1>1
<1>4. CASE stage' = "rejected"
  <2>1. ~Running'  BY <1>4 DEF Running
  <2>2. QED BY <1>2, <1>3, <2>1 DEF BodyInv
<1>5. CASE stage' = "body"
  <2>1. target = "arm" => \A s, u \in paramSlots : s.offset = u.offset => s = u
    BY <1>5 DEF Enter
  <2>2. OwnPlaces  BY <2>1 DEF Enter, OwnPlaces
  <2>3. GoodFrame  BY <2>2 DEF GoodFrame, FrameInv, BodyInv, RegTypeOK
  <2>4. FrameTypeOK' /\ BytesAgree'  BY <2>3, EnterFrame
  <2>5. OwnPlaces'  BY <1>1, <2>2 DEF OwnPlaces, layoutVars
  <2>6. QED BY <1>2, <1>3, <2>4, <2>5 DEF BodyInv
<1>6. QED BY <1>1, <1>4, <1>5

(* The frame is laid out before the body begins.                           *)
LEMMA StepLayoutOnly ==
  ASSUME FrameInv, BodyInv, LayoutNext, UNCHANGED bodyVars
  PROVE  BodyInv'
<1>1. phase \in {"params", "results"}
  BY DEF LayoutNext, AddParam, EndParams, AddResult, EndResults, Unsupported
<1>2. ~Running  BY <1>1 DEF BodyInv, OwnPlaces
<1>3. stage' = stage /\ target' = target /\ reg' = reg /\ realReg' = realReg
  BY DEF bodyVars, llvm, real
<1>4. RegTypeOK' /\ RegistersAgree'
  BY <1>3 DEF BodyInv, RegTypeOK, RegistersAgree
<1>5. ~Running' /\ stage' # "returned"  BY <1>2, <1>3 DEF Running
<1>6. QED BY <1>4, <1>5 DEF BodyInv

(* A step that changes nothing.                                            *)
LEMMA StepStutter ==
  ASSUME BodyInv, UNCHANGED vars
  PROVE  BodyInv'
<1>1. /\ UNCHANGED <<layoutVars, target, mem, frame, written>>
      /\ reg' = reg /\ realReg' = realReg /\ stage' = stage /\ target' = target
      /\ returned' = returned /\ frame' = frame /\ resultSlots' = resultSlots
  BY DEF vars, bodyVars, llvm, real, layoutVars
<1>2. Running => OwnPlaces' /\ FrameTypeOK' /\ BytesAgree'
  BY <1>1, NothingStored DEF BodyInv
<1>3. RegTypeOK' /\ RegistersAgree'
  BY <1>1 DEF BodyInv, RegTypeOK, RegistersAgree
<1>4. stage = "returned" => ResultsAgree'
  BY <1>1 DEF BodyInv, ResultsAgree
<1>5. Running' <=> Running  BY <1>1 DEF Running
<1>6. QED BY <1>1, <1>2, <1>3, <1>4, <1>5 DEF BodyInv

(* One step of the program, by its action.                                 *)
LEMMA StepBodyInv ==
  ASSUME ~Store64Params, FrameInv, BodyInv, [FNext]_vars
  PROVE  BodyInv'
<1>1. CASE UNCHANGED vars  BY <1>1, StepStutter
<1>2. CASE LayoutNext /\ UNCHANGED bodyVars  BY <1>2, StepLayoutOnly
<1>3. CASE Enter  BY <1>3, StepEnter
<1>4. ASSUME NEW r \in Registers, Const(r) PROVE BodyInv'
  BY <1>4, StepConst
<1>5. ASSUME NEW r \in Registers, NEW x \in Operands, Load(x[1], x[2], r)
      PROVE  BodyInv'
  BY <1>5, StepLoad
<1>6. ASSUME NEW r \in Registers, NEW x \in Operands, Store(x[1], x[2], r)
      PROVE  BodyInv'
  BY <1>6, StepStore
<1>7. ASSUME NEW r \in Registers, NEW s \in resultSlots, NEW d \in {0, 4},
             StoreThroughAddress(s, d, r)
      PROVE  BodyInv'
  BY <1>7, StepStoreThroughAddress
<1>8. CASE Return  BY <1>8, StepReturn
<1>9. CASE Rejected  BY <1>9, StepRejected
<1>10. Body => \/ \E r \in Registers :
                    \/ Const(r)
                    \/ \E x \in Operands : \/ Load(x[1], x[2], r)
                                           \/ Store(x[1], x[2], r)
                    \/ \E s \in resultSlots, d \in {0, 4} :
                         StoreThroughAddress(s, d, r)
               \/ Return \/ Rejected
  BY DEF Body, StoreRejected, LoadRejected, ReturnRejected
<1>11. CASE Body  BY <1>4, <1>5, <1>6, <1>7, <1>8, <1>9, <1>10, <1>11
<1>12. QED BY <1>1, <1>2, <1>3, <1>11 DEF FNext

(* Before the layout registers agree, and nothing runs.                    *)
LEMMA InitBody == FInit => FrameInv /\ BodyInv
<1> SUFFICES ASSUME FInit PROVE FrameInv /\ BodyInv
  OBVIOUS
<1>1. Init  BY DEF FInit
<1>2. LayoutInv  BY <1>1, InitLayout
<1>3. ValuesCovered  BY <1>1 DEF Init, ValuesCovered, Covered
<1>4. OrderInv  BY <1>1 DEF Init, OrderInv
<1>5. target \in {"arm", "386"}  BY BodyAssumption DEF FInit
<1>6. /\ reg \in [Registers -> Bytes(4)] /\ realReg \in [Registers -> Bytes(4)]
      /\ \A r \in Registers : \A i \in 1..4 : realReg[r][i] = Undef
  BY DEF FInit, Zero4, Bytes, Undef
<1>7. RegTypeOK /\ RegistersAgree  BY <1>5, <1>6 DEF RegTypeOK, RegistersAgree
<1>8. ~Running /\ stage # "returned"  BY DEF FInit, Running
<1>9. QED BY <1>2, <1>3, <1>4, <1>7, <1>8 DEF FrameInv, BodyInv

(* The invariant is the agreement that FrameAgrees asks for, byte by byte. *)
LEMMA BodyAgrees == FrameInv /\ BodyInv => FrameAgrees
<1> SUFFICES ASSUME FrameInv, BodyInv PROVE FrameAgrees
  OBVIOUS
<1>1. ASSUME stage \in {"body", "returned"},
             NEW s \in Slots, NEW i \in 1..TypeSize(s.type),
             frame[s.offset + i - 1] # Undef
      PROVE  Content(s)[i] = frame[s.offset + i - 1]
  <2>1. GoodFrame /\ FrameTypeOK /\ BytesAgree
    BY <1>1 DEF GoodFrame, FrameInv, BodyInv, Running, RegTypeOK
  <2>2. s.offset \in Nat /\ TypeSize(s.type) \in Nat  BY <2>1, SlotBasics
  <2> DEFINE j == i - 1
  <2>3. j \in 0..TypeSize(s.type) - 1 /\ s.offset + i - 1 = s.offset + j
    BY <2>2
  <2>4. Content(s)[i] = mem[Loc(s, j)]  BY <2>1, ContentBytes
  <2> HIDE DEF j
  <2>5. Agree(s, j)  BY <2>1, <2>3 DEF BytesAgree
  <2>6. QED BY <1>1, <2>3, <2>4, <2>5 DEF Agree
<1>2. QED BY <1>1 DEF BodyInv, RegistersAgree, ResultsAgree, FrameAgrees

(* Whatever a program does with the variables of its frame, the translated *)
(* program sees the same bytes: for every signature, on both processors,   *)
(* for bodies of every length.                                             *)
THEOREM FramesAgree ==
  ASSUME ~Store64Params
  PROVE  FSpec => []FrameAgrees
<1>1. FInit => FrameInv /\ BodyInv  BY InitBody
<1>2. FrameInv /\ BodyInv /\ [FNext]_vars => FrameInv' /\ BodyInv'
  BY LayoutSteps, StepLayout, StepCovered, StepOrder, StepBodyInv DEF FrameInv
<1>3. FrameInv /\ BodyInv => FrameAgrees  BY BodyAgrees
<1>4. QED BY <1>1, <1>2, <1>3, PTL DEF FSpec
===============================================================================
