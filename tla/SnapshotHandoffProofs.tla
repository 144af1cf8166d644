------------------------ MODULE SnapshotHandoffProofs -----------------------
(***************************************************************************)
(* Proofs about SnapshotHandoff, for any number of readers and slots:      *)
(* every pin is given back, a completed copy is whole, and the handoff     *)
(* implements SnapshotRegister.                                            *)
(***************************************************************************)
EXTENDS SnapshotHandoff, FiniteSetTheorems, TLAPS

USE HandoffAssumption

Writing == {"clear", "fill_lo", "fill_hi", "publish"}
Copying == {"copy_lo", "copy_hi"}

Whole(gen) == [lo |-> gen, hi |-> gen]

(* Between its load and its fetch_sub a reader's token names a slot. *)
TokenNamesSlot == \A r \in Readers : rpc[r] # "idle" => token[r].slot \in Slot

(* The slot being written is neither published nor being copied. *)
WriterAlone ==
  tick \in Writing =>
    /\ writing # published.slot
    /\ \A r \in Readers : rpc[r] \in Copying => token[r].slot # writing

(* What the game thread has filled in so far. *)
Filled ==
  /\ tick = "fill_hi" => buffers[writing].lo = generation
  /\ tick = "publish" => buffers[writing] = Whole(generation)

(* The published slot holds the generation its token names. *)
PublishedWhole == published.slot # -1 => buffers[published.slot] = Whole(published.gen)

(* A reader that found its token unchanged copies from a slot that still
   holds that generation, even after another slot was published. *)
SourceWhole ==
  \A r \in Readers :
    /\ rpc[r] \in Copying => buffers[token[r].slot] = Whole(token[r].gen)
    /\ rpc[r] = "copy_hi" => copy[r].lo = token[r].gen

Typed == TypeOK /\ TokenNamesSlot

LEMMA Modulo == ASSUME NEW n \in Nat PROVE n % SlotCount \in Slot
  BY DEF Slot

LEMMA CandidateIsSlot ==
  ASSUME TypeOK
  PROVE  Candidate \in Slot /\ (Candidate + 1) % SlotCount \in Slot
<1>1. nextSlot + attempt \in Nat
  BY DEF TypeOK, Slot
<1>2. Candidate \in Slot
  BY <1>1, Modulo DEF Candidate
<1>3. Candidate + 1 \in Nat
  BY <1>2 DEF Slot
<1> QED BY <1>2, <1>3, Modulo

LEMMA TypedInit == Init => Typed
  BY DEF Init, Typed, TypeOK, TokenNamesSlot, Invalid, Token, Blank, Halves, Slot, Pinning

LEMMA TypedNext == Typed /\ [Next]_vars => Typed'
<1> SUFFICES ASSUME Typed, [Next]_vars PROVE Typed'
  OBVIOUS
<1> USE DEF Typed, TypeOK, TokenNamesSlot, Token, Halves, Pinning, shared, writer, locals
<1>1. CASE BeginTick
  BY <1>1 DEF BeginTick
<1>2. CASE PassOver
  BY <1>2 DEF PassOver
<1>3. CASE Choose
  BY <1>3, CandidateIsSlot DEF Choose
<1>4. CASE Skip
  BY <1>4 DEF Skip
<1>5. CASE Clear
  BY <1>5 DEF Clear, Blank
<1>6. CASE FillLo
  BY <1>6 DEF FillLo
<1>7. CASE FillHi
  BY <1>7 DEF FillHi
<1>8. CASE Publish
  BY <1>8 DEF Publish
<1>9. ASSUME NEW r \in Readers, Read(r) PROVE Typed'
  <2>1. CASE LoadToken(r)
    BY <2>1 DEF LoadToken
  <2>2. CASE Pin(r)
    BY <2>2 DEF Pin
  <2>3. CASE Check(r)
    BY <2>3 DEF Check
  <2>4. CASE CopyLo(r)
    BY <2>4 DEF CopyLo
  <2>5. CASE CopyHi(r)
    BY <2>5 DEF CopyHi
  <2>6. CASE Unpin(r)
    BY <2>6 DEF Unpin
  <2> QED BY <1>9, <2>1, <2>2, <2>3, <2>4, <2>5, <2>6 DEF Read
<1>10. CASE UNCHANGED vars
  BY <1>10 DEF vars
<1> QED BY <1>1, <1>2, <1>3, <1>4, <1>5, <1>6, <1>7, <1>8, <1>9, <1>10 DEF Next, Tick

(* The state has its types, and a reader's token names a slot from its load
   to its fetch_sub. *)
THEOREM Typing == Spec => []TypeOK
<1>1. Typed => TypeOK
  BY DEF Typed
<1> QED BY <1>1, TypedInit, TypedNext, PTL DEF Spec

-----------------------------------------------------------------------------
(* Pins.                                                                   *)

LEMMA PinsFinite == \A s : IsFiniteSet(Pins(s)) /\ Cardinality(Pins(s)) \in Nat
<1> SUFFICES ASSUME NEW s PROVE IsFiniteSet(Pins(s)) /\ Cardinality(Pins(s)) \in Nat
  OBVIOUS
<1>1. Pins(s) \in SUBSET Readers
  BY DEF Pins
<1> QED BY <1>1, FS_Subset, FS_CardinalityType

LEMMA PinsInit == Init => PinsBalanced
<1> SUFFICES ASSUME Init, NEW s \in Slot PROVE readers[s] = Cardinality(Pins(s))
  BY DEF PinsBalanced
<1>1. Pins(s) = {}
  BY DEF Init, Pins, Pinning
<1> QED BY <1>1, FS_EmptySet DEF Init

LEMMA PinsNext == Typed /\ PinsBalanced /\ [Next]_vars => PinsBalanced'
<1> SUFFICES ASSUME Typed, PinsBalanced, [Next]_vars PROVE PinsBalanced'
  OBVIOUS
<1> USE DEF Typed, TypeOK
(* A step that neither pins nor unpins. *)
<1>1. ASSUME readers' = readers, \A s \in Slot : Pins(s)' = Pins(s) PROVE PinsBalanced'
  BY <1>1 DEF PinsBalanced
<1>2. ASSUME UNCHANGED <<readers, rpc, token>> PROVE PinsBalanced'
  BY <1>1, <1>2 DEF Pins
<1>3. CASE Tick
  BY <1>2, <1>3 DEF Tick, BeginTick, PassOver, Choose, Skip, Clear, FillLo, FillHi, Publish,
                    shared, writer, locals
<1>4. ASSUME NEW r \in Readers, Read(r) PROVE PinsBalanced'
  <2>1. CASE LoadToken(r)
    <3>1. \A s \in Slot : Pins(s)' = Pins(s)
      BY <2>1 DEF LoadToken, Pins, Pinning
    <3> QED BY <1>1, <2>1, <3>1 DEF LoadToken, shared
  <2>2. CASE Pin(r)
    <3>1. SUFFICES ASSUME NEW s \in Slot PROVE readers'[s] = Cardinality(Pins(s)')
      BY DEF PinsBalanced
    <3>2. CASE s = token[r].slot
      <4>1. Pins(s)' = Pins(s) \cup {r} /\ r \notin Pins(s)
        BY <2>2, <3>2 DEF Pin, Pins, Pinning, locals
      <4>2. Cardinality(Pins(s)') = Cardinality(Pins(s)) + 1
        BY <4>1, PinsFinite, FS_AddElement
      <4> QED BY <2>2, <3>2, <4>2 DEF Pin, PinsBalanced
    <3>3. CASE s # token[r].slot
      <4>1. Pins(s)' = Pins(s)
        BY <2>2, <3>3 DEF Pin, Pins, Pinning
      <4> QED BY <2>2, <3>3, <4>1 DEF Pin, PinsBalanced
    <3> QED BY <3>2, <3>3
  <2>3. CASE Check(r)
    <3>1. \A s \in Slot : Pins(s)' = Pins(s)
      BY <2>3 DEF Check, Pins, Pinning
    <3> QED BY <1>1, <2>3, <3>1 DEF Check, shared
  <2>4. CASE CopyLo(r)
    <3>1. \A s \in Slot : Pins(s)' = Pins(s)
      BY <2>4 DEF CopyLo, Pins, Pinning
    <3> QED BY <1>1, <2>4, <3>1 DEF CopyLo, shared
  <2>5. CASE CopyHi(r)
    <3>1. \A s \in Slot : Pins(s)' = Pins(s)
      BY <2>5 DEF CopyHi, Pins, Pinning
    <3> QED BY <1>1, <2>5, <3>1 DEF CopyHi, shared
  <2>6. CASE Unpin(r)
    <3>1. SUFFICES ASSUME NEW s \in Slot PROVE readers'[s] = Cardinality(Pins(s)')
      BY DEF PinsBalanced
    <3>2. CASE s = token[r].slot
      <4>1. Pins(s)' = Pins(s) \ {r} /\ r \in Pins(s)
        BY <2>6, <3>2 DEF Unpin, Pins, Pinning
      <4>2. Cardinality(Pins(s)') = Cardinality(Pins(s)) - 1
        BY <4>1, PinsFinite, FS_RemoveElement
      <4> QED BY <2>6, <3>2, <4>2 DEF Unpin, PinsBalanced
    <3>3. CASE s # token[r].slot
      <4>1. Pins(s)' = Pins(s)
        BY <2>6, <3>3 DEF Unpin, Pins, Pinning
      <4> QED BY <2>6, <3>3, <4>1 DEF Unpin, PinsBalanced
    <3> QED BY <3>2, <3>3
  <2> QED BY <1>4, <2>1, <2>2, <2>3, <2>4, <2>5, <2>6 DEF Read
<1>5. CASE UNCHANGED vars
  BY <1>2, <1>5 DEF vars, shared, locals
<1> QED BY <1>3, <1>4, <1>5 DEF Next

(* Every pin is given back: each slot's count is the number of readers between
   their fetch_add and their fetch_sub on it (copy_latest_snapshot). *)
THEOREM PinsAreBalanced == Spec => []PinsBalanced
<1>1. Init => Typed /\ PinsBalanced
  BY TypedInit, PinsInit
<1>2. Typed /\ PinsBalanced /\ [Next]_vars => (Typed /\ PinsBalanced)'
  BY TypedNext, PinsNext
<1> QED BY <1>1, <1>2, PTL DEF Spec

-----------------------------------------------------------------------------
(* Whole copies.                                                           *)

Handoff == WriterAlone /\ Filled /\ PublishedWhole /\ SourceWhole /\ CopyIsWhole

LEMMA HandoffInit == Init => Handoff
  BY DEF Init, Handoff, WriterAlone, Filled, PublishedWhole, SourceWhole, CopyIsWhole,
         Writing, Copying, Invalid

(* A slot nobody has pinned is copied by nobody. *)
LEMMA UnpinnedIsNotCopied ==
  ASSUME PinsBalanced, NEW s \in Slot, readers[s] = 0,
         NEW r \in Readers, rpc[r] \in Copying
  PROVE  token[r].slot # s
<1>1. Cardinality(Pins(s)) = 0
  BY DEF PinsBalanced
<1>2. Pins(s) = {}
  BY <1>1, PinsFinite, FS_EmptySet
<1> QED BY <1>2 DEF Pins, Pinning, Copying

(* The game thread's steps. *)
LEMMA TickKeepsHandoff ==
  ASSUME Typed, PinsBalanced, Handoff, Tick
  PROVE  Handoff'
<1> USE DEF Typed, TypeOK, TokenNamesSlot, Token, Halves, Handoff, WriterAlone, Filled,
            PublishedWhole, SourceWhole, CopyIsWhole, Writing, Copying, Whole,
            shared, writer, locals
<1>1. CASE BeginTick
  BY <1>1 DEF BeginTick
<1>2. CASE PassOver
  BY <1>2 DEF PassOver
<1>3. CASE Choose
  <2>1. Candidate \in Slot /\ readers[Candidate] = 0 /\ Candidate # published.slot
    BY <1>3, CandidateIsSlot DEF Choose
  <2>2. \A r \in Readers : rpc[r] \in Copying => token[r].slot # Candidate
    BY <2>1, UnpinnedIsNotCopied
  <2> QED BY <1>3, <2>1, <2>2 DEF Choose
<1>4. CASE Skip
  BY <1>4 DEF Skip
<1>5. CASE Clear
  BY <1>5 DEF Clear
<1>6. CASE FillLo
  BY <1>6 DEF FillLo
<1>7. CASE FillHi
  <2>1. buffers[writing] \in Halves /\ buffers[writing].lo = generation
    BY <1>7 DEF FillHi
  <2>2. buffers'[writing] = Whole(generation)
    BY <1>7, <2>1 DEF FillHi
  <2> QED BY <1>7, <2>2 DEF FillHi
<1>8. CASE Publish
  BY <1>8 DEF Publish
<1> QED BY <1>1, <1>2, <1>3, <1>4, <1>5, <1>6, <1>7, <1>8 DEF Tick

(* A reader's steps. *)
LEMMA ReadKeepsHandoff ==
  ASSUME Typed, Handoff, NEW r \in Readers, Read(r)
  PROVE  Handoff'
<1> USE DEF Typed, TypeOK, TokenNamesSlot, Token, Halves, Handoff, WriterAlone, Filled,
            PublishedWhole, SourceWhole, CopyIsWhole, Writing, Copying, Whole, Pinning,
            shared, writer, locals
<1>1. CASE LoadToken(r)
  BY <1>1 DEF LoadToken
<1>2. CASE Pin(r)
  BY <1>2 DEF Pin
<1>3. CASE Check(r)
  <2>1. -1 \notin Slot
    BY DEF Slot
  <2>2. token[r].slot \in Slot
    BY <1>3 DEF Check
  <2>3. published = token[r] => buffers[token[r].slot] = Whole(token[r].gen)
    BY <2>1, <2>2
  <2> QED BY <1>3, <2>3 DEF Check
<1>4. CASE CopyLo(r)
  BY <1>4 DEF CopyLo
<1>5. CASE CopyHi(r)
  <2>1. copy'[r] = Whole(token[r].gen)
    BY <1>5 DEF CopyHi
  <2> QED BY <1>5, <2>1 DEF CopyHi
<1>6. CASE Unpin(r)
  BY <1>6 DEF Unpin
<1> QED BY <1>1, <1>2, <1>3, <1>4, <1>5, <1>6 DEF Read

Inv == Typed /\ PinsBalanced /\ Handoff

LEMMA InvInit == Init => Inv
  BY TypedInit, PinsInit, HandoffInit DEF Inv

LEMMA InvNext == Inv /\ [Next]_vars => Inv'
<1> SUFFICES ASSUME Inv, [Next]_vars PROVE Handoff'
  BY TypedNext, PinsNext DEF Inv
<1>1. CASE UNCHANGED vars
  BY <1>1 DEF Inv, vars, shared, writer, locals, Handoff, WriterAlone, Filled, PublishedWhole,
              SourceWhole, CopyIsWhole
<1> QED BY <1>1, TickKeepsHandoff, ReadKeepsHandoff DEF Inv, Next

(* A completed copy is whole: both halves are of the generation whose token
   the reader checked, for any number of readers and slots. *)
THEOREM CopiesAreWhole == Spec => []CopyIsWhole
<1>1. Inv => CopyIsWhole
  BY DEF Inv, Handoff
<1> QED BY <1>1, InvInit, InvNext, PTL DEF Spec

-----------------------------------------------------------------------------
(* The abstract register.                                                  *)

Settled == {"copy_lo", "copy_hi", "copied"}

(* Generations are published one after the other, and 0 is never one. *)
Numbered ==
  /\ generation = published.gen + 1
  /\ published.slot # -1 => published.gen # 0
  /\ \A r \in Readers : rpc[r] # "idle" => token[r].gen # 0

LEMMA NumberedInit == Init => Numbered
  BY DEF Init, Numbered, Invalid

LEMMA NumberedNext == Typed /\ Numbered /\ [Next]_vars => Numbered'
<1> SUFFICES ASSUME Typed, Numbered, [Next]_vars PROVE Numbered'
  OBVIOUS
<1> USE DEF Typed, TypeOK, Token, Numbered, shared, writer, locals
<1>1. CASE Tick
  BY <1>1 DEF Tick, BeginTick, PassOver, Choose, Skip, Clear, FillLo, FillHi, Publish
<1>2. ASSUME NEW r \in Readers, Read(r) PROVE Numbered'
  BY <1>2 DEF Read, LoadToken, Pin, Check, CopyLo, CopyHi, Unpin
<1>3. CASE UNCHANGED vars
  BY <1>3 DEF vars
<1> QED BY <1>1, <1>2, <1>3 DEF Next

(* The register's variables, as functions of the state. *)
SettledOn == [r \in Readers |-> IF rpc[r] \in Settled THEN token[r].gen ELSE 0]
Shown     == [r \in Readers |-> IF rpc[r] = "copied" THEN {copy[r].lo, copy[r].hi} ELSE {}]

LEMMA RegisterInit == Init => Register!Init
<1> SUFFICES ASSUME Init PROVE Register!Init
  OBVIOUS
<1>1. published.gen = 0
  BY DEF Init, Invalid
<1>2. SettledOn = [r \in Readers |-> 0] /\ Shown = [r \in Readers |-> {}]
  BY DEF Init, SettledOn, Shown, Settled
<1> QED BY <1>1, <1>2 DEF Register!Init, SettledOn, Shown, Settled

(* Only publishing writes the register. *)
LEMMA TickIsWrite ==
  ASSUME Typed, Numbered, Tick
  PROVE  Register!Write \/ UNCHANGED Register!vars
<1>1. UNCHANGED locals
  BY DEF Tick, BeginTick, PassOver, Choose, Skip, Clear, FillLo, FillHi, Publish, locals
<1>2. SettledOn' = SettledOn /\ Shown' = Shown
  BY <1>1 DEF SettledOn, Shown, locals
<1>3. CASE Publish
  <2>1. published'.gen = published.gen + 1
    BY <1>3 DEF Publish, Numbered
  <2> QED BY <1>2, <2>1 DEF Register!Write, SettledOn, Shown, Settled
<1>4. CASE ~Publish
  <2>1. published' = published
    BY <1>4 DEF Tick, BeginTick, PassOver, Choose, Skip, Clear, FillLo, FillHi, shared
  <2> QED BY <1>2, <2>1 DEF Register!vars, SettledOn, Shown, Settled
<1> QED BY <1>3, <1>4

(* A successful check settles, the last step of the copy shows, and giving the pin
   back returns; what precedes a successful check is not seen. *)
LEMMA ReadIsRead ==
  ASSUME Inv, Inv', Numbered, NEW r \in Readers, Read(r)
  PROVE  \/ Register!Settle(r) \/ Register!Show(r) \/ Register!Return(r)
         \/ UNCHANGED Register!vars
<1> USE DEF Inv, Typed, TypeOK, TokenNamesSlot, Numbered
<1>0. published' = published
  BY DEF Read, LoadToken, Pin, Check, CopyLo, CopyHi, Unpin, shared
<1>1. ASSUME SettledOn' = SettledOn, Shown' = Shown PROVE UNCHANGED Register!vars
  BY <1>0, <1>1 DEF Register!vars, SettledOn, Shown, Settled
<1>2. CASE LoadToken(r)
  BY <1>1, <1>2 DEF LoadToken, SettledOn, Shown, Settled
<1>3. CASE Pin(r)
  BY <1>1, <1>3 DEF Pin, SettledOn, Shown, Settled
<1>4. CASE Check(r)
  <2>1. Shown' = Shown
    BY <1>4 DEF Check, Shown
  <2>2. CASE published # token[r]
    <3>1. SettledOn' = SettledOn
      BY <1>4, <2>2 DEF Check, SettledOn, Settled
    <3> QED BY <1>1, <2>1, <3>1
  <2>3. CASE published = token[r]
    <3>1. published.gen # 0 /\ SettledOn[r] = 0
      BY <1>4, <2>3 DEF Check, SettledOn, Settled
    <3>2. SettledOn' = [SettledOn EXCEPT ![r] = published.gen]
      BY <1>4, <2>3 DEF Check, SettledOn, Settled
    <3> QED BY <1>0, <2>1, <3>1, <3>2 DEF Register!Settle, SettledOn, Shown, Settled
  <2> QED BY <2>2, <2>3
<1>5. CASE CopyLo(r)
  BY <1>1, <1>5 DEF CopyLo, SettledOn, Shown, Settled
<1>6. CASE CopyHi(r)
  <2>1. SettledOn' = SettledOn /\ SettledOn[r] = token[r].gen /\ token[r].gen # 0
    BY <1>6 DEF CopyHi, SettledOn, Settled
  <2>2. rpc'[r] = "copied" /\ token'[r] = token[r]
    BY <1>6 DEF CopyHi
  <2>3. copy'[r].lo = token[r].gen /\ copy'[r].hi = token[r].gen
    BY <2>2 DEF Handoff, CopyIsWhole
  <2>4. {copy'[r].lo, copy'[r].hi} = {token[r].gen}
    BY <2>3
  <2>5. Shown[r] = {}
    BY <1>6 DEF CopyHi, Shown
  <2>6. \A q \in Readers \ {r} : rpc'[q] = rpc[q] /\ copy'[q] = copy[q]
    BY <1>6 DEF CopyHi
  <2>7. Shown' = [Shown EXCEPT ![r] = {token[r].gen}]
    BY <2>2, <2>4, <2>6 DEF Shown
  <2> QED BY <1>0, <2>1, <2>5, <2>7 DEF Register!Show, SettledOn, Shown, Settled
<1>7. CASE Unpin(r) /\ rpc[r] = "unpin"
  BY <1>1, <1>7 DEF Unpin, SettledOn, Shown, Settled
<1>8. CASE Unpin(r) /\ rpc[r] = "copied"
  <2>1. SettledOn' = [SettledOn EXCEPT ![r] = 0] /\ Shown' = [Shown EXCEPT ![r] = {}]
    BY <1>8 DEF Unpin, SettledOn, Shown, Settled
  <2>2. Shown[r] # {}
    BY <1>8 DEF Shown
  <2> QED BY <1>0, <2>1, <2>2 DEF Register!Return, SettledOn, Shown, Settled
<1> QED BY <1>2, <1>3, <1>4, <1>5, <1>6, <1>7, <1>8 DEF Read, Unpin

(* The handoff implements one register, for any number of readers and slots: each
   call returns, whole, the snapshot that was the latest at a moment within it. *)
THEOREM HandoffImplementsRegister == Spec => ImplementsRegister
<1>1. Inv /\ Numbered /\ [Next]_vars => (Inv /\ Numbered)'
  BY InvNext, NumberedNext DEF Inv
<1>2. Inv /\ Numbered /\ [Next]_vars => [Register!Next]_(Register!vars)
  <2> SUFFICES ASSUME Inv, Numbered, [Next]_vars PROVE Register!Next \/ UNCHANGED Register!vars
    OBVIOUS
  <2>1. CASE UNCHANGED vars
    BY <2>1 DEF vars, shared, locals, Register!vars
  <2>2. CASE Tick
    BY <2>2, TickIsWrite DEF Inv, Register!Next
  <2>3. ASSUME NEW r \in Readers, Read(r) PROVE Register!Next \/ UNCHANGED Register!vars
    BY <1>1, <2>3, ReadIsRead DEF Register!Next
  <2> QED BY <2>1, <2>2, <2>3 DEF Next
<1>3. Init => Inv /\ Numbered /\ Register!Init
  BY InvInit, NumberedInit, RegisterInit
<1> QED BY <1>1, <1>2, <1>3, PTL DEF Spec, ImplementsRegister, Register!Spec
=============================================================================
