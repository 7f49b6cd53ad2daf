------------------------ MODULE KernelCommandsProofs ------------------------
(***************************************************************************)
(* Proofs about the commands of the FreeBSD backend that make several      *)
(* kernel calls: that the halves of an epair stay together whatever call   *)
(* fails and whatever others do in between, that a reading of a wireless   *)
(* interface does not mix the key of one station with another, and that an *)
(* ipsec command that succeeds has done what it was told; and that these   *)
(* commands, and those about routes and neighbours, do in the whole backend*)
(* what they do on their own.                                              *)
(***************************************************************************)
EXTENDS KernelCommands, TableCommandsProofs, FiniteSetTheorems, TLAPS

-----------------------------------------------------------------------------
(* epair                                                                   *)

AllBases == Bases \cup KernelBases
Has(b, s) == Half(b, s) \in names
Whole(b) == Has(b, "a") <=> Has(b, "b")
Renaming == epair.okA /\ (EpairAt("renameB") \/ EpairAt("renameBack"))

\* In the middle of a rename one half has its new name, unless both are gone.
BetweenNames ==
  LET w == epair.base
      m == epair.made IN
  \/ Has(w, "a") /\ ~Has(w, "b") /\ ~Has(m, "a") /\ Has(m, "b")
  \/ ~Has(w, "a") /\ ~Has(w, "b") /\ ~Has(m, "a") /\ ~Has(m, "b") /\ epair.touched

EpairSteps == {"idle", "create", "renameA", "renameB", "renameBack", "settle"}

\* What the steps of a command know of their variables.
EpairRecord ==
  [step : EpairSteps, base : Bases \cup {NoBase}, half : {"a", "b"},
   made : KernelBases \cup {NoBase}, okA : BOOLEAN, ok : BOOLEAN, touched : BOOLEAN]
EpairTypes ==
  /\ epair \in EpairRecord /\ split \in BOOLEAN
  /\ ~EpairAt("idle") => epair.base \in Bases
  /\ EpairAt("renameA") \/ EpairAt("renameB") \/ EpairAt("renameBack")
       => epair.made \in KernelBases
  /\ EpairAt("create") \/ EpairAt("renameA") \/ EpairAt("renameBack") => epair.okA

\* Pairs are whole but for the one being renamed.
PairsWhole ==
  ~split =>
    /\ \A b \in AllBases : Whole(b) \/ (Renaming /\ b \in {epair.base, epair.made})
    /\ Renaming => BetweenNames

\* A command that got this far has its pair.
PairMade ==
  /\ EpairAt("settle") \/ (EpairAt("idle") /\ epair.ok /\ epair.base # NoBase)
  /\ ~epair.touched /\ ~split
  => (Has(epair.base, "a") /\ Has(epair.base, "b")) \/ Wanted(epair.half) \in taken

EpairInv == EpairTypes /\ PairsWhole /\ PairMade

LEMMA HalfInjective ==
  \A b, c, s, t : Half(b, s) = Half(c, t) <=> b = c /\ s = t
BY DEF Half

LEMMA PairHalves ==
  ASSUME NEW b
  PROVE  /\ Pair(b) \subseteq names <=> Has(b, "a") /\ Has(b, "b")
         /\ Pair(b) \cap names = {} <=> ~Has(b, "a") /\ ~Has(b, "b")
BY DEF Pair, Has

LEMMA EpairInitInv == EpairInit => EpairInv
<1> SUFFICES ASSUME EpairInit PROVE EpairInv
  OBVIOUS
<1>1. names = {} /\ epair = IdleEpair /\ split = FALSE
  BY DEF EpairInit
<1>2. EpairTypes
  BY <1>1 DEF IdleEpair, EpairTypes, EpairRecord, EpairSteps, EpairAt
<1>3. PairsWhole
  BY <1>1 DEF IdleEpair, PairsWhole, Whole, Has, Renaming, EpairAt
<1>4. PairMade
  BY <1>1 DEF IdleEpair, PairMade, EpairAt
<1> QED
  BY <1>2, <1>3, <1>4 DEF EpairInv

LEMMA SaveEpairInv ==
  ASSUME EpairInv, NEW b \in Bases, NEW h \in {"a", "b"}, SaveEpair(b, h)
  PROVE  EpairInv'
<1>1. /\ epair' = [IdleEpair EXCEPT !.base = b, !.half = h,
                     !.step = IF Exists(b, h) THEN "settle" ELSE "create"]
      /\ names' = names /\ taken' = taken /\ split' = split /\ epair.step = "idle"
  BY DEF SaveEpair, EpairAt
<1>2. /\ epair'.step = IF Exists(b, h) THEN "settle" ELSE "create"
      /\ epair'.half = h /\ epair'.base = b /\ epair'.okA = TRUE
      /\ epair' \in EpairRecord
  BY <1>1 DEF IdleEpair, EpairRecord, EpairSteps
<1>3. EpairTypes'
  BY <1>1, <1>2 DEF EpairInv, EpairTypes, EpairAt
<1>4. ~split => \A c \in AllBases : Whole(c)
  BY <1>1 DEF EpairInv, PairsWhole, Renaming, EpairAt
<1>5. PairsWhole'
  BY <1>1, <1>2, <1>4 DEF PairsWhole, Renaming, EpairAt, Whole, Has
<1>6. PairMade'
  <2>1. Exists(b, h) => Has(b, h) \/ Half(b, h) \in taken
    BY DEF Exists, Free, Has
  <2>2. b \in AllBases
    BY DEF AllBases
  <2>3. ~split /\ Exists(b, h) => (Has(b, "a") /\ Has(b, "b")) \/ Half(b, h) \in taken
    BY <2>1, <2>2, <1>4 DEF Whole
  <2> QED
    BY <2>3, <1>1, <1>2 DEF PairMade, EpairAt, Has, Wanted
<1> QED
  BY <1>3, <1>5, <1>6 DEF EpairInv

LEMMA CreateEpairInv ==
  ASSUME EpairInv, CreateEpair
  PROVE  EpairInv'
<1> PICK w : w = epair.base
  OBVIOUS
<1>1. /\ taken' = taken /\ split' = split /\ epair.step = "create"
      /\ epair \in EpairRecord /\ w \in Bases /\ w \in AllBases
      /\ ~split => \A c \in AllBases : Whole(c)
  BY DEF CreateEpair, EpairAt, EpairInv, EpairTypes, PairsWhole, Renaming, AllBases
<1>2. CASE Exists(epair.base, epair.half) /\ UNCHANGED names /\ EpairGo("settle")
  <2>1. epair' = [epair EXCEPT !.step = "settle"] /\ names' = names
    BY <1>2 DEF EpairGo
  <2>2. EpairTypes'
    BY <1>1, <2>1 DEF EpairTypes, EpairAt, EpairRecord, EpairSteps, EpairInv
  <2>3. PairsWhole'
    BY <1>1, <2>1 DEF PairsWhole, Renaming, EpairAt, Whole, Has, EpairRecord
  <2>4. PairMade'
    BY <1>1, <1>2, <2>1 DEF PairMade, EpairAt, Whole, Has, EpairRecord, Exists, Free, Wanted
  <2> QED
    BY <2>2, <2>3, <2>4 DEF EpairInv
<1>3. CASE /\ \A h \in Pair(epair.base) : Free(h)
           /\ names' = names \cup Pair(epair.base) /\ EpairGo("settle")
  <2>1. /\ epair' = [epair EXCEPT !.step = "settle"]
        /\ \A h : h \in names' <=> h \in names \/ h = Half(w, "a") \/ h = Half(w, "b")
    BY <1>3 DEF EpairGo, Pair
  <2>2. EpairTypes'
    BY <1>1, <2>1 DEF EpairTypes, EpairAt, EpairRecord, EpairSteps, EpairInv
  <2>3. \A c : Whole(c) => Whole(c)'
    BY <2>1, HalfInjective DEF Whole, Has
  <2>4. PairsWhole'
    BY <1>1, <2>1, <2>3 DEF PairsWhole, Renaming, EpairAt, EpairRecord
  <2>5. PairMade'
    BY <1>1, <2>1 DEF PairMade, EpairAt, Has, EpairRecord
  <2> QED
    BY <2>2, <2>4, <2>5 DEF EpairInv
<1>4. ASSUME NEW k \in KernelBases, names' = names \cup Pair(k),
             epair' = [epair EXCEPT !.step = "renameA", !.made = k]
      PROVE  EpairInv'
  <2>1. \A h : h \in names' <=> h \in names \/ h = Half(k, "a") \/ h = Half(k, "b")
    BY <1>4 DEF Pair
  <2>2. epair.okA = TRUE
    BY <1>1 DEF EpairInv, EpairTypes, EpairAt
  <2>3. EpairTypes'
    BY <1>1, <1>4, <2>2 DEF EpairTypes, EpairAt, EpairRecord, EpairSteps, EpairInv
  <2>4. \A c : Whole(c) => Whole(c)'
    BY <2>1, HalfInjective DEF Whole, Has
  <2>5. PairsWhole'
    BY <1>1, <1>4, <2>4 DEF PairsWhole, Renaming, EpairAt, EpairRecord
  <2>6. PairMade'
    BY <1>1, <1>4 DEF PairMade, EpairAt, EpairRecord
  <2> QED
    BY <2>3, <2>5, <2>6 DEF EpairInv
<1>5. CASE UNCHANGED names /\ EpairThrow
  <2>1. epair' = [epair EXCEPT !.step = "idle", !.ok = FALSE] /\ names' = names
    BY <1>5 DEF EpairThrow
  <2>2. EpairTypes'
    BY <1>1, <2>1 DEF EpairTypes, EpairAt, EpairRecord, EpairSteps, EpairInv
  <2>3. PairsWhole'
    BY <1>1, <2>1 DEF PairsWhole, Renaming, EpairAt, Whole, Has, EpairRecord
  <2>4. PairMade'
    BY <1>1, <2>1 DEF PairMade, EpairAt, EpairRecord
  <2> QED
    BY <2>2, <2>3, <2>4 DEF EpairInv
<1> QED
  BY <1>2, <1>3, <1>4, <1>5 DEF CreateEpair

LEMMA RenameAInv ==
  ASSUME EpairInv, renameA
  PROVE  EpairInv'
<1> PICK w, m : w = epair.base /\ m = epair.made
  OBVIOUS
<1>1. /\ taken' = taken /\ split' = split /\ epair.step = "renameA"
      /\ epair \in EpairRecord /\ w \in Bases /\ m \in KernelBases
      /\ w \in AllBases /\ m \in AllBases /\ w # m /\ epair.okA = TRUE
      /\ ~split => \A c \in AllBases : Whole(c)
  BY BasesAssumption DEF renameA, EpairAt, EpairInv, EpairTypes, PairsWhole, Renaming, AllBases
<1>2. CASE Rename(Made("a"), Wanted("a")) /\ EpairGo("renameB")
  <2>1. /\ epair' = [epair EXCEPT !.step = "renameB"]
        /\ Has(m, "a") /\ ~Has(w, "a")
        /\ \A h : h \in names' <=> (h \in names /\ h # Half(m, "a")) \/ h = Half(w, "a")
    BY <1>2 DEF EpairGo, Rename, Made, Wanted, Free, Has
  <2>2. EpairTypes'
    BY <1>1, <2>1 DEF EpairTypes, EpairAt, EpairRecord, EpairSteps, EpairInv
  <2>3. epair'.base = w /\ epair'.made = m /\ epair'.okA = TRUE /\ epair'.step = "renameB"
    BY <1>1, <2>1 DEF EpairRecord
  <2>4. \A c, t : ~(c = m /\ t = "a") /\ ~(c = w /\ t = "a") => Has(c, t)' = Has(c, t)
    BY <2>1, HalfInjective DEF Has
  <2>5. ~Has(m, "a")' /\ Has(w, "a")'
    BY <1>1, <2>1, HalfInjective DEF Has
  <2>6. \A c \in AllBases : c # m /\ c # w /\ Whole(c) => Whole(c)'
    BY <2>4 DEF Whole
  <2>7. ~split => Has(m, "b") /\ ~Has(w, "b")
    BY <1>1, <2>1 DEF Whole
  <2>8. ~split => BetweenNames'
    BY <1>1, <2>3, <2>4, <2>5, <2>7 DEF BetweenNames
  <2>9. PairsWhole'
    BY <1>1, <2>3, <2>6, <2>8 DEF PairsWhole, Renaming, EpairAt
  <2>10. PairMade'
    BY <2>3 DEF PairMade, EpairAt
  <2> QED
    BY <2>2, <2>9, <2>10 DEF EpairInv
<1>3. CASE UNCHANGED names /\ epair' = [epair EXCEPT !.step = "renameB", !.okA = FALSE]
  <2>1. EpairTypes'
    BY <1>1, <1>3 DEF EpairTypes, EpairAt, EpairRecord, EpairSteps, EpairInv
  <2>2. PairsWhole'
    BY <1>1, <1>3 DEF PairsWhole, Renaming, EpairAt, Whole, Has, EpairRecord
  <2>3. PairMade'
    BY <1>1, <1>3 DEF PairMade, EpairAt, EpairRecord
  <2> QED
    BY <2>1, <2>2, <2>3 DEF EpairInv
<1> QED
  BY <1>2, <1>3 DEF renameA

LEMMA RenameBInv ==
  ASSUME EpairInv, renameB
  PROVE  EpairInv'
<1> PICK w, m : w = epair.base /\ m = epair.made
  OBVIOUS
<1>1. /\ taken' = taken /\ epair.step = "renameB"
      /\ epair \in EpairRecord /\ w \in Bases /\ m \in KernelBases
      /\ w \in AllBases /\ m \in AllBases /\ w # m /\ split \in BOOLEAN
      /\ ~split /\ ~epair.okA => \A c \in AllBases : Whole(c)
      /\ ~split /\ epair.okA =>
           BetweenNames /\ \A c \in AllBases : c # w /\ c # m => Whole(c)
  BY BasesAssumption DEF renameB, EpairAt, EpairInv, EpairTypes, PairsWhole, Renaming, AllBases
<1>2. CASE /\ Rename(Made("b"), Wanted("b"))
           /\ IF epair.okA THEN EpairGo("settle") ELSE EpairThrow
           /\ split' = (split \/ ~epair.okA)
  <2>1. /\ Has(m, "b") /\ ~Has(w, "b")
        /\ \A h : h \in names' <=> (h \in names /\ h # Half(m, "b")) \/ h = Half(w, "b")
    BY <1>2 DEF Rename, Made, Wanted, Free, Has
  <2>2. CASE ~epair.okA
    <3>1. split' = TRUE /\ epair' = [epair EXCEPT !.step = "idle", !.ok = FALSE]
      BY <1>2, <2>2 DEF EpairThrow
    <3>2. EpairTypes'
      BY <1>1, <3>1 DEF EpairTypes, EpairAt, EpairRecord, EpairSteps
    <3> QED
      BY <3>1, <3>2 DEF EpairInv, PairsWhole, PairMade
  <2>3. CASE epair.okA
    <3>1. split' = split /\ epair' = [epair EXCEPT !.step = "settle"]
      BY <1>1, <1>2, <2>3 DEF EpairGo
    <3>2. EpairTypes'
      BY <1>1, <3>1 DEF EpairTypes, EpairAt, EpairRecord, EpairSteps
    <3>3. epair'.base = w /\ epair'.step = "settle"
      BY <1>1, <3>1 DEF EpairRecord
    <3>4. \A c, t : ~(c = m /\ t = "b") /\ ~(c = w /\ t = "b") => Has(c, t)' = Has(c, t)
      BY <2>1, HalfInjective DEF Has
    <3>5. ~Has(m, "b")' /\ Has(w, "b")'
      BY <1>1, <2>1, HalfInjective DEF Has
    <3>6. ~split => Has(w, "a") /\ ~Has(m, "a")
      BY <1>1, <2>1, <2>3 DEF BetweenNames
    <3>7. ~split => \A c \in AllBases : Whole(c)'
      BY <1>1, <2>3, <3>4, <3>5, <3>6 DEF Whole
    <3>8. PairsWhole'
      BY <3>1, <3>3, <3>7 DEF PairsWhole, Renaming, EpairAt
    <3>9. PairMade'
      BY <1>1, <3>1, <3>3, <3>4, <3>5, <3>6 DEF PairMade
    <3> QED
      BY <3>2, <3>8, <3>9 DEF EpairInv
  <2> QED
    BY <2>2, <2>3
<1>3. CASE UNCHANGED <<names, split>> /\ epair.okA /\ EpairGo("renameBack")
  <2>1. epair' = [epair EXCEPT !.step = "renameBack"] /\ names' = names /\ split' = split
    BY <1>3 DEF EpairGo
  <2>2. EpairTypes'
    BY <1>1, <1>3, <2>1 DEF EpairTypes, EpairAt, EpairRecord, EpairSteps
  <2>3. PairsWhole'
    BY <1>1, <1>3, <2>1 DEF PairsWhole, Renaming, EpairAt, Whole, Has, EpairRecord,
                            BetweenNames
  <2>4. PairMade'
    BY <1>1, <2>1 DEF PairMade, EpairAt, EpairRecord
  <2> QED
    BY <2>2, <2>3, <2>4 DEF EpairInv
<1>4. CASE UNCHANGED <<names, split>> /\ ~epair.okA /\ EpairThrow
  <2>1. /\ epair' = [epair EXCEPT !.step = "idle", !.ok = FALSE]
        /\ names' = names /\ split' = split
    BY <1>4 DEF EpairThrow
  <2>2. EpairTypes'
    BY <1>1, <2>1 DEF EpairTypes, EpairAt, EpairRecord, EpairSteps
  <2>3. PairsWhole'
    BY <1>1, <1>4, <2>1 DEF PairsWhole, Renaming, EpairAt, Whole, Has, EpairRecord
  <2>4. PairMade'
    BY <1>1, <2>1 DEF PairMade, EpairAt, EpairRecord
  <2> QED
    BY <2>2, <2>3, <2>4 DEF EpairInv
<1> QED
  BY <1>2, <1>3, <1>4 DEF renameB

LEMMA RenameBackInv ==
  ASSUME EpairInv, renameBack
  PROVE  EpairInv'
<1> PICK w, m : w = epair.base /\ m = epair.made
  OBVIOUS
<1>1. /\ taken' = taken /\ epair.step = "renameBack"
      /\ epair' = [epair EXCEPT !.step = "idle", !.ok = FALSE]
      /\ epair \in EpairRecord /\ w \in Bases /\ m \in KernelBases
      /\ w \in AllBases /\ m \in AllBases /\ w # m /\ split \in BOOLEAN
      /\ ~split => BetweenNames /\ \A c \in AllBases : c # w /\ c # m => Whole(c)
  BY BasesAssumption DEF renameBack, EpairThrow, EpairAt, EpairInv, EpairTypes, PairsWhole,
                         Renaming, AllBases
<1>2. epair'.step = "idle" /\ epair'.ok = FALSE
  BY <1>1 DEF EpairRecord
<1>3. PairMade'
  BY <1>2 DEF PairMade, EpairAt
<1>4. CASE Rename(Wanted("a"), Made("a")) /\ UNCHANGED split
  <2>1. /\ Has(w, "a") /\ ~Has(m, "a") /\ split' = split
        /\ \A h : h \in names' <=> (h \in names /\ h # Half(w, "a")) \/ h = Half(m, "a")
    BY <1>4 DEF Rename, Made, Wanted, Free, Has
  <2>2. EpairTypes'
    BY <1>1, <2>1 DEF EpairTypes, EpairAt, EpairRecord, EpairSteps
  <2>3. \A c, t : ~(c = m /\ t = "a") /\ ~(c = w /\ t = "a") => Has(c, t)' = Has(c, t)
    BY <2>1, HalfInjective DEF Has
  <2>4. ~Has(w, "a")' /\ Has(m, "a")'
    BY <1>1, <2>1, HalfInjective DEF Has
  <2>5. ~split => ~Has(w, "b") /\ Has(m, "b")
    BY <1>1, <2>1 DEF BetweenNames
  <2>6. ~split => \A c \in AllBases : Whole(c)'
    BY <1>1, <2>3, <2>4, <2>5 DEF Whole
  <2>7. PairsWhole'
    BY <1>2, <2>1, <2>6 DEF PairsWhole, Renaming, EpairAt
  <2> QED
    BY <1>3, <2>2, <2>7 DEF EpairInv
<1>5. CASE UNCHANGED names /\ split' = TRUE
  <2>1. EpairTypes'
    BY <1>1, <1>5 DEF EpairTypes, EpairAt, EpairRecord, EpairSteps
  <2> QED
    BY <1>3, <1>5, <2>1 DEF EpairInv, PairsWhole
<1> QED
  BY <1>4, <1>5 DEF renameBack

LEMMA SettleEpairInv ==
  ASSUME EpairInv, SettleEpair
  PROVE  EpairInv'
<1>1. /\ names' = names /\ taken' = taken /\ split' = split /\ epair.step = "settle"
      /\ epair \in EpairRecord
      /\ \/ epair' = [epair EXCEPT !.step = "idle"]
         \/ epair' = [epair EXCEPT !.step = "idle", !.ok = FALSE]
  BY DEF SettleEpair, EpairGo, EpairThrow, EpairAt, EpairInv, EpairTypes
<1>2. EpairTypes'
  BY <1>1 DEF EpairTypes, EpairAt, EpairRecord, EpairSteps, EpairInv
<1>3. PairsWhole'
  BY <1>1 DEF PairsWhole, Renaming, EpairAt, Whole, Has, EpairRecord, EpairInv
<1>4. PairMade'
  BY <1>1 DEF PairMade, EpairAt, Has, EpairRecord, Wanted, EpairInv
<1> QED
  BY <1>2, <1>3, <1>4 DEF EpairInv

LEMMA EpairOthersInv ==
  ASSUME EpairInv, EpairOthers
  PROVE  EpairInv'
<1> PICK w, m : w = epair.base /\ m = epair.made
  OBVIOUS
<1>1. /\ split' = split /\ epair \in EpairRecord
      /\ epair' = [epair EXCEPT !.touched = TRUE]
  BY DEF EpairOthers, EpairInv, EpairTypes
<1>2. /\ epair'.step = epair.step /\ epair'.base = w /\ epair'.made = m
      /\ epair'.okA = epair.okA /\ epair'.touched = TRUE /\ epair' \in EpairRecord
  BY <1>1 DEF EpairRecord
<1>3. EpairTypes'
  BY <1>1, <1>2 DEF EpairTypes, EpairAt, EpairInv
<1>4. PairMade'
  BY <1>2 DEF PairMade
<1>5. CASE UNCHANGED names
  <2>1. PairsWhole'
    BY <1>1, <1>2, <1>5 DEF PairsWhole, Renaming, EpairAt, Whole, Has, BetweenNames, EpairInv
  <2> QED
    BY <1>3, <1>4, <2>1 DEF EpairInv
<1>6. ASSUME NEW b \in AllBases, Pair(b) \subseteq names, names' = names \ Pair(b)
      PROVE  EpairInv'
  <2>1. /\ Has(b, "a") /\ Has(b, "b")
        /\ \A h : h \in names' <=> h \in names /\ h # Half(b, "a") /\ h # Half(b, "b")
    BY <1>6 DEF Has, Pair
  <2>2. \A c, t : c # b => Has(c, t)' = Has(c, t)
    BY <2>1, HalfInjective DEF Has
  <2>3. ~Has(b, "a")' /\ ~Has(b, "b")'
    BY <2>1 DEF Has
  <2>4. \A c : Whole(c) => Whole(c)'
    BY <2>2, <2>3 DEF Whole
  <2>5. BetweenNames => BetweenNames'
    BY <1>2, <2>1, <2>2 DEF BetweenNames
  <2>6. PairsWhole'
    BY <1>1, <1>2, <2>4, <2>5 DEF PairsWhole, Renaming, EpairAt, EpairInv
  <2> QED
    BY <1>3, <1>4, <2>6 DEF EpairInv
<1>7. ASSUME Renaming, HalfRenamed \subseteq names, names' = names \ HalfRenamed
      PROVE  EpairInv'
  <2>1. /\ w \in Bases /\ m \in KernelBases /\ w # m
    BY <1>7, BasesAssumption DEF Renaming, EpairInv, EpairTypes, EpairAt
  <2>2. /\ Has(w, "a") /\ Has(m, "b")
        /\ \A h : h \in names' <=> h \in names /\ h # Half(w, "a") /\ h # Half(m, "b")
    BY <1>7 DEF Has, HalfRenamed, Wanted, Made
  <2>3. \A c, t : c # w /\ c # m => Has(c, t)' = Has(c, t)
    BY <2>2, HalfInjective DEF Has
  <2>4. /\ Has(w, "b")' = Has(w, "b") /\ Has(m, "a")' = Has(m, "a")
        /\ ~Has(w, "a")' /\ ~Has(m, "b")'
    BY <2>1, <2>2, HalfInjective DEF Has
  <2>5. BetweenNames => BetweenNames'
    BY <1>2, <2>2, <2>4 DEF BetweenNames
  <2>6. \A c : c # w /\ c # m /\ Whole(c) => Whole(c)'
    BY <2>3 DEF Whole
  <2>7. PairsWhole'
    BY <1>1, <1>2, <1>7, <2>5, <2>6 DEF PairsWhole, Renaming, EpairAt, EpairInv
  <2> QED
    BY <1>3, <1>4, <2>7 DEF EpairInv
<1> QED
  BY <1>5, <1>6, <1>7 DEF EpairOthers, Pairs, Renaming, AllBases

LEMMA EpairUnchanged ==
  ASSUME EpairInv, UNCHANGED epairVars
  PROVE  EpairInv'
BY DEF epairVars, EpairInv, EpairTypes, PairsWhole, PairMade, EpairAt, Whole, Has, Renaming,
       BetweenNames, Wanted

LEMMA EpairStepInv ==
  ASSUME EpairInv, [DevicesNext]_deviceVars
  PROVE  EpairInv'
<1>1. CASE UNCHANGED epairVars
  BY <1>1, EpairUnchanged
<1>2. CASE EpairNext
  BY <1>2, SaveEpairInv, CreateEpairInv, RenameAInv, RenameBInv, RenameBackInv, SettleEpairInv,
     EpairOthersInv DEF EpairNext
<1> QED
  BY <1>1, <1>2 DEF DevicesNext, deviceVars

LEMMA EpairByInv == EpairInv => HalvesTogether
<1> SUFFICES ASSUME EpairInv, EpairAt("idle") PROVE HalvesTogether
  BY DEF HalvesTogether
<1>1. ~split => \A b \in AllBases : Whole(b)
  BY DEF EpairInv, PairsWhole, Renaming, EpairAt
<1>2. ~split => \A b \in AllBases : Pair(b) \subseteq names \/ Pair(b) \cap names = {}
  BY <1>1, PairHalves DEF Whole
<1>3. epair.ok /\ ~epair.touched /\ ~split /\ epair.base # NoBase =>
        Pair(epair.base) \subseteq names \/ Wanted(epair.half) \in taken
  BY PairHalves DEF EpairInv, PairMade
<1> QED
  BY <1>2, <1>3 DEF HalvesTogether, AllBases

\* For any names asked for and any names the kernel gives: when no command runs
\* the halves of each epair are under one name, unless a second half was renamed
\* although the first was not, or a first half could not get its name back
\* (CreateEpair).
THEOREM HalvesStayTogether == DevicesSpec => []HalvesTogether
<1>1. DevicesInit => EpairInv
  BY EpairInitInv DEF DevicesInit
<1>2. EpairInv /\ [DevicesNext]_deviceVars => EpairInv'
  BY EpairStepInv
<1> QED
  BY <1>1, <1>2, EpairByInv, PTL DEF DevicesSpec

-----------------------------------------------------------------------------
(* ipsec                                                                   *)

IpsecSteps == {"create", "endpoints", "reqid", "sa", "sp", "idle"}
IpsecRecord ==
  [step : IpsecSteps, cmd : SUBSET IpsecWords, fib : TunnelFibs \cup {0},
   ok : BOOLEAN, disturbed : BOOLEAN]

\* What is so of a command that nobody disturbed, as far as it got.
Sofar(w) ==
  /\ tunnel.fib = ipsec.fib
  /\ ~At("create") => tunnel.exists
  /\ ~At("create") /\ ~At("endpoints") /\ HasEndpoints(w) =>
       w.src = w.dst /\ (w.src = {"inet"} => tunnel.endpoints)
  /\ (At("sa") \/ At("sp") \/ At("idle")) /\ w.reqid => tunnel.reqid
  /\ At("sp") \/ At("idle") => w.sa \subseteq sad
  /\ At("idle") => w.sp \subseteq spd /\ (w.sp # {} => w.src = {"inet"})

TunnelRecord == [exists : BOOLEAN, endpoints : BOOLEAN, fib : TunnelFibs \cup {0},
                 reqid : BOOLEAN]
IpsecTypes ==
  /\ ipsec \in IpsecRecord /\ tunnel \in TunnelRecord
  /\ ~tunnel.exists => tunnel.fib = 0
  /\ ~At("idle") => ipsec.ok /\ \E w \in IpsecWords : ipsec.cmd = {w}
IpsecInv ==
  /\ IpsecTypes
  /\ ipsec.ok /\ ~ipsec.disturbed => \A w \in ipsec.cmd : Sofar(w)

LEMMA CmdOf ==
  ASSUME NEW w, ipsec.cmd = {w}
  PROVE  Cmd = w
BY DEF Cmd

LEMMA IpsecInitInv == IpsecInit => IpsecInv
<1> SUFFICES ASSUME IpsecInit PROVE IpsecInv
  OBVIOUS
<1>1. tunnel = TunnelInit /\ ipsec = IdleIpsec
  BY DEF IpsecInit
<1>2. tunnel \in TunnelRecord /\ tunnel.fib = 0
  BY <1>1 DEF TunnelInit, TunnelRecord
<1>3. ipsec \in IpsecRecord /\ ipsec.step = "idle" /\ ipsec.cmd = {}
  BY <1>1 DEF IdleIpsec, IpsecRecord, IpsecSteps
<1> QED
  BY <1>2, <1>3 DEF IpsecInv, IpsecTypes, At

LEMMA StartIpsecInv ==
  ASSUME IpsecInv, NEW w \in IpsecWords, StartIpsec(w)
  PROVE  IpsecInv'
<1>1. /\ tunnel' = tunnel
      /\ ipsec' = [step |-> "create", cmd |-> {w}, fib |-> tunnel.fib, ok |-> TRUE,
                   disturbed |-> FALSE]
  BY DEF StartIpsec
<1>3. tunnel.fib \in TunnelFibs \cup {0}
  BY DEF IpsecInv, IpsecTypes, TunnelRecord
<1>2. /\ ipsec' \in IpsecRecord /\ ipsec'.step = "create" /\ ipsec'.cmd = {w}
      /\ ipsec'.ok /\ ipsec'.fib = tunnel.fib
  BY <1>1, <1>3 DEF IpsecRecord, IpsecSteps
<1> QED
  BY <1>1, <1>2 DEF IpsecInv, IpsecTypes, Sofar, At

\* A step of the command w that goes on to another, that throws, or that is
\* disturbed.
LEMMA IpsecGoes ==
  ASSUME IpsecInv, ~At("idle"), NEW w, ipsec.cmd = {w},
         tunnel' \in TunnelRecord, ~tunnel'.exists => tunnel'.fib = 0,
         \/ /\ \E s \in IpsecSteps : Go(s)
            /\ ipsec.ok /\ ~ipsec.disturbed => Sofar(w)'
         \/ Throw
         \/ \E s \in IpsecSteps : ipsec' = Disturbed([ipsec EXCEPT !.step = s])
  PROVE  IpsecInv'
<1>1. ipsec \in IpsecRecord /\ ipsec.ok /\ w \in IpsecWords
  BY DEF IpsecInv, IpsecTypes
<1>2. CASE Throw
  <2>1. ipsec' \in IpsecRecord /\ ipsec'.step = "idle" /\ ~ipsec'.ok
    BY <1>1, <1>2 DEF Throw, IpsecRecord, IpsecSteps
  <2> QED
    BY <2>1 DEF IpsecInv, IpsecTypes, At
<1>3. ASSUME NEW s \in IpsecSteps, ipsec' = Disturbed([ipsec EXCEPT !.step = s])
      PROVE  IpsecInv'
  <2>1. ipsec' \in IpsecRecord /\ ipsec'.disturbed /\ ipsec'.cmd = {w} /\ ipsec'.ok
    BY <1>1, <1>3 DEF Disturbed, IpsecRecord
  <2> QED
    BY <1>1, <2>1 DEF IpsecInv, IpsecTypes, At
<1>4. ASSUME NEW s \in IpsecSteps, Go(s), ipsec.ok /\ ~ipsec.disturbed => Sofar(w)'
      PROVE  IpsecInv'
  <2>1. /\ ipsec' \in IpsecRecord /\ ipsec'.disturbed = ipsec.disturbed
        /\ ipsec'.cmd = {w} /\ ipsec'.ok
    BY <1>1, <1>4 DEF Go, IpsecRecord
  <2> QED
    BY <1>1, <1>4, <2>1 DEF IpsecInv, IpsecTypes
<1> QED
  BY <1>2, <1>3, <1>4

\* The command under way, and what has been done of it.
LEMMA Underway ==
  ASSUME IpsecInv, ~At("idle")
  PROVE  \E w \in IpsecWords :
           /\ ipsec.cmd = {w} /\ Cmd = w
           /\ ipsec.ok /\ ~ipsec.disturbed => Sofar(w)
BY CmdOf DEF IpsecInv, IpsecTypes

LEMMA GoStep ==
  ASSUME IpsecInv, NEW s \in IpsecSteps, Go(s)
  PROVE  ipsec'.step = s /\ ipsec'.fib = ipsec.fib
BY DEF IpsecInv, IpsecTypes, IpsecRecord, Go

LEMMA SaveIpsecInv ==
  ASSUME IpsecInv, SaveIpsec
  PROVE  IpsecInv'
<1>1. ipsec.step = "create" /\ ~At("idle") /\ tunnel \in TunnelRecord
  BY DEF SaveIpsec, At, IpsecInv, IpsecTypes
<1>2. PICK w \in IpsecWords :
        ipsec.cmd = {w} /\ (ipsec.ok /\ ~ipsec.disturbed => Sofar(w))
  BY <1>1, Underway
<1>6. ~tunnel.exists => tunnel.fib = 0
  BY DEF IpsecInv, IpsecTypes
<1>3. \/ tunnel'.exists /\ Go("endpoints")
      \/ Throw
  BY <1>1 DEF SaveIpsec, TunnelInit, TunnelRecord
<1>4. tunnel' \in TunnelRecord /\ tunnel'.fib = tunnel.fib /\ (~tunnel'.exists => tunnel'.fib = 0)
  <2>1. CASE ~tunnel.exists /\ tunnel' = [TunnelInit EXCEPT !.exists = TRUE]
    BY <1>6, <2>1 DEF TunnelInit, TunnelRecord
  <2>2. CASE tunnel' = tunnel
    BY <1>1, <1>6, <2>2
  <2> QED
    BY <2>1, <2>2 DEF SaveIpsec
<1>5. /\ tunnel'.exists /\ tunnel'.fib = tunnel.fib
      /\ Go("endpoints") /\ tunnel.fib = ipsec.fib
      => Sofar(w)'
  BY GoStep DEF Sofar, At, IpsecSteps
<1>7. ipsec.ok /\ ~ipsec.disturbed => tunnel.fib = ipsec.fib
  BY <1>2 DEF Sofar
<1> QED
  BY <1>1, <1>2, <1>3, <1>4, <1>5, <1>7, IpsecGoes DEF IpsecSteps

LEMMA SetEndpointsInv ==
  ASSUME IpsecInv, SetEndpoints
  PROVE  IpsecInv'
<1>1. ipsec.step = "endpoints" /\ ~At("idle") /\ tunnel \in TunnelRecord
  BY DEF SetEndpoints, At, IpsecInv, IpsecTypes
<1>2. PICK w \in IpsecWords :
        ipsec.cmd = {w} /\ Cmd = w /\ (ipsec.ok /\ ~ipsec.disturbed => Sofar(w))
  BY <1>1, Underway
<1>3. \/ /\ Go("reqid") /\ tunnel' \in TunnelRecord /\ tunnel'.exists = tunnel.exists
         /\ tunnel'.fib = tunnel.fib
         /\ HasEndpoints(w) => w.src = w.dst /\ (w.src = {"inet"} => tunnel'.endpoints)
      \/ Throw /\ tunnel' = tunnel
  <2>1. CASE UNCHANGED tunnel
    BY <1>1, <1>2, <2>1 DEF SetEndpoints, TunnelRecord
  <2>2. CASE tunnel' = [tunnel EXCEPT !.endpoints = TRUE]
    BY <1>1, <1>2, <2>2 DEF SetEndpoints, TunnelRecord
  <2> QED
    BY <2>1, <2>2 DEF SetEndpoints
<1>4. ipsec.ok /\ ~ipsec.disturbed => tunnel.exists /\ tunnel.fib = ipsec.fib
  BY <1>1, <1>2 DEF Sofar, At
<1>6. ~tunnel.exists => tunnel.fib = 0
  BY DEF IpsecInv, IpsecTypes
<1>5. /\ Go("reqid") /\ tunnel'.exists /\ tunnel'.fib = ipsec.fib
      /\ HasEndpoints(w) => w.src = w.dst /\ (w.src = {"inet"} => tunnel'.endpoints)
      => Sofar(w)'
  BY GoStep DEF Sofar, At, IpsecSteps, HasEndpoints
<1> QED
  BY <1>1, <1>2, <1>3, <1>4, <1>5, <1>6, IpsecGoes DEF IpsecSteps

LEMMA SetReqidInv ==
  ASSUME IpsecInv, setIpsecReqid
  PROVE  IpsecInv'
<1>1. ipsec.step = "reqid" /\ ~At("idle") /\ tunnel \in TunnelRecord
  BY DEF setIpsecReqid, At, IpsecInv, IpsecTypes
<1>2. PICK w \in IpsecWords :
        ipsec.cmd = {w} /\ Cmd = w /\ (ipsec.ok /\ ~ipsec.disturbed => Sofar(w))
  BY <1>1, Underway
<1>3. \/ /\ Go("sa") /\ tunnel' \in TunnelRecord /\ tunnel'.exists = tunnel.exists
         /\ tunnel'.fib = tunnel.fib
         /\ tunnel'.endpoints = tunnel.endpoints /\ (w.reqid => tunnel'.reqid)
      \/ Throw /\ tunnel' = tunnel
  BY <1>1, <1>2 DEF setIpsecReqid, TunnelRecord
<1>4. ipsec.ok /\ ~ipsec.disturbed =>
        /\ tunnel.exists /\ tunnel.fib = ipsec.fib
        /\ HasEndpoints(w) => w.src = w.dst /\ (w.src = {"inet"} => tunnel.endpoints)
  BY <1>1, <1>2 DEF Sofar, At
<1>6. ~tunnel.exists => tunnel.fib = 0
  BY DEF IpsecInv, IpsecTypes
<1>5. /\ Go("sa") /\ tunnel'.exists /\ tunnel'.fib = ipsec.fib /\ (w.reqid => tunnel'.reqid)
      /\ HasEndpoints(w) => w.src = w.dst /\ (w.src = {"inet"} => tunnel'.endpoints)
      => Sofar(w)'
  BY GoStep DEF Sofar, At, IpsecSteps, HasEndpoints
<1> QED
  BY <1>1, <1>2, <1>3, <1>4, <1>5, <1>6, IpsecGoes DEF IpsecSteps

LEMMA AddSAInv ==
  ASSUME IpsecInv, pfkeyAddSA, \A v \in IpsecWords : \A a, b \in v.sa : a = b
  PROVE  IpsecInv'
<1>1. ipsec.step = "sa" /\ ~At("idle") /\ tunnel' = tunnel /\ tunnel \in TunnelRecord
  BY DEF pfkeyAddSA, At, IpsecInv, IpsecTypes
<1>2. PICK w \in IpsecWords :
        ipsec.cmd = {w} /\ Cmd = w /\ (ipsec.ok /\ ~ipsec.disturbed => Sofar(w))
  BY <1>1, Underway
<1>3. \/ Go("sp") /\ w.sa \subseteq sad'
      \/ Throw
      \/ ipsec' = Disturbed([ipsec EXCEPT !.step = "sp"])
  BY <1>2 DEF pfkeyAddSA
<1>4. Go("sp") /\ w.sa \subseteq sad' /\ Sofar(w) => Sofar(w)'
  BY <1>1, GoStep DEF Sofar, At, IpsecSteps, HasEndpoints
<1>6. ~tunnel.exists => tunnel.fib = 0
  BY DEF IpsecInv, IpsecTypes
<1> QED
  BY <1>1, <1>2, <1>3, <1>4, <1>6, IpsecGoes DEF IpsecSteps

LEMMA AddSPInv ==
  ASSUME IpsecInv, pfkeyAddSP, \A v \in IpsecWords : \A a, b \in v.sp : a = b
  PROVE  IpsecInv'
<1>1. /\ ipsec.step = "sp" /\ ~At("idle") /\ tunnel' = tunnel /\ tunnel \in TunnelRecord
      /\ sad' = sad
  BY DEF pfkeyAddSP, At, IpsecInv, IpsecTypes
<1>2. PICK w \in IpsecWords :
        ipsec.cmd = {w} /\ Cmd = w /\ (ipsec.ok /\ ~ipsec.disturbed => Sofar(w))
  BY <1>1, Underway
<1>3. \/ Go("idle") /\ w.sp \subseteq spd' /\ (w.sp # {} => w.src = {"inet"})
      \/ Throw
      \/ ipsec' = Disturbed([ipsec EXCEPT !.step = "idle"])
  BY <1>2 DEF pfkeyAddSP
<1>4. Go("idle") /\ w.sp \subseteq spd' /\ (w.sp # {} => w.src = {"inet"}) /\ Sofar(w)
        => Sofar(w)'
  BY <1>1, GoStep DEF Sofar, At, IpsecSteps, HasEndpoints
<1>6. ~tunnel.exists => tunnel.fib = 0
  BY DEF IpsecInv, IpsecTypes
<1> QED
  BY <1>1, <1>2, <1>3, <1>4, <1>6, IpsecGoes DEF IpsecSteps

LEMMA IpsecOthersInv ==
  ASSUME IpsecInv, IpsecOthers
  PROVE  IpsecInv'
<1>1. ipsec \in IpsecRecord /\ ipsec' = [ipsec EXCEPT !.disturbed = TRUE]
  BY DEF IpsecOthers, IpsecInv, IpsecTypes
<1>2. /\ ipsec' \in IpsecRecord /\ ipsec'.disturbed /\ ipsec'.step = ipsec.step
      /\ ipsec'.cmd = ipsec.cmd /\ ipsec'.ok = ipsec.ok
  BY <1>1 DEF IpsecRecord
<1>4. /\ tunnel \in TunnelRecord /\ TunnelInit \in TunnelRecord /\ TunnelInit.fib = 0
      /\ ~tunnel.exists => tunnel.fib = 0
  BY DEF TunnelInit, TunnelRecord, IpsecInv, IpsecTypes
<1>3. tunnel' \in TunnelRecord /\ (~tunnel'.exists => tunnel'.fib = 0)
  BY <1>4 DEF IpsecOthers, TunnelRecord
<1> QED
  BY <1>2, <1>3 DEF IpsecInv, IpsecTypes, At

LEMMA IpsecUnchanged ==
  ASSUME IpsecInv, UNCHANGED ipsecVars
  PROVE  IpsecInv'
BY DEF ipsecVars, IpsecInv, IpsecTypes, Sofar, At, HasEndpoints

\* A command names one association and one policy at most.
LEMMA OneOfEach ==
  \A v \in IpsecWords : (\A a, b \in v.sa : a = b) /\ (\A a, b \in v.sp : a = b)
<1> SUFFICES ASSUME NEW v \in IpsecWords
             PROVE  (\A a, b \in v.sa : a = b) /\ (\A a, b \in v.sp : a = b)
  OBVIOUS
<1>1. /\ v.sa \in AtMostOne({Association(i, k) : i \in Spis, k \in Keys})
      /\ v.sp \in AtMostOne(Directions)
  BY DEF IpsecWords
<1> QED
  BY <1>1 DEF AtMostOne

LEMMA IpsecStepInv ==
  ASSUME IpsecInv, [DevicesNext]_deviceVars
  PROVE  IpsecInv'
<1>1. CASE UNCHANGED ipsecVars
  BY <1>1, IpsecUnchanged
<1>2. CASE IpsecNext
  BY <1>2, StartIpsecInv, SaveIpsecInv, SetEndpointsInv, SetReqidInv, AddSAInv, AddSPInv,
     IpsecOthersInv, OneOfEach DEF IpsecNext
<1> QED
  BY <1>1, <1>2 DEF DevicesNext, deviceVars

\* The steps in their order.
LEMMA PastSteps ==
  /\ Past("create") => ipsec.ok /\ ~At("create")
  /\ Past("endpoints") => ipsec.ok /\ ~At("create") /\ ~At("endpoints")
  /\ Past("reqid") => ipsec.ok /\ (At("sa") \/ At("sp") \/ At("idle"))
  /\ Past("sa") => ipsec.ok /\ (At("sp") \/ At("idle"))
  /\ Past("sp") => ipsec.ok /\ At("idle")
BY DEF Past, Steps, At

LEMMA IpsecByInv == IpsecInv => IpsecAsTold
<1> SUFFICES ASSUME IpsecInv, NEW w \in ipsec.cmd, ~ipsec.disturbed
             PROVE  /\ Past("create") => tunnel.exists /\ tunnel.fib = ipsec.fib
                    /\ Past("endpoints") /\ HasEndpoints(w) =>
                         w.src = w.dst /\ (w.src = {"inet"} => tunnel.endpoints)
                    /\ Past("reqid") /\ w.reqid => tunnel.reqid
                    /\ Past("sa") => w.sa \subseteq sad
                    /\ Past("sp") => w.sp \subseteq spd /\ (w.sp # {} => w.src = {"inet"})
  BY DEF IpsecAsTold
<1>1. ipsec.ok => Sofar(w)
  BY DEF IpsecInv
<1> QED
  BY <1>1, PastSteps DEF Sofar

\* For any identifiers, keys and directions: what is so far undisturbed of a
\* command that has not failed is as the command says; what an ipsec command
\* reports as done is done, all but tunnel-vrf, which is reported and never done:
\* the tunnel's table is the one it had (SaveIpsec, pfkeyAddSA, pfkeyAddSP).
THEOREM IpsecDoesAsTold == DevicesSpec => []IpsecAsTold
<1>1. DevicesInit => IpsecInv
  BY IpsecInitInv DEF DevicesInit
<1>2. IpsecInv /\ [DevicesNext]_deviceVars => IpsecInv'
  BY IpsecStepInv
<1> QED
  BY <1>1, <1>2, IpsecByInv, PTL DEF DevicesSpec

-----------------------------------------------------------------------------
(* wlan                                                                    *)

\* Which query reads the settings that have to do with one another.
LEMMA QueriesAt ==
  /\ Len(Queries) = 29 /\ DOMAIN Queries = 1..29
  /\ \A i \in 1..29 :
       /\ Queries[i].sets = "ssid" <=> i = 1
       /\ Queries[i].sets = "bssid" <=> i = 4
       /\ Queries[i].sets = "status" <=> i = 11
       /\ Queries[i].sets = "cipher" <=> i = 15
BY DEF Queries, Query, AssociationQueries, CapabilityQueries, CipherQueries, ParameterQueries,
       RadioQueries, MediaQueries

LEMMA QueryKinds ==
  /\ Queries[11].kind = "STATUS" /\ Queries[15].kind = "WPAKEY"
  /\ Queries[2].sets = "channel" /\ Queries[29].sets = "media_mode"
BY DEF Queries, Query, AssociationQueries, CapabilityQueries, CipherQueries, ParameterQueries,
       RadioQueries, MediaQueries

LEMMA SettingsOf ==
  /\ \A i \in 1..29 : Queries[i].sets \in Settings
  /\ {"ssid", "bssid", "status", "cipher", "channel", "media_mode"} \subseteq Settings
<1>1. \A i \in 1..29 : Queries[i].sets \in Settings
  BY QueriesAt DEF Settings
<1> QED
  BY <1>1, QueriesAt, QueryKinds

\* The key is asked for after the address of the station, and the SSID is known
\* before "associated" is concluded from it; until then there is none of either.
WlanInv ==
  /\ air \subseteq Stations
  /\ reading \in [next : 0..29, of : [Settings -> SUBSET Stations], roams : Nat]
  /\ reading.next \in 1..15 => reading.of["cipher"] = {}
  /\ reading.next \in 1..11 => reading.of["status"] = {}
  /\ ReadingOfOneStation

LEMMA OneStation ==
  ASSUME NEW A \in AtMostOne(Stations) PROVE A \subseteq Stations
BY DEF AtMostOne

LEMMA NothingRead ==
  /\ NotRead \in [Settings -> SUBSET Stations]
  /\ NotRead["cipher"] = {} /\ NotRead["status"] = {}
BY SettingsOf DEF NotRead

LEMMA WlanInitInv == WlanInit => WlanInv
BY OneStation, NothingRead DEF WlanInit, WlanInv, ReadingOfOneStation

LEMMA StartReadingInv ==
  ASSUME WlanInv, StartReading
  PROVE  WlanInv'
BY NothingRead DEF WlanInv, StartReading, ReadingOfOneStation

LEMMA RoamInv ==
  ASSUME WlanInv, Roam
  PROVE  WlanInv'
<1>1. /\ air' \subseteq Stations
      /\ reading' = [reading EXCEPT !.roams = @ + 1]
  BY OneStation DEF Roam
<1>2. /\ reading' \in [next : 0..29, of : [Settings -> SUBSET Stations], roams : Nat]
      /\ reading'.next = reading.next /\ reading'.of = reading.of
  BY <1>1 DEF WlanInv
<1> QED
  BY <1>1, <1>2 DEF WlanInv, ReadingOfOneStation

LEMMA ReadSettingInv ==
  ASSUME WlanInv, ReadSetting
  PROVE  WlanInv'
<1> PICK i, f : i = reading.next /\ f = reading.of
  OBVIOUS
<1> DEFINE g == Queries[i].sets
           new == Answer(Queries[i])
<1>1. /\ i \in 1..29 /\ f \in [Settings -> SUBSET Stations]
      /\ air \subseteq Stations /\ air' = air /\ driver' = driver
  BY QueriesAt DEF WlanInv, ReadSetting
<1>2. new \in SUBSET Stations
  BY <1>1, SettingsOf DEF Answer
<1>3. /\ i = 11 => new = f["ssid"]
      /\ i = 15 => new \subseteq f["bssid"]
  BY QueryKinds DEF Answer
<1>4. i = 11 => Queries[i].kind \in driver \cup {"STATUS"}
  BY QueryKinds
<1>5. /\ reading'.next = IF i = 29 THEN 0 ELSE i + 1
      /\ reading'.of = IF Queries[i].kind \in driver \cup {"STATUS"}
                       THEN [f EXCEPT ![g] = new] ELSE f
      /\ reading' \in [next : 0..29, of : [Settings -> SUBSET Stations], roams : Nat]
  <2> HIDE DEF g, new
  <2>1. reading' = [reading EXCEPT
          !.next = (@ + 1) % 30,
          !.of = IF Queries[i].kind \in driver \cup {"STATUS"}
                 THEN [@ EXCEPT ![g] = new] ELSE @]
    BY QueriesAt DEF ReadSetting, g, new
  <2>2. (i + 1) % 30 = IF i = 29 THEN 0 ELSE i + 1
    BY <1>1
  <2>3. [f EXCEPT ![g] = new] \in [Settings -> SUBSET Stations]
    BY <1>1, <1>2
  <2>4. reading \in [next : 0..29, of : [Settings -> SUBSET Stations], roams : Nat]
    BY DEF WlanInv
  <2> PICK h : h = IF Queries[i].kind \in driver \cup {"STATUS"}
                   THEN [f EXCEPT ![g] = new] ELSE f
    OBVIOUS
  <2>5. h \in [Settings -> SUBSET Stations]
    BY <1>1, <2>3
  <2>6. reading' = [reading EXCEPT !.next = IF i = 29 THEN 0 ELSE i + 1, !.of = h]
    BY <2>1, <2>2
  <2>7. (IF i = 29 THEN 0 ELSE i + 1) \in 0..29
    BY <1>1
  <2> QED
    BY <2>4, <2>5, <2>6, <2>7
<1>6. /\ g = "ssid" <=> i = 1
      /\ g = "bssid" <=> i = 4
      /\ g = "status" <=> i = 11
      /\ g = "cipher" <=> i = 15
  BY <1>1, QueriesAt
<1>7. /\ i \in 1..15 => f["cipher"] = {}
      /\ i \in 1..11 => f["status"] = {}
      /\ f["cipher"] \subseteq f["bssid"] /\ f["status"] \subseteq f["ssid"]
  BY DEF WlanInv, ReadingOfOneStation
<1> HIDE DEF g, new
<1>8. /\ i # 1 => reading'.of["ssid"] = f["ssid"]
      /\ i # 4 => reading'.of["bssid"] = f["bssid"]
      /\ i # 11 => reading'.of["status"] = f["status"]
      /\ i # 15 => reading'.of["cipher"] = f["cipher"]
      /\ i = 11 => reading'.of["status"] = new
      /\ i = 15 => reading'.of["cipher"] \in {new, f["cipher"]}
  BY <1>1, <1>4, <1>5, <1>6, SettingsOf
<1>9. /\ reading'.next \in 1..15 => reading'.of["cipher"] = {}
      /\ reading'.next \in 1..11 => reading'.of["status"] = {}
  BY <1>1, <1>5, <1>7, <1>8
<1>10. ReadingOfOneStation'
  <2>1. reading'.of["cipher"] \subseteq reading'.of["bssid"]
    BY <1>1, <1>3, <1>7, <1>8
  <2>2. reading'.of["status"] \subseteq reading'.of["ssid"]
    BY <1>1, <1>3, <1>7, <1>8
  <2> QED
    BY <2>1, <2>2 DEF ReadingOfOneStation
<1> QED
  BY <1>1, <1>5, <1>9, <1>10 DEF WlanInv

LEMMA WlanStepInv ==
  ASSUME WlanInv, [DevicesNext]_deviceVars
  PROVE  WlanInv'
<1>1. CASE UNCHANGED wlanVars
  BY <1>1 DEF wlanVars, WlanInv, ReadingOfOneStation
<1>2. CASE WlanNext
  BY <1>2, StartReadingInv, ReadSettingInv, RoamInv DEF WlanNext
<1> QED
  BY <1>1, <1>2 DEF DevicesNext, deviceVars

\* For any stations and drivers, and any change of station between two queries:
\* the cipher shown is one of the station shown (populateWlanMetadata).
THEOREM OneStationIsRead == DevicesSpec => []ReadingOfOneStation
<1>1. DevicesInit => WlanInv
  BY WlanInitInv DEF DevicesInit
<1>2. WlanInv /\ [DevicesNext]_deviceVars => WlanInv'
  BY WlanStepInv
<1>3. WlanInv => ReadingOfOneStation
  BY DEF WlanInv
<1> QED
  BY <1>1, <1>2, <1>3, PTL DEF DevicesSpec

-----------------------------------------------------------------------------
(* The types                                                               *)

\* No two associations have one identifier, and the kernel has no other policies
\* than those of its directions.
KernelDatabases ==
  /\ \A a, b \in sad : a.spi = b.spi => a = b
  /\ spd \subseteq {"in", "out"}

LEMMA DatabasesStep ==
  ASSUME KernelDatabases, [DevicesNext]_deviceVars
  PROVE  KernelDatabases'
<1>1. CASE UNCHANGED <<sad, spd>>
  BY <1>1 DEF KernelDatabases
<1>2. CASE pfkeyAddSA
  BY <1>2 DEF pfkeyAddSA, KernelDatabases
<1>3. CASE pfkeyAddSP
  BY <1>3 DEF pfkeyAddSP, KnownDirection, KernelDatabases
<1>4. CASE IpsecOthers
  BY <1>4 DEF IpsecOthers, KernelDatabases
<1>5. IpsecNext => UNCHANGED <<sad, spd>> \/ pfkeyAddSA \/ pfkeyAddSP \/ IpsecOthers
  BY DEF IpsecNext, StartIpsec, SaveIpsec, SetEndpoints, setIpsecReqid
<1> QED
  BY <1>1, <1>2, <1>3, <1>4, <1>5 DEF DevicesNext, deviceVars, ipsecVars

\* A name is that of a half or of another interface.
NamesApart == names \cap taken = {}

LEMMA RenamedApart ==
  ASSUME NamesApart, NEW x, NEW y, Rename(x, y), UNCHANGED taken
  PROVE  NamesApart'
BY DEF NamesApart, Rename, Free

LEMMA NamesStep ==
  ASSUME NamesApart, [DevicesNext]_deviceVars
  PROVE  NamesApart'
<1>1. CASE UNCHANGED <<names, taken>>
  BY <1>1 DEF NamesApart
<1>2. CASE CreateEpair
  BY <1>2 DEF CreateEpair, Free, NamesApart
<1>3. CASE renameA \/ renameB \/ renameBack
  <2>1. UNCHANGED taken
    BY <1>3 DEF renameA, renameB, renameBack
  <2>2. (\E x, y : Rename(x, y)) \/ UNCHANGED names
    BY <1>3 DEF renameA, renameB, renameBack
  <2> QED
    BY <1>1, <2>1, <2>2, RenamedApart
<1>4. CASE EpairOthers
  BY <1>4 DEF EpairOthers, Free, NamesApart
<1>5. EpairNext =>
        \/ UNCHANGED <<names, taken>>
        \/ CreateEpair \/ renameA \/ renameB \/ renameBack \/ EpairOthers
  BY DEF EpairNext, SaveEpair, SettleEpair
<1> QED
  BY <1>1, <1>2, <1>3, <1>4, <1>5 DEF DevicesNext, deviceVars, epairVars

\* Every setting was read from one station, or from none.
OneStationEach ==
  /\ air \in AtMostOne(Stations)
  /\ \A f \in Settings : reading.of[f] \in AtMostOne(Stations)

LEMMA NoMoreThanOne ==
  ASSUME NEW A \in AtMostOne(Stations), NEW B
  PROVE  B \cap A \in AtMostOne(Stations) /\ {} \in AtMostOne(Stations)
BY DEF AtMostOne

LEMMA StationsStep ==
  ASSUME WlanInv, OneStationEach, [DevicesNext]_deviceVars
  PROVE  OneStationEach'
<1>1. CASE UNCHANGED wlanVars
  BY <1>1 DEF wlanVars, OneStationEach
<1>2. CASE StartReading
  BY <1>2, NoMoreThanOne DEF StartReading, NotRead, OneStationEach
<1>3. CASE Roam
  BY <1>3 DEF Roam, OneStationEach, WlanInv
<1>4. CASE ReadSetting
  <2> PICK i, f : i = reading.next /\ f = reading.of
    OBVIOUS
  <2> DEFINE g == Queries[i].sets
             new == Answer(Queries[i])
  <2>1. i \in 1..29 /\ f \in [Settings -> SUBSET Stations] /\ air' = air
    BY <1>4, QueriesAt DEF WlanInv, ReadSetting
  <2>2. new \in AtMostOne(Stations)
    BY SettingsOf, NoMoreThanOne DEF Answer, OneStationEach
  <2> HIDE DEF g, new
  <2>3. PICK h : h = IF Queries[i].kind \in driver \cup {"STATUS"}
                     THEN [f EXCEPT ![g] = new] ELSE f
    OBVIOUS
  <2>4. reading' = [reading EXCEPT !.next = (@ + 1) % (Len(Queries) + 1), !.of = h]
    BY <1>4, <2>3 DEF ReadSetting, g, new
  <2>5. reading'.of = h
    BY <2>4 DEF WlanInv
  <2>6. \A x \in Settings : h[x] = new \/ h[x] = f[x]
    BY <2>1, <2>3
  <2> QED
    BY <2>1, <2>2, <2>5, <2>6 DEF OneStationEach
<1> QED
  BY <1>1, <1>2, <1>3, <1>4 DEF DevicesNext, deviceVars, WlanNext

DevicesInv ==
  EpairInv /\ IpsecInv /\ WlanInv /\ KernelDatabases /\ NamesApart /\ OneStationEach

LEMMA DevicesStart == DevicesInit => DevicesInv
<1>1. IpsecInit => KernelDatabases
  BY DEF IpsecInit, KernelDatabases
<1>2. EpairInit => NamesApart
  BY DEF EpairInit, NamesApart
<1>3. WlanInit => OneStationEach
  BY DEF WlanInit, NotRead, AtMostOne, OneStationEach
<1> QED
  BY <1>1, <1>2, <1>3, EpairInitInv, IpsecInitInv, WlanInitInv DEF DevicesInit, DevicesInv

LEMMA DevicesTypesByInv == DevicesInv => DevicesTypeOK
<1> SUFFICES ASSUME DevicesInv PROVE DevicesTypeOK
  OBVIOUS
<1>1. At("idle") \/ Cardinality(ipsec.cmd) = 1
  BY FS_Singleton DEF DevicesInv, IpsecInv, IpsecTypes
<1>2. EpairAt("idle") \/ epair.base \in Bases
  BY DEF DevicesInv, EpairInv, EpairTypes
<1>3. reading.next \in 0..Len(Queries)
  BY QueriesAt DEF DevicesInv, WlanInv
<1>4. epair.half \in {"a", "b"}
  BY DEF DevicesInv, EpairInv, EpairTypes, EpairRecord
<1> QED
  BY <1>1, <1>2, <1>3, <1>4
     DEF DevicesInv, KernelDatabases, NamesApart, OneStationEach, DevicesTypeOK

\* Whatever call fails and whatever others do: associations keep their
\* identifiers apart and interfaces their names, a command that runs is one
\* command, and a setting was read from one station at most (SaveIpsec,
\* CreateEpair, populateWlanMetadata).
THEOREM DevicesTypeCorrect == DevicesSpec => []DevicesTypeOK
<1>1. DevicesInv /\ [DevicesNext]_deviceVars => DevicesInv'
  BY EpairStepInv, IpsecStepInv, WlanStepInv, DatabasesStep, NamesStep, StationsStep
     DEF DevicesInv
<1> QED
  BY <1>1, DevicesStart, DevicesTypesByInv, PTL DEF DevicesSpec

-----------------------------------------------------------------------------
(* The whole backend                                                       *)

\* Whichever command is run, those about the tables and those about devices take
\* steps of their own or none.
THEOREM CommandsRunTheirParts == CommandsSpec => TablesSpec /\ DevicesSpec
<1>1. CommandsInit => TablesInit /\ DevicesInit
  BY DEF CommandsInit
<1>2. [CommandsNext]_commandVars => [TablesNext]_tableVars /\ [DevicesNext]_deviceVars
  <2>1. CASE subject = "routes" /\ RouteNext /\ UNCHANGED deviceVars
    BY <2>1 DEF TablesNext
  <2>2. CASE subject = "entries" /\ EntryNext /\ UNCHANGED deviceVars
    BY <2>2 DEF TablesNext
  <2>3. CASE IpsecNext /\ UNCHANGED <<tableVars, epairVars, wlanVars>>
    BY <2>3 DEF DevicesNext
  <2>4. CASE EpairNext /\ UNCHANGED <<tableVars, ipsecVars, wlanVars>>
    BY <2>4 DEF DevicesNext
  <2>5. CASE WlanNext /\ UNCHANGED <<tableVars, ipsecVars, epairVars>>
    BY <2>5 DEF DevicesNext
  <2>6. CASE UNCHANGED commandVars
    BY <2>6 DEF commandVars
  <2> QED
    BY <2>1, <2>2, <2>3, <2>4, <2>5, <2>6, Zenon DEF CommandsNext
<1> QED
  BY <1>1, <1>2, PTL DEF CommandsSpec, TablesSpec, DevicesSpec

\* In the whole backend, with any addresses, names and drivers, the variables
\* hold what their comments say.
THEOREM CommandsTypeCorrect == CommandsSpec => []CommandsTypeOK
<1>1. TablesTypeOK /\ DevicesTypeOK => CommandsTypeOK
  BY DEF CommandsTypeOK
<1> QED
  BY <1>1, TablesTypeCorrect, DevicesTypeCorrect, CommandsRunTheirParts, PTL

=============================================================================
