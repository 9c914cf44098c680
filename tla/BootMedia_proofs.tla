-------------------------- MODULE BootMedia_proofs --------------------------
(***************************************************************************)
(* Proofs about BootMedia, for any devices and any bounds: the types, what *)
(* may be mounted on /cdroot, and that the session lies on the medium of   *)
(* the system.  The inductive invariant says, for each place of init, what *)
(* the stack of mounts can be.  The last part is about its progress.       *)
(***************************************************************************)
EXTENDS BootMedia, Lexicographic, SequenceTheorems, FiniteSetTheorems, TLAPS

Places == {"start", "loop", "list", "mount", "test", "shell", "lastshell",
           "found", "noinit", "overlay", "chroot", "preinit", "off"}

\* The types, but for the stack.
Types ==
  /\ given \in Givens /\ taken \in SUBSET Args
  /\ present \in SUBSET Devs
  /\ pc \in Places
  /\ ii \in 0 .. MaxTries + 1 /\ cntx \in 0 .. RetryCnt + 1
  /\ left \in SUBSET Devs
  /\ dev \in Devs \cup {NoDev} /\ device \in Devs \cup {NoDev}
  /\ hand \in HasFs \cup {NoDev} /\ lower \in HasFs \cup {NoDev}

\* The counters have room where they are counted up.
Counting ==
  /\ pc \in {"start", "loop", "list", "mount", "test", "shell"} => ii <= MaxTries
  /\ pc \in {"mount", "test"} => cntx <= RetryCnt
  /\ pc = "lastshell" => ii = MaxTries + 1

\* Between two devices only what was mounted by hand is on /cdroot; above it
\* lies at most the device under test, which is the one that is found.
Stacked ==
  /\ stack \in Seq(HasFs) /\ Len(stack) <= 2
  /\ pc \in {"start", "loop", "list", "mount", "shell", "lastshell"} =>
       Len(stack) <= 1 /\ (Len(stack) = 1 => stack[1] = hand)
  /\ Len(stack) = 1 => stack[1] \in {hand, dev}
  /\ Len(stack) = 2 => stack[1] = hand /\ stack[2] = dev

\* The search ends at a marked medium.
Found ==
  /\ (pc \in {"found", "noinit", "overlay"} /\ ii <= MaxTries) => Top \in Marked
  /\ (pc \in {"chroot", "preinit"} /\ ii <= MaxTries) => lower \in Marked
  /\ pc \in {"chroot", "preinit"} => lower = Top

IInv == Types /\ Counting /\ Stacked /\ Found

-----------------------------------------------------------------------------

LEMMA HowMany == ASSUME Stacked PROVE Len(stack) \in {0, 1, 2} /\ DOMAIN stack = 1 .. Len(stack)
<1>1. Len(stack) \in Nat /\ DOMAIN stack = 1 .. Len(stack)
  BY LenProperties DEF Stacked
<1> QED BY <1>1 DEF Stacked

LEMMA Pushed ==
  ASSUME stack \in Seq(HasFs), NEW d \in HasFs
  PROVE  /\ Append(stack, d) \in Seq(HasFs)
         /\ Len(Append(stack, d)) = Len(stack) + 1
         /\ Append(stack, d)[Len(stack) + 1] = d
         /\ \A i \in 1 .. Len(stack) : Append(stack, d)[i] = stack[i]
  BY AppendProperties

LEMMA Popped ==
  ASSUME stack \in Seq(HasFs), Len(stack) \in {1, 2}
  PROVE  /\ SubSeq(stack, 1, Len(stack) - 1) \in Seq(HasFs)
         /\ Len(SubSeq(stack, 1, Len(stack) - 1)) = Len(stack) - 1
         /\ Len(stack) = 2 => SubSeq(stack, 1, Len(stack) - 1)[1] = stack[1]
<1>1. CASE Len(stack) = 1
  <2>1. SubSeq(stack, 1, 0) = <<>>
    BY SubSeqEmpty
  <2>2. <<>> \in Seq(HasFs) /\ Len(<<>>) = 0
    OBVIOUS
  <2> QED BY <1>1, <2>1, <2>2
<1>2. CASE Len(stack) = 2
  <2>1. 1 \in 1 .. Len(stack) + 1 /\ Len(stack) - 1 \in 0 .. Len(stack)
    BY <1>2
  <2>2. /\ SubSeq(stack, 1, 1) \in Seq(HasFs)
        /\ Len(SubSeq(stack, 1, 1)) = 1
        /\ \A i \in 1 .. 1 : SubSeq(stack, 1, 1)[i] = stack[i]
    BY <1>2, <2>1, SubSeqProperties
  <2> QED BY <1>2, <2>2
<1> QED BY <1>1, <1>2

LEMMA TopIs ==
  ASSUME stack \in Seq(HasFs)
  PROVE  /\ stack = <<>> <=> Len(stack) = 0
         /\ Top = IF Len(stack) = 0 THEN NoDev ELSE stack[Len(stack)]
         /\ stack # <<>> => Top \in HasFs
  BY DEF Top

-----------------------------------------------------------------------------

LEMMA InitIInv == Init => IInv
<1> SUFFICES ASSUME Init PROVE IInv
  OBVIOUS
<1>1. Types /\ Counting
  BY MediaAssumption DEF Init, Types, Counting, Places
<1>2. Stacked /\ Found
  BY DEF Init, Stacked, Found
<1> QED BY <1>1, <1>2 DEF IInv

\* The steps that leave the mounts alone.
LEMMA ScriptSteps ==
  ASSUME IInv, Start \/ Loop \/ List \/ Pause \/ FindInit \/ Overlay \/ Chroot
  PROVE  IInv'
<1> USE DEF IInv
<1>0. /\ stack' = stack /\ hand' = hand /\ dev' = dev /\ ii' = ii
      /\ Top' = Top
  BY DEF Start, Loop, List, Pause, FindInit, Overlay, Chroot, search, Top
<1>1. Top \in HasFs \cup {NoDev}
  BY TopIs DEF Stacked
<1>2. Types'
  <2>1. CASE Start \/ Loop \/ List \/ Pause
    BY <1>0, <2>1, MediaAssumption
    DEF Types, Counting, Places, Start, Loop, List, Pause, search
  <2>2. CASE FindInit \/ Overlay
    BY <1>0, <1>1, <2>2 DEF Types, Places, FindInit, Overlay, search
  <2>3. CASE Chroot
    <3>1. taken' \in SUBSET Args
      BY <2>3 DEF Types, Chroot, Args
    <3> QED BY <1>0, <2>3, <3>1 DEF Types, Places, Chroot, search
  <2> QED BY <2>1, <2>2, <2>3
<1>3. Counting'
  BY <1>0, MediaAssumption
  DEF Types, Counting, Start, Loop, List, Pause, FindInit, Overlay, Chroot, search
<1>4. Stacked'
  BY <1>0 DEF Stacked, Start, Loop, List, Pause, FindInit, Overlay, Chroot, search
<1>5. Found'
  BY <1>0 DEF Found, Start, Loop, List, Pause, FindInit, Overlay, Chroot, search
<1> QED BY <1>2, <1>3, <1>4, <1>5

LEMMA MountStep == ASSUME IInv, Mount PROVE IInv'
<1> USE DEF IInv
<1>1. PICK d \in left :
        /\ dev' = d /\ left' = left \ {d}
        /\ stack' = IF d \in HasFs \cap present /\ \A i \in DOMAIN stack : stack[i] # d
                    THEN Append(stack, d) ELSE stack
  BY DEF Mount
<1>2. /\ pc = "mount" /\ pc' = "test"
      /\ UNCHANGED <<given, taken, present, ii, cntx, device, hand, lower>>
  BY DEF Mount
<1>3. Types'
  BY <1>1, <1>2 DEF Types, Places
<1>4. Counting'
  BY <1>2 DEF Counting
<1>5. Found'
  BY <1>2 DEF Found
<1>6. Len(stack) \in {0, 1} /\ (Len(stack) = 1 => stack[1] = hand)
  BY <1>2, HowMany DEF Stacked
<1>7. CASE stack' = stack
  BY <1>2, <1>3, <1>4, <1>5, <1>6, <1>7 DEF Stacked
<1>8. CASE d \in HasFs /\ stack' = Append(stack, d)
  <2>1. Stacked'
    BY <1>1, <1>2, <1>6, <1>8, Pushed DEF Stacked
  <2> QED BY <2>1, <1>3, <1>4, <1>5
<1> QED BY <1>1, <1>7, <1>8

LEMMA TestStep == ASSUME IInv, Test PROVE IInv'
<1> USE DEF IInv
<1>1. /\ pc = "test"
      /\ UNCHANGED <<given, taken, present, ii, cntx, left, dev, hand, lower>>
  BY DEF Test
<1>2. Types' /\ Counting'
  BY DEF Test, Types, Counting, Places
<1>3. CASE Seen(Marked)
  <2>1. pc' = "found" /\ UNCHANGED stack /\ Top \in Marked /\ Top' = Top
    BY <1>3 DEF Test, Seen, Top
  <2>2. Stacked'
    BY <1>1, <2>1 DEF Stacked
  <2>3. Found'
    BY <1>1, <2>1 DEF Found
  <2> QED BY <1>2, <2>2, <2>3
<1>4. CASE ~Seen(Marked)
  <2>1. /\ pc' = "mount"
        /\ stack' = IF Top = dev THEN SubSeq(stack, 1, Len(stack) - 1) ELSE stack
    BY <1>4 DEF Test
  <2>2. Found'
    BY <2>1 DEF Found
  <2>3. Len(stack) \in {0, 1, 2}
    BY HowMany
  <2>4. ASSUME Len(stack) = 0 PROVE Stacked'
    <3>1. stack = <<>> /\ SubSeq(stack, 1, Len(stack) - 1) = <<>>
      BY <2>4, TopIs, SubSeqEmpty DEF Stacked
    <3> QED BY <1>1, <2>1, <3>1
         DEF Stacked
  <2>5. ASSUME Len(stack) \in {1, 2} PROVE Stacked'
    <3>1. Top = stack[Len(stack)] /\ stack # <<>>
      BY <2>5, TopIs DEF Stacked
    <3>2. CASE Top = dev
      <4>1. /\ stack' \in Seq(HasFs) /\ Len(stack') = Len(stack) - 1
            /\ Len(stack) = 2 => stack'[1] = stack[1]
        BY <2>1, <2>5, <3>2, Popped DEF Stacked
      <4>2. CASE Len(stack) = 1
        BY <1>1, <2>1, <4>1, <4>2 DEF Stacked
      <4>3. CASE Len(stack) = 2
        BY <1>1, <2>1, <4>1, <4>3 DEF Stacked
      <4> QED BY <2>5, <4>2, <4>3
    <3>3. CASE Top # dev
      BY <1>1, <2>1, <2>5, <3>1, <3>3 DEF Stacked
    <3> QED BY <3>2, <3>3
  <2> QED BY <1>2, <2>2, <2>3, <2>4, <2>5
<1> QED BY <1>3, <1>4

LEMMA PersonSteps ==
  ASSUME IInv, Person \/ Plug \/ Unplug \/ HandMount
  PROVE  IInv'
<1> USE DEF IInv
<1>1. CASE Person \/ Plug \/ Unplug
  <2>1. /\ stack' = stack /\ hand' = hand /\ dev' = dev
        /\ lower' = lower /\ Top' = Top
    BY <1>1 DEF Person, LeaveShell, LeaveLastShell, LeaveInitShell, Plug, Unplug,
                search, Top
  <2>2. Types'
    BY <1>1, <2>1, MediaAssumption
    DEF Types, Counting, Places, Person, LeaveShell, LeaveLastShell,
        LeaveInitShell, Plug, Unplug, search
  <2>3. Counting'
    BY <1>1, MediaAssumption
    DEF Types, Counting, Person, LeaveShell, LeaveLastShell, LeaveInitShell,
        Plug, Unplug, search
  <2>4. Stacked'
    BY <1>1, <2>1 DEF Stacked, Person, LeaveShell, LeaveLastShell,
                      LeaveInitShell, Plug, Unplug
  <2>5. Found'
    BY <1>1, <2>1, MediaAssumption
    DEF Found, Counting, Types, Person, LeaveShell, LeaveLastShell,
        LeaveInitShell, Plug, Unplug, search
  <2> QED BY <2>2, <2>3, <2>4, <2>5
<1>2. CASE HandMount
  <2>1. PICK d \in HasFs : stack' = <<d>> /\ hand' = d
    BY <1>2 DEF HandMount
  <2>2. /\ stack = <<>> /\ pc \in {"shell", "lastshell", "noinit"}
        /\ UNCHANGED <<given, taken, present, pc, search, lower>>
    BY <1>2 DEF HandMount
  <2>3. stack' \in Seq(HasFs) /\ Len(stack') = 1 /\ stack'[1] = d
    BY <2>1
  <2>4. Top = NoDev
    BY <2>2 DEF Top
  <2>5. Types' /\ Counting'
    BY <2>1, <2>2 DEF Types, Counting, search
  <2>6. Stacked'
    BY <2>1, <2>2, <2>3 DEF Stacked, search
  <2>7. Found'
    BY <2>2, <2>4, MediaAssumption DEF Found, search
  <2> QED BY <2>5, <2>6, <2>7
<1> QED BY <1>1, <1>2

LEMMA NextIInv == IInv /\ [Next]_vars => IInv'
<1> SUFFICES ASSUME IInv, [Next]_vars PROVE IInv'
  OBVIOUS
<1>1. CASE Script
  BY <1>1, ScriptSteps, MountStep, TestStep DEF Script
<1>2. CASE Person \/ Plug \/ Unplug \/ HandMount
  BY <1>2, PersonSteps
<1>3. CASE UNCHANGED vars
  BY <1>3 DEF vars, search, IInv, Types, Counting, Stacked, Found, Top
<1> QED BY <1>1, <1>2, <1>3 DEF Next

LEMMA Invariant == Spec => []IInv
<1> QED BY InitIInv, NextIInv, PTL DEF Spec

-----------------------------------------------------------------------------
(* The theorems. *)

\* The variables keep their types: findCD() is called at most MaxTries + 1
\* times and scans at most RetryCnt + 1 times in each call.
THEOREM TypeCorrect == Spec => []TypeOK
<1>1. IInv => TypeOK
  BY DEF IInv, Types, Stacked, TypeOK, Places
<1> QED BY <1>1, Invariant, PTL

\* Whatever is plugged in, taken out or mounted by hand: a session that was
\* found by searching lies on a medium with the mark of the system.
THEOREM OnMarkedMedium == Spec => []RunsMarked
<1>1. IInv => RunsMarked
  BY DEF IInv, Found, RunsMarked
<1> QED BY <1>1, Invariant, PTL

\* The search leaves nothing mounted on /cdroot but the medium it found and
\* what somebody mounted there by hand.
THEOREM NothingStaysMounted == Spec => []NothingLeft
<1>1. IInv => NothingLeft
  <2> SUFFICES ASSUME IInv, pc \in {"chroot", "preinit"}, NEW i \in DOMAIN stack
               PROVE  stack[i] \in {lower, hand}
    BY DEF NothingLeft
  <2>0. i \in 1 .. Len(stack) /\ Len(stack) \in {0, 1, 2}
    BY HowMany DEF IInv
  <2>1. lower = stack[Len(stack)] /\ i \in 1 .. Len(stack) /\ Len(stack) \in {1, 2}
    BY <2>0, TopIs DEF IInv, Found, Stacked
  <2>2. CASE Len(stack) = 1
    BY <2>1, <2>2
  <2>3. CASE Len(stack) = 2
    <3>1. i = 1 \/ i = 2
      BY <2>1, <2>3
    <3> QED BY <2>1, <2>3, <3>1 DEF IInv, Stacked
  <2> QED BY <2>1, <2>2, <2>3
<1> QED BY <1>1, Invariant, PTL

-----------------------------------------------------------------------------
(* The boot does not loop. *)

\* How far the boot is from its end: searches that may follow, where init is in
\* this one, scans that may follow in it, and what is to be tried in this scan.
Laps == MaxTries + 1 - ii
Place ==
  CASE pc = "start" -> 8
    [] pc = "loop" -> 7
    [] pc \in {"list", "mount", "test"} -> 6
    [] pc \in {"shell", "lastshell"} -> 5
    [] pc = "found" -> 4
    [] pc = "noinit" -> 3
    [] pc = "overlay" -> 2
    [] pc = "chroot" -> 1
    [] OTHER -> 0
Scans == RetryCnt + 1 - cntx
Tries ==
  CASE pc = "list" -> 2 * Cardinality(Devs) + 1
    [] pc = "test" -> 2 * Cardinality(left) + 1
    [] OTHER -> 2 * Cardinality(left)

Ahead == <<Laps, <<Place, <<Scans, Tries>>>>>>
Distances == Nat \X (Nat \X (Nat \X Nat))

\* A device is left that lsblk named first.
CanGoOn ==
  (pc = "mount" /\ left # {}) => \E d \in left : \A e \in left : Rank[d] <= Rank[e]

\* What lsblk lists is finite, and one device of any set is named first.
LEMMA FirstListed == IInv => CanGoOn
  BY MediaAssumption, FirstOf DEF IInv, Types, CanGoOn

LEMMA Finite ==
  ASSUME NEW S \in SUBSET Devs
  PROVE  IsFiniteSet(S) /\ Cardinality(S) \in Nat /\ Cardinality(S) <= Cardinality(Devs)
  BY MediaAssumption, FS_Subset, FS_CardinalityType

\* The distance is one, before and after a step.
LEMMA IsDistance ==
  ASSUME IInv
  PROVE  Laps \in Nat /\ Place \in 0 .. 8 /\ Scans \in Nat /\ Tries \in Nat
<1>1. Laps \in Nat /\ Scans \in Nat
  BY MediaAssumption DEF IInv, Types, Laps, Scans
<1>2. Place \in 0 .. 8
  BY DEF Place
<1>3. Cardinality(Devs) \in Nat /\ Cardinality(left) \in Nat
  BY MediaAssumption, Finite, FS_CardinalityType DEF IInv, Types
<1>4. Tries \in Nat
  BY <1>3 DEF Tries
<1> QED BY <1>1, <1>2, <1>4

\* A difference the SMT solver finds only without primes.
LEMMA Difference == \A n \in Nat : \A i \in 0 .. n + 1 : n + 1 - i \in Nat
  OBVIOUS

LEMMA IsDistanceNext ==
  ASSUME IInv'
  PROVE  Laps' \in Nat /\ Place' \in 0 .. 8 /\ Scans' \in Nat /\ Tries' \in Nat
<1>0. ii' \in 0 .. MaxTries + 1 /\ cntx' \in 0 .. RetryCnt + 1 /\ left' \in SUBSET Devs
  BY DEF IInv, Types
<1>1. Laps' \in Nat /\ Scans' \in Nat
  <2>1. Laps' = MaxTries + 1 - ii' /\ Scans' = RetryCnt + 1 - cntx'
    BY DEF Laps, Scans
  <2> QED BY <1>0, <2>1, MediaAssumption, Difference, Zenon
<1>2. Place' \in 0 .. 8
  BY DEF Place
<1>3. Cardinality(Devs) \in Nat /\ Cardinality(left') \in Nat
  BY <1>0, MediaAssumption, Finite, FS_CardinalityType
<1>4. Tries' \in Nat
  BY <1>3 DEF Tries
<1> QED BY <1>1, <1>2, <1>3, <1>4

\* Each step of init, and each shell that is left, brings the end nearer.
LEMMA StepsNearer ==
  ASSUME IInv, IInv', Script \/ Person
  PROVE  \/ Laps' < Laps
         \/ Laps' = Laps /\ Place' < Place
         \/ Laps' = Laps /\ Place' = Place /\ Scans' < Scans
         \/ Laps' = Laps /\ Place' = Place /\ Scans' = Scans /\ Tries' < Tries
<1>1. CASE Start \/ Loop
  BY <1>1 DEF Start, Loop, search, Laps, Place
<1>2. CASE List
  <2>1. CASE pc' = "shell"
    BY <1>2, <2>1 DEF List, Laps, Place
  <2>2. CASE pc' # "shell"
    <3>1. Cardinality(present) <= Cardinality(Devs) /\ Cardinality(present) \in Nat
          /\ Cardinality(Devs) \in Nat
      BY Finite, FS_CardinalityType, MediaAssumption DEF IInv, Types
    <3>2. left' = present /\ pc' = "mount" /\ pc = "list" /\ ii' = ii /\ cntx' = cntx
      BY <1>2, <2>2 DEF List
    <3>3. Tries' = 2 * Cardinality(present) /\ Tries = 2 * Cardinality(Devs) + 1
      BY <3>2 DEF Tries
    <3> QED BY <3>1, <3>2, <3>3 DEF Laps, Place, Scans
  <2> QED BY <2>1, <2>2
<1>3. CASE Mount
  <2>1. PICK d \in left : left' = left \ {d}
    BY <1>3 DEF Mount
  <2>2. pc = "mount" /\ pc' = "test" /\ ii' = ii /\ cntx' = cntx
    BY <1>3 DEF Mount
  <2>3. /\ Cardinality(left) \in Nat /\ IsFiniteSet(left)
        /\ Cardinality(left') = Cardinality(left) - 1
    BY <2>1, Finite, FS_RemoveElement DEF IInv, Types
  <2>4. Tries' = 2 * Cardinality(left') + 1 /\ Tries = 2 * Cardinality(left)
    BY <2>2 DEF Tries
  <2> QED BY <2>2, <2>3, <2>4 DEF Laps, Place, Scans
<1>4. CASE Test
  <2>1. CASE pc' = "found"
    BY <1>4, <2>1 DEF Test, Laps, Place
  <2>2. CASE pc' # "found"
    <3>1. pc = "test" /\ pc' = "mount" /\ left' = left /\ ii' = ii /\ cntx' = cntx
      BY <1>4, <2>2 DEF Test
    <3>2. Cardinality(left) \in Nat
      BY Finite DEF IInv, Types
    <3>3. Tries' = 2 * Cardinality(left) /\ Tries = 2 * Cardinality(left) + 1
      BY <3>1 DEF Tries
    <3> QED BY <3>1, <3>2, <3>3 DEF Laps, Place, Scans
  <2> QED BY <2>1, <2>2
<1>5. CASE Pause
  <2>1. pc = "mount" /\ pc' = "list" /\ ii' = ii /\ cntx' = cntx + 1
    BY <1>5 DEF Pause
  <2> QED BY <2>1, MediaAssumption DEF IInv, Types, Laps, Place, Scans
<1>6. CASE FindInit \/ Overlay \/ Chroot
  BY <1>6 DEF FindInit, Overlay, Chroot, search, Laps, Place
<1>7. CASE LeaveShell
  BY <1>7, MediaAssumption DEF LeaveShell, IInv, Types, Laps
<1>8. CASE LeaveLastShell \/ LeaveInitShell
  BY <1>8 DEF LeaveLastShell, LeaveInitShell, search, Laps, Place
<1> QED BY <1>1, <1>2, <1>3, <1>4, <1>5, <1>6, <1>7, <1>8 DEF Script, Person

\* init does not loop: each of its steps, and each shell that a person leaves,
\* brings the hand-over nearer, and who plugs, unplugs or mounts cannot put it
\* off; and it is never without a step, whatever lsblk listed.
Approaches ==
  /\ []CanGoOn
  /\ [][ /\ Script \/ Person => <<Ahead', Ahead>> \in Less4
         /\ Plug \/ Unplug \/ HandMount => Ahead' = Ahead ]_vars

\* For any number of devices, retries and shells.
THEOREM NeverLoops == IsWellFoundedOn(Less4, Distances) /\ (Spec => Approaches)
<1>1. IInv /\ IInv' => (Script \/ Person => <<Ahead', Ahead>> \in Less4)
  <2> SUFFICES ASSUME IInv, IInv', Script \/ Person PROVE <<Ahead', Ahead>> \in Less4
    OBVIOUS
  <2>1. Laps \in Nat /\ Place \in Nat /\ Scans \in Nat /\ Tries \in Nat
    BY IsDistance
  <2>2. Laps' \in Nat /\ Place' \in Nat /\ Scans' \in Nat /\ Tries' \in Nat
    BY IsDistanceNext
  <2>3. /\ Ahead = <<Laps, <<Place, <<Scans, Tries>>>>>>
        /\ Ahead' = <<Laps', <<Place', <<Scans', Tries'>>>>>>
    BY DEF Ahead
  <2>4. \/ Laps' < Laps
        \/ Laps' = Laps /\ Place' < Place
        \/ Laps' = Laps /\ Place' = Place /\ Scans' < Scans
        \/ Laps' = Laps /\ Place' = Place /\ Scans' = Scans /\ Tries' < Tries
    BY StepsNearer
  <2>5. PICK a, b, c, d \in Nat : a = Laps' /\ b = Place' /\ c = Scans' /\ d = Tries'
    BY <2>2
  <2>6. PICK x, y, z, w \in Nat : x = Laps /\ y = Place /\ z = Scans /\ w = Tries
    BY <2>1
  <2>7. Ahead' = <<a, <<b, <<c, d>>>>>> /\ Ahead = <<x, <<y, <<z, w>>>>>>
    BY <2>3, <2>5, <2>6
  <2>8. \/ a < x
        \/ a = x /\ b < y
        \/ a = x /\ b = y /\ c < z
        \/ a = x /\ b = y /\ c = z /\ d < w
    BY <2>4, <2>5, <2>6
  <2>9. a < x \/ (a = x /\ <<<<b, <<c, d>>>>, <<y, <<z, w>>>>>> \in Less3)
    <3>1. a < x \/ (a = x /\ (b < y \/ (b = y /\ (c < z \/ (c = z /\ d < w)))))
      BY <2>8
    <3> QED BY <2>5, <2>6, <3>1, Less3Is
  <2>10. <<<<a, <<b, <<c, d>>>>>>, <<x, <<y, <<z, w>>>>>>>> \in Less4
    <3>1. a \in Nat /\ b \in Nat /\ c \in Nat /\ d \in Nat
      BY <2>5
    <3>2. x \in Nat /\ y \in Nat /\ z \in Nat /\ w \in Nat
      BY <2>6
    <3> QED BY ONLY <3>1, <3>2, <2>9, Less4Is
  <2> QED BY <2>7, <2>10
<1>2. (Plug \/ Unplug \/ HandMount) => Ahead' = Ahead
  BY DEF Plug, Unplug, HandMount, search, Ahead, Laps, Place, Scans, Tries
<1>3. IInv /\ [Next]_vars => IInv'
  BY NextIInv
<1>4. IInv /\ [Next]_vars =>
        [ /\ Script \/ Person => <<Ahead', Ahead>> \in Less4
          /\ Plug \/ Unplug \/ HandMount => Ahead' = Ahead ]_vars
  BY <1>1, <1>2, <1>3
<1>5. Spec => Approaches
  BY <1>4, FirstListed, Invariant, PTL DEF Spec, Approaches
<1> QED BY <1>5, LessWellFounded DEF Distances
=============================================================================
