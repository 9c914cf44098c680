-------------------------- MODULE Shutdown_proofs ---------------------------
(***************************************************************************)
(* Theorems about Shutdown for any processes, tempers and mounts.          *)
(***************************************************************************)
EXTENDS Shutdown, Lexicographic, FiniteSetTheorems, TLAPS

\* The actions, one disjunct each, so that the proofs can go through them.
LEMMA NextCases ==
  ASSUME [Next]_vars
  PROVE  \/ UNCHANGED vars
         \/ DownClean \/ Amplify \/ UmountAll \/ PostinitExits
         \/ PreinitExits \/ InitResumes \/ PowerOff
         \/ \E m \in parts : UmountPart(m)
         \/ UmountNext("postinit") \/ UmountNext("init")
         \/ \E s \in signals : Deliver(s)
         \/ \E p \in Procs : Dies(p)
         \/ \E p \in Procs : Respawn(p)
BY DEF Next, ShellScripts, Kernel

LEMMA UmountLengths ==
  Len(Umounts("postinit")) = 4 /\ Len(Umounts("init")) = 11
BY DEF Umounts, PostinitUmounts, InitUmounts

LEMMA TypeStep ==
  ASSUME TypeOK, [Next]_vars
  PROVE  TypeOK'
<1> USE DEF TypeOK
<1>1. CASE UNCHANGED vars
  BY <1>1 DEF vars
<1>2. CASE DownClean
  BY <1>2 DEF DownClean, TermAll
<1>3. CASE Amplify
  BY <1>3 DEF Amplify, TermAll
<1>4. CASE UmountAll
  BY <1>4 DEF UmountAll, Partitions
<1>5. CASE PostinitExits
  BY <1>5 DEF PostinitExits
<1>6. CASE PreinitExits
  BY <1>6 DEF PreinitExits
<1>7. CASE InitResumes
  BY <1>7 DEF InitResumes
<1>8. CASE PowerOff
  BY <1>8 DEF PowerOff
<1>9. CASE \E m \in parts : UmountPart(m)
  BY <1>9 DEF UmountPart, Umount
<1>10. CASE UmountNext("postinit") \/ UmountNext("init")
  <2>1. PICK script \in {"postinit", "init"} : UmountNext(script)
    BY <1>10
  <2>2. step[script] + 1 \in 0..12
    BY <2>1, UmountLengths DEF UmountNext
  <2>3. step' \in [{"postinit", "init"} -> 0..12]
    BY <2>1, <2>2 DEF UmountNext
  <2>4. mounted' \subseteq mounted
    BY <2>1 DEF UmountNext, Umount
  <2> QED
    BY <2>1, <2>3, <2>4 DEF UmountNext
<1>11. CASE \E s \in signals : Deliver(s)
  <2>1. PICK s \in signals : Deliver(s)
    BY <1>11
  <2>2. s[1] \notin Scripts => s \in Procs \X {1, 2}
    BY DEF Scripts
  <2> QED
    BY <2>1, <2>2 DEF Deliver
<1>12. CASE \E p \in Procs : Dies(p)
  BY <1>12 DEF Dies
<1>13. CASE \E p \in Procs : Respawn(p)
  BY <1>13 DEF Respawn
<1> QED
  BY <1>1, <1>2, <1>3, <1>4, <1>5, <1>6, <1>7, <1>8, <1>9, <1>10, <1>11,
     <1>12, <1>13, NextCases

\* Every variable keeps its type.
THEOREM TypeCorrect == Spec => []TypeOK
<1>1. Init => TypeOK
  BY DEF Init, TypeOK, Points
<1> QED
  BY <1>1, TypeStep, PTL DEF Spec

-----------------------------------------------------------------------------
(* InitWaits: no signal is ever on its way to one of the scripts, so that  *)
(* each of them lives until the one it waits for has ended.                *)

WaitInv ==
  /\ \A s \in signals : s[1] \notin Scripts
  /\ "postinit" \in live <=> post # "gone"
  /\ "postinit" \in live => "preinit" \in live
  /\ init # "waiting" => "preinit" \notin live
  /\ post \in {"umounting", "gone"} <=> step["postinit"] >= 1
  /\ post = "gone" => step["postinit"] = 5
  /\ init = "waiting" => step["init"] = 0

LEMMA WaitStep ==
  ASSUME TypeOK, WaitInv, [Next]_vars
  PROVE  WaitInv'
<1> USE DEF WaitInv, TypeOK
<1>a. "postinit" \notin Procs /\ "preinit" \notin Procs
  BY ShutdownAssumption DEF Scripts
<1>1. CASE UNCHANGED vars
  BY <1>1 DEF vars
<1>2. CASE DownClean \/ Amplify
  <2>1. PICK k \in {1, 2} : TermAll(k)
    BY <1>2 DEF DownClean, Amplify
  <2>2. \A s \in signals' : s[1] \notin Scripts
    BY <2>1 DEF TermAll, Governor, Scripts
  <2> QED
    BY <1>2, <2>2 DEF DownClean, Amplify
<1>3. CASE UmountAll
  BY <1>3 DEF UmountAll
<1>4. CASE PostinitExits
  BY <1>4 DEF PostinitExits
<1>5. CASE PreinitExits
  BY <1>5 DEF PreinitExits
<1>6. CASE InitResumes
  BY <1>6 DEF InitResumes
<1>7. CASE PowerOff
  BY <1>7 DEF PowerOff
<1>8. CASE \E m \in parts : UmountPart(m)
  BY <1>8 DEF UmountPart
<1>9. CASE UmountNext("postinit")
  BY <1>9, UmountLengths DEF UmountNext
<1>10. CASE UmountNext("init")
  BY <1>10, UmountLengths DEF UmountNext
<1>11. CASE \E s \in signals : Deliver(s)
  <2>1. PICK s \in signals : Deliver(s)
    BY <1>11
  <2>2. s[1] \notin Scripts /\ s[1] # "postinit" /\ s[1] # "preinit"
    BY DEF Scripts
  <2>3. \A p \in Scripts : p \in live' <=> p \in live
    BY <2>1, <2>2 DEF Deliver, Scripts
  <2> QED
    BY <2>1, <2>3 DEF Deliver, Scripts
<1>12. CASE \E p \in Procs : Dies(p)
  BY <1>a, <1>12 DEF Dies
<1>13. CASE \E p \in Procs : Respawn(p)
  BY <1>a, <1>13 DEF Respawn
<1> QED
  BY <1>1, <1>2, <1>3, <1>4, <1>5, <1>6, <1>7, <1>8, <1>9, <1>10, <1>11,
     <1>12, <1>13, NextCases

LEMMA WaitInit == Init => WaitInv
BY DEF Init, WaitInv, Scripts

\* Whatever processes there are and however they take the signals: pid 1 does
\* not start to unmount while postinit still terminates and unmounts.
THEOREM InitIsLast == Spec => []InitWaits
<1>1. WaitInv => InitWaits
  BY DEF WaitInv, InitWaits
<1> QED
  BY <1>1, WaitInit, WaitStep, TypeCorrect, PTL DEF Spec

-----------------------------------------------------------------------------
(* Tidy, for a machine booted from a partition, media that umountAll()     *)
(* lists, and a session whose programs heed the signal and are not started *)
(* again: ShutdownCd, ShutdownOdd and ShutdownSlow are the                 *)
(* counterexamples without.  Elsewhere processes may be as deaf as they    *)
(* like.  After the first pass nothing uses the session's mounts any more, *)
(* and from then on they go one by one, each after what lies on it.        *)

Session == {"/", "n-pts", "hdroot", "newroot"} \cup Media \cup NewBinds

Orderly ==
  /\ Boots \subseteq {"usb"} /\ Media \subseteq Listed
  /\ \A p \in Procs : Uses[p] \cap Session # {} =>
       Temper[p] = "heeds" /\ Keeper[p] = NoProc

QuietInv ==
  /\ post = "sleep" => \A p \in live \cap Procs :
       Uses[p] \cap Session # {} => <<p, 1>> \in signals
  /\ post \notin {"down", "sleep"} => \A p \in live \cap Procs :
       Uses[p] \cap Session = {}

LEMMA QuietStep ==
  ASSUME Orderly, TypeOK, WaitInv, QuietInv, [Next]_vars
  PROVE  QuietInv'
<1> USE DEF QuietInv, TypeOK
<1>1. CASE UNCHANGED vars
  BY <1>1 DEF vars
<1>2. CASE DownClean
  <2>1. \A p \in live \cap Procs : <<p, 1>> \in signals'
    BY <1>2, ShutdownAssumption DEF DownClean, TermAll, Governor, Scripts
  <2> QED
    BY <1>2, <2>1 DEF DownClean
<1>3. CASE Amplify
  <2>1. \A p \in live \cap Procs : Uses[p] \cap Session = {}
    BY <1>3 DEF Amplify
  <2> QED
    BY <1>3, <2>1 DEF Amplify
<1>4. CASE UmountAll
  BY <1>4 DEF UmountAll
<1>5. CASE PostinitExits
  BY <1>5 DEF PostinitExits
<1>6. CASE PreinitExits
  BY <1>6 DEF PreinitExits
<1>7. CASE InitResumes \/ PowerOff
  BY <1>7 DEF InitResumes, PowerOff
<1>8. CASE \E m \in parts : UmountPart(m)
  BY <1>8 DEF UmountPart
<1>9. CASE UmountNext("postinit") \/ UmountNext("init")
  BY <1>9 DEF UmountNext
<1>10. CASE \E s \in signals : Deliver(s)
  <2>1. PICK s \in signals : Deliver(s)
    BY <1>10
  <2>2. post' = post /\ live' \subseteq live /\ signals' = signals \ {s}
    BY <2>1 DEF Deliver
  <2>3. ASSUME NEW p \in live' \cap Procs, Uses[p] \cap Session # {}
        PROVE  s[1] # p
    <3>1. Temper[p] = "heeds"
      BY <2>3 DEF Orderly
    <3> QED
      BY <2>1, <2>3, <3>1 DEF Deliver
  <2>4. ASSUME post = "sleep",
               NEW p \in live' \cap Procs, Uses[p] \cap Session # {}
        PROVE  <<p, 1>> \in signals'
    BY <2>2, <2>3, <2>4
  <2> QED
    BY <2>2, <2>4
<1>11. CASE \E p \in Procs : Dies(p)
  BY <1>11 DEF Dies
<1>12. CASE \E p \in Procs : Respawn(p)
  <2>1. PICK p \in Procs : Respawn(p)
    BY <1>12
  <2>2. Keeper[p] # NoProc
    BY <2>1, ShutdownAssumption DEF Respawn
  <2>3. Uses[p] \cap Session = {}
    BY <2>2 DEF Orderly
  <2>4. ASSUME NEW q \in live' \cap Procs, Uses[q] \cap Session # {}
        PROVE  q \in live /\ q # p
    BY <2>1, <2>3, <2>4 DEF Respawn
  <2>5. \A q \in Procs : q # p /\ <<q, 1>> \in signals => <<q, 1>> \in signals'
    BY <2>1 DEF Respawn
  <2>6. post' = post
    BY <2>1 DEF Respawn
  <2> QED
    BY <2>4, <2>5, <2>6
<1> QED
  BY <1>1, <1>2, <1>3, <1>4, <1>5, <1>6, <1>7, <1>8, <1>9, <1>10, <1>11,
     <1>12, NextCases

\* Once it is quiet, only the scripts use the session's mounts.
LEMMA Unused ==
  ASSUME TypeOK, QuietInv, post \notin {"down", "sleep"},
         NEW m \in Session, m # "/", NEW p \in live, m \in UsedBy(p)
  PROVE  p \in Scripts /\ m = Root
<1>1. CASE p \in Scripts
  <2>1. m \in {"sysroot", Root}
    BY <1>1 DEF UsedBy, Scripts
  <2>2. m # "sysroot"
    BY ShutdownAssumption DEF Session, NewBinds
  <2> QED
    BY <1>1, <2>1, <2>2
<1>2. CASE p \notin Scripts
  <2>1. p \in Procs /\ Uses[p] \cap Session = {}
    BY <1>2 DEF TypeOK, QuietInv
  <2>2. UsedBy(p) = {IF x = "/" THEN Root ELSE x : x \in Uses[p]}
    BY <1>2 DEF UsedBy, Scripts
  <2>3. "/" \notin Uses[p]
    BY <2>1 DEF Session
  <2>4. m \in Uses[p]
    BY <2>2, <2>3
  <2> QED
    BY <2>1, <2>4
<1> QED
  BY <1>1, <1>2

MountInv ==
  /\ boot = "usb"
  /\ post \notin {"umounting", "gone"} => parts = {}
  /\ mode # "data" => mounted \cap (Session \ Media) = {}
  /\ post \in {"umounting", "gone"} =>
       \A m \in mounted \cap (Media \cup {"n-cdroot"}) : m \in parts
  /\ step["postinit"] > 1 => parts = {} /\ "n-proc" \notin mounted
  /\ step["postinit"] > 2 => "n-sys" \notin mounted
  /\ step["postinit"] > 3 => "n-pts" \notin mounted
  /\ step["postinit"] > 4 => "n-dev" \notin mounted
  /\ step["init"] > 2 => "hdroot" \notin mounted
  /\ step["init"] > 5 => "n-orig" \notin mounted
  /\ step["init"] > 6 => "newroot" \notin mounted
  /\ init = "off" => step["init"] = 12

\* What lies on what, as far as it matters.
LEMMA Tree ==
  ASSUME NEW m \in Media \cup NewBinds \cup {"n-pts", "hdroot", "newroot"},
         NEW c \in Points, On(c) = m
  PROVE  \/ m = "n-dev" /\ c = "n-pts"
         \/ m = "newroot" /\ c \in NewBinds \cup Media
<1>1. On(c) \in {"newroot", "n-dev", "s-dev", "sysroot", "/"}
  BY DEF On, Root
<1>2. m \in {"newroot", "n-dev"}
  BY <1>1, ShutdownAssumption DEF NewBinds, SysBinds
<1>3. m = "newroot" => c \in NewBinds \cup Media
  BY ShutdownAssumption DEF On, Root, NewBinds, SysBinds, Points
<1>4. m = "n-dev" => c = "n-pts"
  BY DEF On, Root
<1> QED
  BY <1>2, <1>3, <1>4

LEMMA Free ==
  ASSUME TypeOK, WaitInv, QuietInv, post \notin {"down", "sleep"},
         NEW m \in Media \cup NewBinds \cup {"n-pts", "hdroot", "newroot"},
         m = "n-dev" => "n-pts" \notin mounted,
         m = "newroot" => init # "waiting"
                          /\ mounted \cap (NewBinds \cup Media) = {}
  PROVE  ~Busy(m)
<1>1. ASSUME NEW c \in mounted, On(c) = m
      PROVE  FALSE
  BY <1>1, Tree DEF TypeOK
<1>2. ASSUME NEW p \in live, m \in UsedBy(p)
      PROVE  FALSE
  <2>1. m \in Session /\ m # "/"
    BY ShutdownAssumption DEF Session, NewBinds
  <2>2. p \in Scripts /\ m = Root
    BY <1>2, <2>1, Unused
  <2>3. m = "newroot"
    BY <2>2, ShutdownAssumption DEF Root, NewBinds
  <2> QED
    BY <2>2, <2>3 DEF WaitInv, Scripts
<1> QED
  BY <1>1, <1>2 DEF Busy

LEMMA MountStep ==
  ASSUME Orderly, TypeOK, WaitInv, QuietInv, MountInv, [Next]_vars
  PROVE  MountInv'
<1> USE DEF MountInv, TypeOK
<1>a. "n-proc" \in Session \ Media /\ "n-sys" \in Session \ Media
      /\ "n-pts" \in Session \ Media /\ "n-dev" \in Session \ Media
  BY ShutdownAssumption DEF Session, NewBinds
<1>b. step["postinit"] \in 0..12 /\ step["init"] \in 0..12
  OBVIOUS
<1>1. CASE UNCHANGED vars
  BY <1>1 DEF vars
<1>2. CASE DownClean \/ Amplify
  BY <1>2 DEF DownClean, Amplify
<1>3. CASE UmountAll
  <2>1. step["postinit"]' = 1 /\ step["init"]' = step["init"]
    BY <1>3 DEF UmountAll
  <2>2. ASSUME NEW m \in mounted \cap (Media \cup {"n-cdroot"})
        PROVE  m \in Partitions
    <3>1. CASE m \in Media
      BY <3>1 DEF Partitions, Orderly
    <3>2. CASE m \notin Media
      <4>1. m = "n-cdroot" /\ m \in Session
        BY <3>2 DEF Session, NewBinds
      <4>2. mode = "data"
        BY <3>2, <4>1
      <4>3. On("n-cdroot") = Root
        BY <4>2, ShutdownAssumption DEF On, Root, NewBinds, SysBinds
      <4> QED
        BY <4>1, <4>2, <4>3 DEF Partitions
    <3> QED
      BY <3>1, <3>2
  <2> QED
    BY <1>3, <2>1, <2>2 DEF UmountAll
<1>4. CASE PostinitExits \/ PreinitExits
  BY <1>4 DEF PostinitExits, PreinitExits, WaitInv
<1>5. CASE InitResumes
  <2>1. step["postinit"]' = step["postinit"] /\ step["init"]' = 1
    BY <1>5 DEF InitResumes
  <2> QED
    BY <1>5, <2>1 DEF InitResumes
<1>6. CASE PowerOff
  BY <1>6 DEF PowerOff
<1>7. CASE \E m \in parts : UmountPart(m)
  <2>1. PICK m \in parts : UmountPart(m)
    BY <1>7
  <2>2. post \in {"umounting", "gone"}
    OBVIOUS
  <2>3. m \in Media \cup {"n-cdroot"} => m \notin mounted'
    <3>1. m \in Media \cup {"n-cdroot"} => ~Busy(m)
      BY <2>2, Free, ShutdownAssumption DEF NewBinds
    <3> QED
      BY <2>1, <3>1 DEF UmountPart, Umount
  <2>4. mounted' \subseteq mounted /\ parts' = parts \ {m}
    BY <2>1 DEF UmountPart, Umount
  <2> QED
    BY <2>1, <2>2, <2>3, <2>4 DEF UmountPart
<1>8. CASE UmountNext("postinit")
  <2> DEFINE i == step["postinit"]
  <2>1. i \in 1..4 /\ parts = {}
    BY <1>8, UmountLengths DEF UmountNext
  <2>2. step["postinit"]' = i + 1 /\ step["init"]' = step["init"]
    BY <1>8 DEF UmountNext
  <2>3. post \in {"umounting", "gone"}
    BY <2>1 DEF WaitInv
  <2>4. mounted' \subseteq mounted
    BY <1>8 DEF UmountNext, Umount
  <2>5. ASSUME mode = "data"
        PROVE  /\ i = 1 => "n-proc" \notin mounted'
               /\ i = 2 => "n-sys" \notin mounted'
               /\ i = 3 => "n-pts" \notin mounted'
               /\ i = 4 => "n-dev" \notin mounted'
    <3>1. mounted' = IF Busy(PostinitUmounts[i]) THEN mounted
                     ELSE mounted \ {PostinitUmounts[i]}
      BY <1>8 DEF UmountNext, Umount, Umounts
    <3>2. PostinitUmounts = <<"n-proc", "n-sys", "n-pts", "n-dev">>
      BY <2>5 DEF PostinitUmounts
    <3>3. ~Busy("n-proc") /\ ~Busy("n-sys") /\ ~Busy("n-pts")
      BY <2>3, Free DEF NewBinds
    <3>4. i = 4 => ~Busy("n-dev")
      BY <2>3, Free DEF NewBinds
    <3> QED
      BY <3>1, <3>2, <3>3, <3>4
  <2> HIDE DEF i
  <2>6. UNCHANGED <<boot, mode, post, parts, init>>
    BY <1>8 DEF UmountNext
  <2>7. \/ mode = "data"
        \/ mounted \cap {"n-proc", "n-sys", "n-pts", "n-dev"} = {}
    BY <1>a
  <2>8. /\ i + 1 > 1 => "n-proc" \notin mounted'
        /\ i + 1 > 2 => "n-sys" \notin mounted'
        /\ i + 1 > 3 => "n-pts" \notin mounted'
        /\ i + 1 > 4 => "n-dev" \notin mounted'
    BY <2>1, <2>4, <2>5, <2>7 DEF i
  <2> QED
    BY <2>1, <2>2, <2>4, <2>6, <2>8
<1>9. CASE UmountNext("init")
  <2> DEFINE i == step["init"]
  <2>1. i \in 1..11
    BY <1>9, UmountLengths DEF UmountNext
  <2>2. step["init"]' = i + 1 /\ step["postinit"]' = step["postinit"]
    BY <1>9 DEF UmountNext
  <2>3. init # "waiting" /\ post = "gone" /\ step["postinit"] = 5
    BY <2>1 DEF WaitInv
  <2>4. mounted' \subseteq mounted
    BY <1>9 DEF UmountNext, Umount
  <2>5. mounted' = IF Busy(InitUmounts[i]) THEN mounted
                   ELSE mounted \ {InitUmounts[i]}
    BY <1>9 DEF UmountNext, Umount, Umounts
  <2>6. /\ InitUmounts[2] = "hdroot" /\ InitUmounts[5] = "n-orig"
        /\ InitUmounts[6] = "newroot"
    BY DEF InitUmounts
  <2>7. ~Busy("hdroot") /\ ~Busy("n-orig")
    BY <2>3, Free DEF NewBinds
  <2>8. i = 6 => ~Busy("newroot")
    <3>1. i = 6 => mounted \cap (NewBinds \cup Media) = {}
      BY <2>3 DEF NewBinds
    <3> QED
      BY <2>3, <3>1, Free
  <2>9. UNCHANGED <<boot, mode, post, parts, init>>
    BY <1>9 DEF UmountNext
  <2> HIDE DEF i
  <2>10. /\ i = 2 => "hdroot" \notin mounted'
         /\ i = 5 => "n-orig" \notin mounted'
         /\ i = 6 => "newroot" \notin mounted'
    BY <2>5, <2>6, <2>7, <2>8
  <2>11. /\ i + 1 > 2 => "hdroot" \notin mounted'
         /\ i + 1 > 5 => "n-orig" \notin mounted'
         /\ i + 1 > 6 => "newroot" \notin mounted'
    BY <2>1, <2>4, <2>10 DEF i
  <2>12. init # "off"
    BY <1>9 DEF UmountNext, Powered
  <2> QED
    BY <2>2, <2>4, <2>9, <2>11, <2>12
<1>10. CASE \E s \in signals : Deliver(s)
  BY <1>10 DEF Deliver
<1>11. CASE \E p \in Procs : Dies(p) \/ Respawn(p)
  BY <1>11 DEF Dies, Respawn
<1> QED
  BY <1>1, <1>2, <1>3, <1>4, <1>5, <1>6, <1>7, <1>8, <1>9, <1>10, <1>11,
     NextCases

\* If the machine was booted from a partition, the user's media are listed, and
\* the programs that use the session's mounts heed the signal, then the power
\* never goes off with the data storage or a user's medium still mounted.
THEOREM DownIsTidy == Orderly /\ Spec => []Tidy
<1>1. Init /\ Orderly => QuietInv /\ MountInv
  BY ShutdownAssumption
     DEF Init, Orderly, QuietInv, MountInv, Session, NewBinds, SysBinds
<1>2. WaitInv /\ MountInv /\ TypeOK => Tidy
  <2> SUFFICES ASSUME WaitInv, MountInv, TypeOK, init = "off"
               PROVE  mounted \cap Written = {}
    BY DEF Tidy
  <2>1. step["init"] = 12
    BY DEF MountInv
  <2>2. post = "gone" /\ step["postinit"] = 5
    BY <2>1 DEF WaitInv
  <2>3. mounted \cap Media = {}
    BY <2>2 DEF MountInv
  <2> QED
    BY <2>1, <2>3 DEF MountInv, Written
<1>3. Orderly /\ TypeOK /\ WaitInv /\ QuietInv /\ [Next]_vars => QuietInv'
  BY QuietStep
<1>4. Orderly /\ TypeOK /\ WaitInv /\ QuietInv /\ MountInv /\ [Next]_vars
        => MountInv'
  BY MountStep
<1>5. CASE Orderly
  BY <1>1, <1>2, <1>3, <1>4, <1>5, WaitInit, WaitStep, TypeCorrect, PTL
     DEF Spec
<1> QED
  BY <1>5

-----------------------------------------------------------------------------
(* The end cannot be held up.  EventuallyOff is out of the prover's reach, *)
(* since it needs fairness; what is proved is everything else of it: while *)
(* the machine is powered some script or kill has a step to take, each of  *)
(* them brings the end nearer, and nothing moves it away.                  *)

\* How far the machine is from being off: what the scripts have before them,
\* what the one at work has to unmount, and the kills that have not been run.
Stage ==
  CASE post = "down" -> 7
    [] post = "sleep" -> 6
    [] post = "umountall" -> 5
    [] post = "umounting" -> 4
    [] post = "gone" /\ "preinit" \in live -> 3
    [] post = "gone" /\ "preinit" \notin live /\ init = "waiting" -> 2
    [] post = "gone" /\ "preinit" \notin live /\ init = "umounting" -> 1
    [] OTHER -> 0
Tasks ==
  IF post = "umounting" THEN Cardinality(parts) + (5 - step["postinit"])
  ELSE 12 - step["init"]
Kills == Cardinality(signals)

Ahead == <<Stage, <<Tasks, Kills>>>>

\* The umounts are done in order, after the list of lsblk.
OrderInv ==
  /\ parts # {} => post = "umounting" /\ step["postinit"] = 1
  /\ post = "umounting" => step["postinit"] \in 1 .. 5
  /\ init # "waiting" => step["init"] \in 1 .. 12

\* Some script, or a kill in the background, has a step to take; what is listed
\* are the guards of those steps.
Ready ==
  \/ signals # {}
  \/ post \in {"down", "umountall"}
  \/ post = "sleep" /\ \A s \in signals : s[2] # 1
  \/ parts # {} \/ step["postinit"] \in 1 .. Len(Umounts("postinit"))
  \/ post = "umounting" /\ step["postinit"] = 5
  \/ "preinit" \in live /\ "postinit" \notin live
  \/ init = "waiting" /\ "preinit" \notin live
  \/ step["init"] \in 1 .. Len(Umounts("init"))
  \/ init = "umounting" /\ step["init"] = 12

\* The shutdown waits for nothing but its own steps: each step of a script, and
\* each kill that is run, brings the end nearer, and no process that dies or is
\* started again puts it off.
Approaches ==
  /\ [](Powered => Ready)
  /\ [][ /\ ShellScripts \/ Kernel => <<Ahead', Ahead>> \in Less3
         /\ (\E p \in Procs : Dies(p) \/ Respawn(p)) =>
              Ahead' = Ahead \/ <<Ahead', Ahead>> \in Less3 ]_vars

\* Every step keeps the order of the umounts.
LEMMA OrderStep ==
  ASSUME TypeOK, WaitInv, OrderInv, [Next]_vars
  PROVE  OrderInv'
<1> USE DEF OrderInv, TypeOK
<1>1. CASE UNCHANGED vars
  BY <1>1 DEF vars
<1>2. CASE DownClean \/ Amplify
  BY <1>2 DEF DownClean, Amplify
<1>3. CASE UmountAll
  <2>1. step'["postinit"] = 1 /\ step'["init"] = step["init"]
    BY <1>3 DEF UmountAll
  <2> QED
    BY <1>3, <2>1 DEF UmountAll
<1>4. CASE PostinitExits \/ PreinitExits \/ PowerOff
  BY <1>4 DEF PostinitExits, PreinitExits, PowerOff
<1>5. CASE InitResumes
  <2>1. step'["init"] = 1 /\ step'["postinit"] = step["postinit"]
    BY <1>5 DEF InitResumes
  <2> QED
    BY <1>5, <2>1 DEF InitResumes
<1>6. CASE \E m \in parts : UmountPart(m)
  BY <1>6 DEF UmountPart
<1>7. CASE UmountNext("postinit")
  <2>1. /\ step["postinit"] \in 1 .. 4 /\ parts = {}
        /\ step'["postinit"] = step["postinit"] + 1 /\ step'["init"] = step["init"]
    BY <1>7, UmountLengths DEF UmountNext
  <2> QED
    BY <1>7, <2>1 DEF UmountNext
<1>8. CASE UmountNext("init")
  <2>1. /\ step["init"] \in 1 .. 11
        /\ step'["init"] = step["init"] + 1 /\ step'["postinit"] = step["postinit"]
    BY <1>8, UmountLengths DEF UmountNext
  <2> QED
    BY <1>8, <2>1 DEF UmountNext
<1>9. CASE \E s \in signals : Deliver(s)
  BY <1>9 DEF Deliver
<1>10. CASE \E p \in Procs : Dies(p) \/ Respawn(p)
  BY <1>10 DEF Dies, Respawn
<1> QED
  BY <1>1, <1>2, <1>3, <1>4, <1>5, <1>6, <1>7, <1>8, <1>9, <1>10, NextCases

\* Wherever the scripts stand, one of the guards holds.
LEMMA IsReady ==
  ASSUME TypeOK, WaitInv, OrderInv, Powered
  PROVE  Ready
<1>1. CASE post = "umounting"
  <2>1. step["postinit"] \in 1 .. 4 \/ step["postinit"] = 5
    BY <1>1 DEF OrderInv
  <2> QED
    BY <1>1, <2>1, UmountLengths DEF Ready
<1>2. CASE post = "gone"
  <2>1. "postinit" \notin live
    BY <1>2 DEF WaitInv
  <2>2. CASE init = "umounting"
    <3>1. step["init"] \in 1 .. 11 \/ step["init"] = 12
      BY <2>2 DEF OrderInv
    <3> QED
      BY <2>2, <3>1, UmountLengths DEF Ready
  <2>3. CASE init = "waiting"
    BY <2>1, <2>3 DEF Ready
  <2> QED
    BY <2>2, <2>3 DEF TypeOK, Powered
<1>3. CASE post \in {"down", "sleep", "umountall"}
  BY <1>3 DEF Ready
<1> QED
  BY <1>1, <1>2, <1>3 DEF TypeOK

\* The lists of the umounts, as finite sets.
LEMMA SixAreFinite ==
  ASSUME NEW a, NEW b, NEW c, NEW d, NEW e, NEW f
  PROVE  IsFiniteSet({a, b, c, d, e, f})
<1>1. IsFiniteSet({a} \cup {b}) /\ IsFiniteSet({c} \cup {d}) /\ IsFiniteSet({e} \cup {f})
  BY FS_Singleton, FS_Union
<1>2. IsFiniteSet((({a} \cup {b}) \cup ({c} \cup {d})) \cup ({e} \cup {f}))
  BY <1>1, FS_Union
<1>3. {a, b, c, d, e, f} = (({a} \cup {b}) \cup ({c} \cup {d})) \cup ({e} \cup {f})
  OBVIOUS
<1> QED BY <1>2, <1>3

\* What the scripts work through is finite.
LEMMA Finite == IsFiniteSet(Points) /\ IsFiniteSet((Procs \cup Scripts) \X {1, 2})
<1>1. IsFiniteSet(Points)
  <2>1. /\ IsFiniteSet({"s-proc", "s-sys", "s-dev", "s-orig", "s-cdroot", "s-cdroot"})
        /\ IsFiniteSet({"n-proc", "n-sys", "n-dev", "n-orig", "n-cdroot", "n-cdroot"})
        /\ IsFiniteSet({"cdroot", "sysroot", "s-pts", "n-pts", "hdroot", "newroot"})
    BY SixAreFinite
  <2>2. /\ SysBinds = {"s-proc", "s-sys", "s-dev", "s-orig", "s-cdroot", "s-cdroot"}
        /\ NewBinds = {"n-proc", "n-sys", "n-dev", "n-orig", "n-cdroot", "n-cdroot"}
    BY DEF SysBinds, NewBinds
  <2>3. IsFiniteSet(SysBinds \cup NewBinds)
    BY <2>1, <2>2, FS_Union
  <2>4. IsFiniteSet(SysBinds \cup NewBinds \cup Media)
    BY <2>3, ShutdownAssumption, FS_Union
  <2> QED
    BY <2>1, <2>4, FS_Union DEF Points
<1>2. IsFiniteSet((Procs \cup Scripts) \X {1, 2})
  <2>1. IsFiniteSet({"preinit"} \cup {"postinit"}) /\ IsFiniteSet({1} \cup {2})
    BY FS_Singleton, FS_Union
  <2>2. Scripts = {"preinit"} \cup {"postinit"} /\ {1, 2} = {1} \cup {2}
    BY DEF Scripts
  <2>3. IsFiniteSet(Procs \cup Scripts)
    BY <2>1, <2>2, ShutdownAssumption, FS_Union
  <2> QED
    BY <2>1, <2>2, <2>3, FS_Product
<1> QED
  BY <1>1, <1>2

\* So are the mounts still to unmount and the kills still to run.
LEMMA AreFinite == ASSUME TypeOK PROVE IsFiniteSet(parts) /\ IsFiniteSet(signals)
  BY Finite, FS_Subset DEF TypeOK

\* The same after a step.
LEMMA AreFiniteNext == ASSUME TypeOK' PROVE IsFiniteSet(parts') /\ IsFiniteSet(signals')
  BY Finite, FS_Subset DEF TypeOK

\* The umounts that are left are a number.
LEMMA Differences ==
  (\A i \in 1 .. 5 : 5 - i \in Nat) /\ (\A i \in 0 .. 12 : 12 - i \in Nat)
  OBVIOUS

\* And numbers add up.
LEMMA Sums == \A m, n \in Nat : m + n \in Nat
  OBVIOUS

\* Ahead is made of numbers.
LEMMA IsDistance ==
  ASSUME TypeOK, OrderInv
  PROVE  Stage \in Nat /\ Tasks \in Nat /\ Kills \in Nat
<1>1. Cardinality(parts) \in Nat /\ Cardinality(signals) \in Nat
  BY AreFinite, FS_CardinalityType
<1>2. Stage \in Nat
  BY DEF Stage
<1>3. CASE post = "umounting"
  <2>1. 5 - step["postinit"] \in Nat
    BY <1>3, Differences DEF OrderInv
  <2> QED
    BY <1>1, <1>2, <1>3, <2>1, Sums DEF Tasks, Kills
<1>4. CASE post # "umounting"
  <2>1. 12 - step["init"] \in Nat
    BY Differences DEF TypeOK
  <2> QED
    BY <1>1, <1>2, <1>4, <2>1 DEF Tasks, Kills
<1> QED
  BY <1>3, <1>4

\* The same after a step.
LEMMA IsDistanceNext ==
  ASSUME TypeOK', OrderInv'
  PROVE  Stage' \in Nat /\ Tasks' \in Nat /\ Kills' \in Nat
<1>1. Cardinality(parts') \in Nat /\ Cardinality(signals') \in Nat
  BY AreFiniteNext, FS_CardinalityType
<1>2. Stage' \in Nat
  BY DEF Stage
<1>3. CASE post' = "umounting"
  <2>1. 5 - step'["postinit"] \in Nat
    BY <1>3, Differences, Zenon DEF OrderInv
  <2> QED
    BY <1>1, <1>2, <1>3, <2>1, Sums DEF Tasks, Kills
<1>4. CASE post' # "umounting"
  <2>1. step'["init"] \in 0 .. 12
    BY DEF TypeOK
  <2>2. 12 - step'["init"] \in Nat
    BY <2>1, Differences, Zenon
  <2> QED
    BY <1>1, <1>2, <1>4, <2>2 DEF Tasks, Kills
<1> QED
  BY <1>3, <1>4

\* Who is started again, or killed, is not one of the scripts.
LEMMA ScriptsStay ==
  ASSUME TypeOK, WaitInv,
         (\E s \in signals : Deliver(s)) \/ (\E p \in Procs : Dies(p) \/ Respawn(p))
  PROVE  /\ "preinit" \in live' <=> "preinit" \in live
         /\ UNCHANGED <<post, init, parts, step>>
<1>1. "preinit" \notin Procs
  BY ShutdownAssumption DEF Scripts
<1>2. CASE \E p \in Procs : Dies(p) \/ Respawn(p)
  BY <1>1, <1>2 DEF Dies, Respawn
<1>3. ASSUME NEW s \in signals, Deliver(s)
      PROVE  /\ "preinit" \in live' <=> "preinit" \in live
             /\ UNCHANGED <<post, init, parts, step>>
  <2>1. s[1] # "preinit"
    BY DEF WaitInv, Scripts
  <2> QED
    BY <1>3, <2>1 DEF Deliver
<1> QED
  BY <1>2, <1>3

\* Each step of a script and each kill leaves less to do.
LEMMA StepsNearer ==
  ASSUME TypeOK, WaitInv, OrderInv, ShellScripts \/ Kernel
  PROVE  \/ Stage' < Stage
         \/ Stage' = Stage /\ Tasks' < Tasks
         \/ Stage' = Stage /\ Tasks' = Tasks /\ Kills' < Kills
<1>1. CASE DownClean \/ Amplify \/ UmountAll
  BY <1>1 DEF DownClean, Amplify, UmountAll, Stage
<1>2. CASE PostinitExits
  BY <1>2 DEF PostinitExits, Stage
<1>3. CASE PreinitExits
  <2>1. post = "gone" /\ post' = "gone" /\ "preinit" \in live /\ "preinit" \notin live'
    BY <1>3 DEF PreinitExits, WaitInv
  <2> QED
    BY <2>1 DEF Stage
<1>4. CASE InitResumes
  <2>1. /\ post = "gone" /\ post' = "gone" /\ "preinit" \notin live /\ live' = live
        /\ init = "waiting" /\ init' = "umounting"
    BY <1>4 DEF InitResumes, WaitInv
  <2> QED
    BY <2>1 DEF Stage
<1>5. CASE PowerOff
  <2>1. /\ post = "gone" /\ post' = "gone" /\ "preinit" \notin live /\ live' = live
        /\ init = "umounting" /\ init' = "off"
    BY <1>5 DEF PowerOff, WaitInv
  <2> QED
    BY <2>1 DEF Stage
<1>6. ASSUME NEW m \in parts, UmountPart(m)
      PROVE  Stage' = Stage /\ Tasks' < Tasks
  <2>1. /\ post = "umounting" /\ parts' = parts \ {m} /\ step["postinit"] = 1
        /\ UNCHANGED <<post, live, init, step>>
    BY <1>6 DEF UmountPart, OrderInv
  <2>2. Cardinality(parts) \in Nat /\ Cardinality(parts') = Cardinality(parts) - 1
    BY <2>1, AreFinite, FS_CardinalityType, FS_RemoveElement
  <2>3. /\ Tasks = Cardinality(parts) + (5 - step["postinit"])
        /\ Tasks' = Cardinality(parts') + (5 - step["postinit"])
    BY <2>1 DEF Tasks
  <2>4. Stage' = Stage
    BY <2>1 DEF Stage
  <2> QED
    BY <2>1, <2>2, <2>3, <2>4
<1>7. CASE UmountNext("postinit")
  <2>1. /\ step["postinit"] \in 1 .. 4
        /\ step'["postinit"] = step["postinit"] + 1
        /\ UNCHANGED <<post, live, init, parts>>
    BY <1>7, UmountLengths DEF UmountNext, TypeOK
  <2>2. post = "umounting"
    BY <2>1 DEF WaitInv, TypeOK
  <2>3. Cardinality(parts) \in Nat
    BY AreFinite, FS_CardinalityType
  <2>4. /\ Tasks = Cardinality(parts) + (5 - step["postinit"])
        /\ Tasks' = Cardinality(parts) + (5 - (step["postinit"] + 1))
    BY <2>1, <2>2 DEF Tasks
  <2>5. Stage' = Stage
    BY <2>1 DEF Stage
  <2> QED
    BY <2>1, <2>3, <2>4, <2>5
<1>8. CASE UmountNext("init")
  <2>1. /\ step["init"] \in 1 .. 11
        /\ step'["init"] = step["init"] + 1
        /\ UNCHANGED <<post, live, init, parts>>
    BY <1>8, UmountLengths DEF UmountNext, TypeOK
  <2>2. post = "gone"
    BY <2>1 DEF WaitInv, TypeOK
  <2>3. /\ Tasks = 12 - step["init"] /\ Tasks' = 12 - (step["init"] + 1)
    BY <2>1, <2>2 DEF Tasks
  <2>4. Stage' = Stage
    BY <2>1 DEF Stage
  <2> QED
    BY <2>1, <2>3, <2>4
<1>9. ASSUME NEW s \in signals, Deliver(s)
      PROVE  Stage' = Stage /\ Tasks' = Tasks /\ Kills' < Kills
  <2>1. Stage' = Stage /\ Tasks' = Tasks
    BY <1>9, ScriptsStay DEF Stage, Tasks
  <2>2. signals' = signals \ {s}
    BY <1>9 DEF Deliver
  <2>3. Cardinality(signals) \in Nat /\ Cardinality(signals') = Cardinality(signals) - 1
    BY <2>2, AreFinite, FS_CardinalityType, FS_RemoveElement
  <2> QED
    BY <2>1, <2>3 DEF Kills
<1> QED
  BY <1>1, <1>2, <1>3, <1>4, <1>5, <1>6, <1>7, <1>8, <1>9 DEF ShellScripts, Kernel

\* Who dies or is started again leaves no more to do.
LEMMA OthersNoFarther ==
  ASSUME TypeOK, WaitInv, \E p \in Procs : Dies(p) \/ Respawn(p)
  PROVE  Stage' = Stage /\ Tasks' = Tasks /\ (Kills' = Kills \/ Kills' < Kills)
<1>1. Stage' = Stage /\ Tasks' = Tasks
  BY ScriptsStay DEF Stage, Tasks
<1>2. signals' \subseteq signals
  BY DEF Dies, Respawn
<1>3. /\ Cardinality(signals) \in Nat /\ Cardinality(signals') \in Nat
      /\ Cardinality(signals') <= Cardinality(signals)
  BY <1>2, AreFinite, FS_Subset, FS_CardinalityType
<1> QED
  BY <1>1, <1>3 DEF Kills

\* What an Ahead that is nearer is made of.
LEMMA AheadLess ==
  ASSUME Stage \in Nat, Tasks \in Nat, Kills \in Nat,
         Stage' \in Nat, Tasks' \in Nat, Kills' \in Nat,
         \/ Stage' < Stage
         \/ Stage' = Stage /\ Tasks' < Tasks
         \/ Stage' = Stage /\ Tasks' = Tasks /\ Kills' < Kills
  PROVE  <<Ahead', Ahead>> \in Less3
<1>1. PICK a, b, c \in Nat : a = Stage' /\ b = Tasks' /\ c = Kills'
  OBVIOUS
<1>2. PICK x, y, z \in Nat : x = Stage /\ y = Tasks /\ z = Kills
  OBVIOUS
<1>3. \/ a < x
      \/ a = x /\ b < y
      \/ a = x /\ b = y /\ c < z
  BY <1>1, <1>2
<1>4. Ahead' = <<a, <<b, c>>>> /\ Ahead = <<x, <<y, z>>>>
  BY <1>1, <1>2 DEF Ahead
<1>5. <<<<a, <<b, c>>>>, <<x, <<y, z>>>>>> \in Less3
  <2>1. a \in Nat /\ b \in Nat /\ c \in Nat
    BY <1>1
  <2>2. x \in Nat /\ y \in Nat /\ z \in Nat
    BY <1>2
  <2> QED
    BY ONLY <2>1, <2>2, <1>3, Less3Is
<1> QED
  BY <1>4, <1>5

\* For any processes, tempers and mounts: the shutdown cannot be held up.
THEOREM NeverHeldUp == IsWellFoundedOn(Less3, Nat \X (Nat \X Nat)) /\ (Spec => Approaches)
<1> DEFINE Inv == TypeOK /\ WaitInv /\ OrderInv
<1>1. Spec => []Inv
  <2>1. Init => OrderInv
    BY DEF Init, OrderInv
  <2> QED
    BY <2>1, OrderStep, WaitInit, WaitStep, TypeCorrect, PTL DEF Spec
<1>2. Inv /\ Inv' /\ (ShellScripts \/ Kernel) => <<Ahead', Ahead>> \in Less3
  <2> SUFFICES ASSUME Inv, Inv', ShellScripts \/ Kernel PROVE <<Ahead', Ahead>> \in Less3
    OBVIOUS
  <2>1. Stage \in Nat /\ Tasks \in Nat /\ Kills \in Nat
    BY IsDistance
  <2>2. Stage' \in Nat /\ Tasks' \in Nat /\ Kills' \in Nat
    BY IsDistanceNext
  <2> QED
    BY <2>1, <2>2, StepsNearer, AheadLess
<1>3. Inv /\ Inv' /\ (\E p \in Procs : Dies(p) \/ Respawn(p)) =>
        Ahead' = Ahead \/ <<Ahead', Ahead>> \in Less3
  <2> SUFFICES ASSUME Inv, Inv', \E p \in Procs : Dies(p) \/ Respawn(p)
               PROVE  Ahead' = Ahead \/ <<Ahead', Ahead>> \in Less3
    OBVIOUS
  <2>1. Stage \in Nat /\ Tasks \in Nat /\ Kills \in Nat
    BY IsDistance
  <2>2. Stage' \in Nat /\ Tasks' \in Nat /\ Kills' \in Nat
    BY IsDistanceNext
  <2>3. Stage' = Stage /\ Tasks' = Tasks /\ (Kills' = Kills \/ Kills' < Kills)
    BY OthersNoFarther
  <2>4. CASE Kills' = Kills
    BY <2>3, <2>4 DEF Ahead
  <2>5. CASE Kills' < Kills
    BY <2>1, <2>2, <2>3, <2>5, AheadLess
  <2> QED
    BY <2>3, <2>4, <2>5
<1>4. Inv => (Powered => Ready)
  BY IsReady
<1>5. Inv /\ Inv' =>
        [ /\ ShellScripts \/ Kernel => <<Ahead', Ahead>> \in Less3
          /\ (\E p \in Procs : Dies(p) \/ Respawn(p)) =>
               Ahead' = Ahead \/ <<Ahead', Ahead>> \in Less3 ]_vars
  BY <1>2, <1>3
<1> HIDE DEF Inv
<1>6. Spec => Approaches
  BY <1>1, <1>4, <1>5, PTL DEF Approaches
<1> QED
  BY <1>6, LessWellFounded

=============================================================================
