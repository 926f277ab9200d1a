--------------------------- MODULE KeyFilesProofs ---------------------------
(***************************************************************************)
(* KeyFiles for any number of generators and texts of any length.          *)
(***************************************************************************)
EXTENDS KeyFiles, TLAPS

\* What the path holds agrees with how far the runs are.
FileFollowsRuns ==
    /\ file = Absent => \A r \in Runs : pc[r] \notin {"opened", "written"}
    /\ file # Absent =>
          /\ file.by \subseteq {Own} \cup {r \in Runs : pc[r] = "written"}
          /\ \A a, b \in file.by : a = b

\* Unless two runs met, at most one is under way, it found no file, and the
\* file changed under nobody.
OneAtATime ==
    ~met =>
        /\ \A r, s \in Runs : Going(r) /\ Going(s) => r = s
        /\ \A r \in Runs :
              /\ pc[r] \in {"checked", "generated"} => file = Absent
              /\ pc[r] = "opened" => file = Empty
              /\ pc[r] = "written" => file = [by |-> {r}, length |-> length[r]]
        /\ \A l \in loads : l.key \in Accepted

LoadsAreWhole == \A l \in loads : l.key = Own \/ l.key \in {r \in Runs : pc[r] = "written"}

KeyInv == KeyTypeOK /\ FileFollowsRuns /\ OneAtATime /\ LoadsAreWhole

\* At the start the file is missing, or holds one whole key.
LEMMA KeyInvInit == KeyInit => KeyInv
<1>. SUFFICES ASSUME KeyInit PROVE KeyInv
  OBVIOUS
<1>. USE KeyFilesAssumption DEF KeyInit
<1>1. KeyTypeOK
  <2>1. file \in [by: SUBSET (Runs \cup {Own}), length: Nat] \cup {Absent}
    OBVIOUS
  <2>. QED
    BY <2>1 DEF KeyTypeOK
<1>3. OneAtATime /\ LoadsAreWhole
  BY DEF OneAtATime, LoadsAreWhole, Going
<1>2. FileFollowsRuns
  <2>1. file # Absent => file.by = {Own}
    OBVIOUS
  <2>. QED
    BY <2>1 DEF FileFollowsRuns
<1>. QED
  BY <1>1, <1>2, <1>3 DEF KeyInv

\* A file is a record, and Absent is not.
LEMMA FileIsNotAbsent ==
    ASSUME NEW b \in SUBSET (Runs \cup {Own}), NEW n \in Nat
    PROVE  [by |-> b, length |-> n] # Absent
BY AbsentAssumption

\* One step per action of a generator and of a loader.
LEMMA KeyInvStep == KeyInv /\ [KeyNext]_keyVars => KeyInv'
<1>. SUFFICES ASSUME KeyInv, [KeyNext]_keyVars PROVE KeyInv'
  OBVIOUS
<1>. USE KeyFilesAssumption DEF KeyInv
<1>1. CASE UNCHANGED keyVars
  BY <1>1 DEF keyVars, KeyTypeOK, FileFollowsRuns, OneAtATime, LoadsAreWhole, Going, Accepted,
              TextLength
<1>2. ASSUME NEW r \in Runs, LookForFile(r) PROVE KeyInv'
  <2>1. CASE file = Absent /\ Pass(r)
    <3>1. KeyTypeOK' /\ FileFollowsRuns' /\ LoadsAreWhole'
      BY <1>2, <2>1 DEF LookForFile, Pass, To, KeyTypeOK, FileFollowsRuns, LoadsAreWhole
    <3>2. OneAtATime'
      BY <1>2, <2>1
         DEF LookForFile, Pass, To, KeyTypeOK, FileFollowsRuns, OneAtATime, Going, Accepted
    <3>. QED
      BY <3>1, <3>2
  <2>2. CASE file # Absent /\ To(r, "refused") /\ UNCHANGED met
    <3>1. KeyTypeOK' /\ FileFollowsRuns' /\ LoadsAreWhole'
      BY <1>2, <2>2 DEF LookForFile, To, KeyTypeOK, FileFollowsRuns, LoadsAreWhole
    <3>2. OneAtATime'
      BY <1>2, <2>2
         DEF LookForFile, To, KeyTypeOK, OneAtATime, Going, Accepted, TextLength
    <3>. QED
      BY <3>1, <3>2
  <2>. QED
    BY <1>2, <2>1, <2>2 DEF LookForFile
<1>3. ASSUME NEW r \in Runs, Generate(r) PROVE KeyInv'
  <2>1. KeyTypeOK' /\ FileFollowsRuns' /\ LoadsAreWhole'
    BY <1>3 DEF Generate, To, KeyTypeOK, FileFollowsRuns, LoadsAreWhole
  <2>2. OneAtATime'
    BY <1>3 DEF Generate, To, KeyTypeOK, OneAtATime, Going, Accepted, TextLength
  <2>. QED
    BY <2>1, <2>2
<1>4. ASSUME NEW r \in Runs, OpenFile(r) PROVE KeyInv'
  <2>1. file' = Empty /\ Empty # Absent
    BY <1>4, FileIsNotAbsent DEF OpenFile, Empty
  <2>2. KeyTypeOK' /\ FileFollowsRuns' /\ LoadsAreWhole'
    BY <1>4, <2>1 DEF OpenFile, To, Empty, KeyTypeOK, FileFollowsRuns, LoadsAreWhole
  <2>3. OneAtATime'
    BY <1>4, <2>1
       DEF OpenFile, To, Empty, KeyTypeOK, FileFollowsRuns, OneAtATime, Going, Accepted
  <2>. QED
    BY <2>2, <2>3
<1>5. ASSUME NEW r \in Runs, WriteText(r) PROVE KeyInv'
  <2>0. file # Absent /\ r # Own
    BY <1>5 DEF WriteText, FileFollowsRuns
  <2>1. /\ file # Absent
        /\ length[r] \in Nat /\ length[r] > 0 /\ file.length \in Nat
        /\ r # Own
    <3>1. file \in [by: SUBSET (Runs \cup {Own}), length: Nat]
      BY <2>0 DEF KeyTypeOK
    <3>2. length[r] \in Lengths
      BY DEF KeyTypeOK
    <3>3. file.length \in Nat
      BY <3>1
    <3>4. length[r] \in Nat /\ length[r] > 0
      <4>1. length[r] \in Nat \ {0}
        BY <3>2
      <4>2. \A n \in Nat \ {0} : n > 0
        OBVIOUS
      <4>. QED
        BY <4>1, <4>2
    <3>. QED
      BY <2>0, <3>3, <3>4
  <2>2. file' = Overwrite(r) /\ Overwrite(r) # Absent
    BY <1>5, <2>1, FileIsNotAbsent DEF WriteText, Overwrite
  <2>3. KeyTypeOK'
    BY <1>5, <2>1, <2>2 DEF WriteText, To, Overwrite, KeyTypeOK
  <2>4. FileFollowsRuns' /\ LoadsAreWhole'
    BY <1>5, <2>1, <2>2 DEF WriteText, To, Overwrite, KeyTypeOK, FileFollowsRuns, LoadsAreWhole
  <2>5. ~met => Overwrite(r) = [by |-> {r}, length |-> length[r]]
    BY <1>5, <2>1 DEF WriteText, OneAtATime, Overwrite, Empty
  <2>6. ~met => loads = {}
    BY <1>5, <2>1, FileIsNotAbsent DEF WriteText, OneAtATime, Accepted, Empty
  <2>7. OneAtATime'
    BY <1>5, <2>1, <2>2, <2>5, <2>6
       DEF WriteText, To, KeyTypeOK, OneAtATime, Going, Empty
  <2>. QED
    BY <2>3, <2>4, <2>7
<1>6. ASSUME NEW r \in Runs, Fail(r) PROVE KeyInv'
  <2>1. KeyTypeOK' /\ FileFollowsRuns' /\ LoadsAreWhole'
    BY <1>6 DEF Fail, Going, To, KeyTypeOK, FileFollowsRuns, LoadsAreWhole
  <2>2. OneAtATime'
    BY <1>6 DEF Fail, To, KeyTypeOK, OneAtATime, Going, Accepted, TextLength
  <2>. QED
    BY <2>1, <2>2
<1>7. ASSUME NEW role \in Roles, Load(role) PROVE KeyInv'
  <2>1. PICK k \in Accepted : loads' = loads \cup {[key |-> k, role |-> role]}
    BY <1>7 DEF Load
  <2>2. k \in {Own} \cup {r \in Runs : pc[r] = "written"}
    BY <2>1 DEF Accepted, FileFollowsRuns
  <2>3. KeyTypeOK' /\ FileFollowsRuns' /\ LoadsAreWhole'
    BY <1>7, <2>1, <2>2 DEF Load, KeyTypeOK, FileFollowsRuns, LoadsAreWhole
  <2>4. OneAtATime'
    BY <1>7, <2>1 DEF Load, OneAtATime, Going, Accepted, TextLength
  <2>. QED
    BY <2>3, <2>4
<1>. QED
  BY <1>1, <1>2, <1>3, <1>4, <1>5, <1>6, <1>7 DEF KeyNext

\* The invariant holds in every reachable state.
LEMMA KeyInvAlways == KeySpec => []KeyInv
BY KeyInvInit, KeyInvStep, PTL DEF KeySpec

\* Type correctness.
THEOREM KeyTypeCorrect == KeySpec => []KeyTypeOK
BY KeyInvAlways, PTL DEF KeyInv

\* For any number of concurrent and killed generators: no program loads a key
\* that was not written to its end (readSolanaKeyFile,
\* cmd/issuerkey/main.go:97), and unless two generators met all load one key.
THEOREM OneIdentityAlways == KeySpec => []OneIdentity
<1>1. KeyInv => OneIdentity
  <2>1. ASSUME KeyInv, ~met, NEW l \in loads, NEW k \in loads PROVE l.key = k.key
    <3>1. l.key \in Accepted /\ k.key \in Accepted
      BY <2>1 DEF KeyInv, OneAtATime
    <3>. QED
      BY <2>1, <3>1 DEF KeyInv, FileFollowsRuns, Accepted
  <2>. QED
    BY <2>1 DEF KeyInv, LoadsAreWhole, OneIdentity
<1>. QED
  BY <1>1, KeyInvAlways, PTL

\* Only a meeting of two generators (the check at
\* cmd/escrowdevnet/main.go:1040 and the write at line 1060) ever replaces a
\* key that was written.
THEOREM KeptUnlessMetAlways == KeySpec => []KeptUnlessMet
<1>1. KeyInv => KeptUnlessMet
  <2>1. ASSUME KeyInv, ~met, NEW r \in Runs, pc[r] = "written" PROVE Accepted = {r}
    <3>1. file = [by |-> {r}, length |-> length[r]] /\ length[r] \in Nat /\ r # Own
      BY <2>1, KeyFilesAssumption DEF KeyInv, OneAtATime, KeyTypeOK
    <3>2. file # Absent
      BY <3>1, FileIsNotAbsent
    <3>. QED
      BY <3>1, <3>2 DEF Accepted, TextLength
  <2>. QED
    BY <2>1 DEF KeptUnlessMet
<1>. QED
  BY <1>1, KeyInvAlways, PTL

=============================================================================
