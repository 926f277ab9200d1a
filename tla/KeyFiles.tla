------------------------------ MODULE KeyFiles ------------------------------
(***************************************************************************)
(* The key files of the devnet programs: issuerkey -new and escrowdevnet   *)
(* -gen-issuer / -gen-admin write one, issuerkey -from-key and every mode  *)
(* of escrowdevnet that signs or pins reads it.  One path is modelled;     *)
(* programs that use different paths do not meet.                          *)
(*                                                                         *)
(* A run of a generator is a process of several steps: it looks whether    *)
(* the file exists, makes the directory and the key, opens the file, which *)
(* creates or empties it, and writes.  It may fail or be killed between    *)
(* any two, and other programs run in between.  A key is known by the run  *)
(* that generated it, its text (a JSON array of 64 numbers) by its length: *)
(* a write starts at the beginning of the file and leaves what is beyond   *)
(* its end.  A write of this size is one step for every other process.     *)
(***************************************************************************)
EXTENDS Integers

CONSTANTS
    Runs,       \* runs of a generator
    Own,        \* the payer's own key, which a file may hold from the start
    Absent,     \* no file
    Lengths,    \* of the text of a key
    Roles       \* what a key is loaded as: "issuer" or "admin"

ASSUME KeyFilesAssumption ==
    /\ Own \notin Runs
    /\ Lengths \subseteq Nat \ {0}
    /\ Absent \notin Runs \cup {Own}

ASSUME AbsentAssumption == Absent \notin [by: SUBSET (Runs \cup {Own}), length: Nat]

VARIABLES
    pc,      \* where each run is
    length,  \* of the text of the key each run generates
    file,    \* what is at the path
    loads,   \* the keys that were accepted, each with what it was loaded as
    met      \* whether two runs were ever past the check and under way together

keyVars == <<pc, length, file, loads, met>>

\* A file that was opened and not written to the end holds no key; otherwise
\* by has the run whose text it begins with, and length is that of the whole.
Empty == [by |-> {}, length |-> 0]

KeyInit ==
    /\ pc = [r \in Runs |-> "start"]
    /\ length \in [Runs -> Lengths]
    /\ file \in {Absent} \cup {[by |-> {Own}, length |-> n] : n \in Lengths}
    /\ loads = {}
    /\ met = FALSE

Going(r) == pc[r] \in {"checked", "generated", "opened"}

To(r, label) == pc' = [pc EXCEPT ![r] = label]

Pass(r) ==
    /\ To(r, "checked")
    /\ met' = (met \/ \E s \in Runs \ {r} : Going(s))

\* Mutant of LookForFile: what is there is not looked at.
LookForNothing(r) ==
    /\ pc[r] = "start"
    /\ Pass(r)
    /\ UNCHANGED <<length, file, loads>>

\* os.Stat, and the refusal.
LookForFile(r) ==
    /\ pc[r] = "start"
    /\ \/ file = Absent /\ Pass(r)
       \/ file # Absent /\ To(r, "refused") /\ UNCHANGED met
    /\ UNCHANGED <<length, file, loads>>

\* The directory and the key, in either order.
Generate(r) ==
    /\ pc[r] = "checked"
    /\ To(r, "generated")
    /\ UNCHANGED <<length, file, loads, met>>

\* os.WriteFile: O_CREATE and O_TRUNC, then the text.
OpenFile(r) ==
    /\ pc[r] = "generated"
    /\ To(r, "opened")
    /\ file' = Empty
    /\ UNCHANGED <<length, loads, met>>

Overwrite(r) == [by |-> {r}, length |-> IF file.length > length[r] THEN file.length ELSE length[r]]

WriteText(r) ==
    /\ pc[r] = "opened"
    /\ To(r, "written")
    /\ file' = Overwrite(r)
    /\ UNCHANGED <<length, loads, met>>

\* A call fails and the program says so, or the program is killed.
Fail(r) ==
    /\ Going(r)
    /\ To(r, "failed")
    /\ UNCHANGED <<length, file, loads, met>>

TextLength(r) == IF r = Own THEN file.length ELSE length[r]

\* Mutant of Accepted: the length is not looked at, and an empty file is the
\* key without bytes.
AcceptedLoosely ==
    IF file = Absent THEN {} ELSE IF file = Empty THEN {Absent} ELSE file.by

\* What readSolanaKeyFile and loadEd25519KeyFile return: the file must be one
\* array of 64 bytes, with nothing after it.
Accepted ==
    IF file = Absent THEN {} ELSE {r \in file.by : file.length = TextLength(r)}

\* A program loads the key; loadAdmin refuses the payer's own.
Load(role) ==
    /\ \E r \in Accepted :
          /\ role = "admin" => r # Own
          /\ loads' = loads \cup {[key |-> r, role |-> role]}
    /\ UNCHANGED <<pc, length, file, met>>

KeyNext ==
    \/ \E r \in Runs :
          LookForFile(r) \/ Generate(r) \/ OpenFile(r) \/ WriteText(r) \/ Fail(r)
    \/ \E role \in Roles : Load(role)

KeySpec == KeyInit /\ [][KeyNext]_keyVars

-----------------------------------------------------------------------------

KeyTypeOK ==
    /\ pc \in [Runs -> {"start", "checked", "refused", "generated", "opened",
                        "written", "failed"}]
    /\ length \in [Runs -> Lengths]
    /\ file \in [by: SUBSET (Runs \cup {Own}), length: Nat] \cup {Absent}
    /\ loads \subseteq [key: Runs \cup {Own}, role: Roles]
    /\ met \in BOOLEAN

\* "One identity, both sides" (cmd/issuerkey/main.go:78): every program that
\* ever loads the file gets a key that was there before or that a generator
\* wrote to its end, never half of one or a mixture; and unless two
\* generators met, all of them get the same one.
OneIdentity ==
    /\ \A l \in loads : l.key = Own \/ l.key \in {r \in Runs : pc[r] = "written"}
    /\ ~met => \A l, k \in loads : l.key = k.key

\* A run that wrote its key (cmd/escrowdevnet/main.go:1060) leaves a file
\* that holds it, whatever was run and killed since, unless it met another.
KeptUnlessMet == \A r \in Runs : pc[r] = "written" /\ ~met => Accepted = {r}

\* What generateKeyFile says of itself (cmd/escrowdevnet/main.go:1037): "It
\* refuses to overwrite".
RefusesToOverwrite == \A r \in Runs : pc[r] = "written" => Accepted = {r}

=============================================================================
