------------------------------- MODULE LogStore -------------------------------
(***************************************************************************)
(* The log files of Kodosi (src/logging/ApplicationLogStore.cpp).           *)
(*                                                                         *)
(* Each process writes a family of files of its own, under a random name:   *)
(* a base file, locked while the process logs, and numbered archives, 1 the *)
(* newest.  A full base file is rotated: the oldest archive is removed,     *)
(* the others are renamed one up, the base is copied to archive 1 and then  *)
(* truncated.  Before it opens its own family a process prunes those that   *)
(* others left: it lists the directory, locks what it finds family by       *)
(* family, and removes all but the newest.                                  *)
(*                                                                         *)
(* A step is a system call, except that a family is locked and checked in   *)
(* one step.  Any process may end at any moment, killed or by exiting, and  *)
(* a system call may fail.  Records of all threads of a process are written *)
(* under one mutex, so they come one after the other.                       *)
(*                                                                         *)
(* The single-instance guard keeps processes that share a runtime directory *)
(* apart; processes that share only the log directory meet here.            *)
(***************************************************************************)
EXTENDS Integers, Sequences, FiniteSets, FiniteSetsExt, SequencesExt, TLC

CONSTANTS
  Process,        \* the processes ever started; a process names its family
  None,           \* no process
  Absent,         \* the contents of a file that is not there
  RotationBytes,  \* most bytes in a file (rotationBytes)
  MaxArchives,    \* archives of a family (maximumArchives)
  MaxFamilies,    \* families kept (maximumCompletedFamilies)
  RecordLimit,    \* bound: records a process writes
  TotalLimit,     \* bound: records all processes write, those of a family left over too
  FaultLimit      \* bound: system calls that fail

ASSUME ConstantsAssumption ==
  /\ IsFiniteSet(Process) /\ None \notin Process
  /\ Absent \notin Seq(Nat)
  /\ {RotationBytes, MaxArchives, MaxFamilies, RecordLimit} \subseteq Nat \ {0}
  /\ RotationBytes >= 2              \* no line is longer than a file
  /\ {TotalLimit, FaultLimit} \subseteq Nat

VARIABLES
  pc,      \* where each process is
  files,   \* external: the contents of each family's base file (0) and archives
  nameless,\* external: families whose base file was removed while their process had it open
  lock,    \* external: the process that holds the lock of a family's base file
  listed,  \* families: what each process has listed of other families, not yet locked
  ordered, \* ordered: what each process has checked, locked or without a base
  doomed,  \* files each process has still to remove
  archive, \* archive: the archive the rotation of each process has come to
  written, \* history: records of each family that were written
  pruned,  \* history: families that were chosen to be removed
  alone,   \* history: processes that no other ran beside since they listed
  faults   \* calls failed so far

vars == <<pc, files, nameless, lock, listed, ordered, doomed, archive, written,
          pruned, alone, faults>>

Number   == 0 .. MaxArchives + 1      \* one more: left by a version that kept more
File     == Process \X Number
Pruning  == {"locking", "removing"}
Opening  == {"opening", "opened"}
Rotating == {"dropping", "renaming", "creating", "copying", "truncating"}
Logging  == {"logging", "appending"} \cup Rotating

\* Lines of two lengths.
Long(record)   == record > 3
Bytes(record)  == IF Long(record) THEN 2 ELSE 1
Size(contents) == IF contents = Absent THEN 0
                  ELSE Len(contents) + Cardinality({i \in DOMAIN contents : Long(contents[i])})

Exists(file)  == files[file[1]][file[2]] # Absent
Named(file)   == Exists(file) /\ (file[2] = 0 => file[1] \notin nameless)
OnDisk(f)     == \E n \in Number : Named(<<f, n>>)
Unlocked(p)   == [f \in Process |-> IF lock[f] = p THEN None ELSE lock[f]]

TypeOK ==
  /\ pc \in [Process -> {"unborn", "silent", "ended"} \cup Pruning \cup Opening \cup Logging]
  /\ files \in [Process -> [Number -> {Absent} \cup Seq(1 .. RecordLimit)]]
  /\ \A f \in Process, n \in Number : Size(files[f][n]) <= RotationBytes
  /\ lock \in [Process -> Process \cup {None}]
  /\ listed \in [Process -> SUBSET File]
  /\ ordered \in [Process -> SUBSET File]
  /\ doomed \in [Process -> SUBSET File]
  /\ archive \in [Process -> 0 .. MaxArchives]
  /\ written \in [Process -> 0 .. RecordLimit]
  /\ nameless \subseteq Process /\ pruned \subseteq Process /\ alone \subseteq Process
  /\ faults \in 0 .. FaultLimit

\* One process is over: it left nothing, a base file, or an archive from a version
\* that kept one archive more.
Init ==
  /\ \E old \in Process, left \in {{}, {0}, {MaxArchives + 1}} :
       /\ files = [f \in Process |-> [n \in Number |->
                     IF f = old /\ n \in left THEN <<1>> ELSE Absent]]
       /\ pc = [p \in Process |-> IF p = old THEN "ended" ELSE "unborn"]
       /\ written = [f \in Process |-> IF f = old /\ left # {} THEN 1 ELSE 0]
  /\ lock = [f \in Process |-> None]
  /\ listed = [p \in Process |-> {}]
  /\ ordered = [p \in Process |-> {}]
  /\ doomed = [p \in Process |-> {}]
  /\ archive = [p \in Process |-> 0]
  /\ nameless = {}
  /\ pruned = {}
  /\ alone = {}
  /\ faults = 0

Goto(p, where) == pc' = [pc EXCEPT ![p] = where]

Fault == faults < FaultLimit /\ faults' = faults + 1

Put(f, n, contents) == files' = [files EXCEPT ![f][n] = contents]

FamiliesOf(entries) == {e[1] : e \in entries}
EntriesOf(entries, f) == {e \in entries : e[1] = f}

-----------------------------------------------------------------------------
(* Pruning                                                                  *)

\* pruneCompletedFamiliesLocked lists the directory.
List(p) ==
  /\ pc[p] = "unborn"
  /\ listed' = [listed EXCEPT ![p] = {file \in File : Named(file)}]
  /\ alone' = IF \A q \in Process \ {p} : pc[q] \in {"unborn", "ended"} THEN {p} ELSE {}
  /\ Goto(p, "locking")
  /\ UNCHANGED <<files, nameless, lock, ordered, doomed, archive, written, pruned, faults>>

\* mutant: does not ask whether the family is locked
LockableUnasked(p, f) == Named(<<f, 0>>)

\* The base file was listed: it can still be opened, and nobody holds its lock.
Lockable(p, f) == Named(<<f, 0>>) /\ lock[f] = None

Valid(file) == file[2] <= MaxArchives /\ Size(files[file[1]][file[2]]) <= RotationBytes

\* A family is skipped when its base file is gone or in use.  Otherwise what
\* is not valid in it is removed and the rest taken down.  When that fails, or
\* a file that was listed has gone meanwhile, the store fails and logs nothing,
\* and the families it has locked so far stay locked while the process runs.
LockFamily(p) ==
  /\ pc[p] = "locking"
  /\ \E f \in FamiliesOf(listed[p]) :
       LET entries == EntriesOf(listed[p], f)
           invalid == {e \in entries : ~Valid(e)}
           based   == <<f, 0>> \in entries
           gone    == \E e \in entries \ invalid : ~Exists(e)
       IN  /\ listed' = [listed EXCEPT ![p] = @ \ entries]
           /\ \/ /\ based /\ ~Lockable(p, f)
                 /\ UNCHANGED <<pc, files, lock, ordered, pruned, faults>>
              \/ /\ based => Lockable(p, f)
                 /\ invalid # {}
                 /\ Fault
                 /\ Goto(p, "silent")
                 /\ UNCHANGED <<files, lock, ordered, pruned>>
              \/ /\ based => Lockable(p, f)
                 /\ files' = [files EXCEPT ![f] = [n \in Number |->
                                IF <<f, n>> \in invalid THEN Absent ELSE @[n]]]
                 /\ pruned' = IF invalid # {} THEN pruned \cup {f} ELSE pruned
                 /\ ordered' = [ordered EXCEPT ![p] = @ \cup (entries \ invalid)]
                 /\ IF gone
                      THEN Goto(p, "silent") /\ UNCHANGED lock
                      ELSE UNCHANGED pc /\ lock' = IF based THEN [lock EXCEPT ![f] = p] ELSE lock
                 /\ UNCHANGED faults
  /\ UNCHANGED <<nameless, doomed, archive, written, alone>>

\* mutant: one family more than the limit
KeptOneMore(families) ==
  {kept \in SUBSET families : \/ Cardinality(kept) = MaxFamilies + 1
                              \/ kept = families /\ Cardinality(kept) <= MaxFamilies}

\* What may be kept: the newest by the times, in seconds, that were listed, so
\* among families of one second any.
Kept(families) ==
  {kept \in SUBSET families : \/ Cardinality(kept) = MaxFamilies
                              \/ kept = families /\ Cardinality(kept) < MaxFamilies}

Choose(p) ==
  /\ pc[p] = "locking"
  /\ listed[p] = {}
  /\ LET families == FamiliesOf(ordered[p])
     IN  \E kept \in Kept(families) :
           /\ doomed' = [doomed EXCEPT ![p] = {e \in ordered[p] : e[1] \notin kept}]
           /\ pruned' = pruned \cup (families \ kept)
  /\ ordered' = [ordered EXCEPT ![p] = {}]
  /\ Goto(p, "removing")
  /\ UNCHANGED <<files, nameless, lock, listed, archive, written, alone, faults>>

\* The files of a doomed family are removed one after the other, the base first.
\* A process that has its base file open goes on with it, without a name.
Unlink(p) ==
  /\ pc[p] = "removing"
  /\ \E file \in doomed[p] :
       /\ \A other \in EntriesOf(doomed[p], file[1]) : file[2] <= other[2]
       /\ \/ /\ IF file[2] = 0 /\ pc[file[1]] = "opened"
                  THEN nameless' = nameless \cup {file[1]} /\ UNCHANGED files
                  ELSE Put(file[1], file[2], Absent) /\ UNCHANGED nameless
             /\ doomed' = [doomed EXCEPT ![p] = @ \ {file}]
             /\ UNCHANGED <<pc, lock, faults>>
          \/ /\ Fault
             /\ doomed' = [doomed EXCEPT ![p] = {}]
             /\ lock' = Unlocked(p)
             /\ Goto(p, "silent")
             /\ UNCHANGED <<files, nameless>>
  /\ UNCHANGED <<listed, ordered, archive, written, pruned, alone>>

FinishPruning(p) ==
  /\ pc[p] = "removing"
  /\ doomed[p] = {}
  /\ lock' = Unlocked(p)
  /\ Goto(p, "opening")
  /\ UNCHANGED <<files, nameless, listed, ordered, doomed, archive, written, pruned, alone, faults>>

-----------------------------------------------------------------------------
(* Logging                                                                  *)

\* openCurrentFile: open with O_CREAT ...
Open(p) ==
  /\ pc[p] = "opening"
  /\ Put(p, 0, << >>)
  /\ Goto(p, "opened")
  /\ UNCHANGED <<nameless, lock, listed, ordered, doomed, archive, written, pruned, alone, faults>>

\* ... and flock, which fails while another process that prunes holds the lock.  When
\* that one has removed the file and is done, it succeeds: the process logs, and
\* nobody else finds what it has locked.
LockOwn(p) ==
  /\ pc[p] = "opened"
  /\ IF lock[p] = None
       THEN /\ lock' = [lock EXCEPT ![p] = p]
            /\ Goto(p, "logging")
       ELSE Goto(p, "silent") /\ UNCHANGED lock
  /\ UNCHANGED <<files, nameless, listed, ordered, doomed, archive, written, pruned, alone, faults>>

\* mutant: compares the size before the line is added
FullTooLate(p) == Size(files[p][0]) >= RotationBytes

Full(p) == LET size == Size(files[p][0])
           IN  size > 0 /\ size + Bytes(written[p] + 1) > RotationBytes

\* record: a line is to be written, after a rotation when the file is full.
Record(p) ==
  /\ pc[p] = "logging"
  /\ written[p] < RecordLimit /\ SumFunction(written) < TotalLimit
  /\ Goto(p, IF Full(p) THEN "dropping" ELSE "appending")
  /\ UNCHANGED <<files, nameless, lock, listed, ordered, doomed, archive, written, pruned, alone, faults>>

\* writeAll: a failure closes the file.
WriteAll(p) ==
  /\ pc[p] = "appending"
  /\ \/ /\ Put(p, 0, Append(files[p][0], written[p] + 1))
        /\ written' = [written EXCEPT ![p] = @ + 1]
        /\ Goto(p, "logging")
        /\ UNCHANGED <<lock, faults>>
     \/ /\ Fault
        /\ lock' = Unlocked(p)
        /\ Goto(p, "silent")
        /\ UNCHANGED <<files, written>>
  /\ UNCHANGED <<nameless, listed, ordered, doomed, archive, pruned, alone>>

\* rotate removes the oldest archive ...
DropOldest(p) ==
  /\ pc[p] = "dropping"
  /\ Put(p, MaxArchives, Absent)
  /\ archive' = [archive EXCEPT ![p] = MaxArchives - 1]
  /\ Goto(p, "renaming")
  /\ UNCHANGED <<nameless, lock, listed, ordered, doomed, written, pruned, alone, faults>>

\* ... renames the others, the oldest first; one that is missing is passed over ...
Rename(p) ==
  /\ pc[p] = "renaming"
  /\ archive[p] >= 1
  /\ LET n == archive[p]
     IN  \/ /\ files' = IF Exists(<<p, n>>)
                          THEN [files EXCEPT ![p][n + 1] = files[p][n], ![p][n] = Absent]
                          ELSE files
            /\ archive' = [archive EXCEPT ![p] = n - 1]
            /\ UNCHANGED <<pc, faults>>
         \/ /\ Fault
            /\ Goto(p, "silent")
            /\ UNCHANGED <<files, archive>>
  /\ UNCHANGED <<nameless, lock, listed, ordered, doomed, written, pruned, alone>>

\* ... creates the first, or what is there is emptied ...
CreateFirst(p) ==
  /\ pc[p] = "renaming"
  /\ archive[p] = 0
  /\ \/ /\ Put(p, 1, << >>)
        /\ Goto(p, "copying")
        /\ UNCHANGED faults
     \/ /\ Fault
        /\ Goto(p, "silent")
        /\ UNCHANGED files
  /\ UNCHANGED <<nameless, lock, listed, ordered, doomed, archive, written, pruned, alone>>

\* mutant: a copy that fails is taken for a short one
CopyUnchecked(p) ==
  /\ pc[p] = "copying"
  /\ \/ /\ Exists(<<p, 1>>) /\ Len(files[p][1]) < Len(files[p][0])
        /\ Put(p, 1, Append(files[p][1], files[p][0][Len(files[p][1]) + 1]))
        /\ UNCHANGED <<pc, faults>>
     \/ /\ Exists(<<p, 1>>) => files[p][1] = files[p][0]
        /\ Goto(p, "truncating")
        /\ UNCHANGED <<files, faults>>
     \/ /\ Fault
        /\ Goto(p, "truncating")
        /\ UNCHANGED files
  /\ UNCHANGED <<nameless, lock, listed, ordered, doomed, archive, written, pruned, alone>>

\* ... copies the base file to it, removing it when that fails; another process may
\* have removed it meanwhile ...
Copy(p) ==
  /\ pc[p] = "copying"
  /\ \/ /\ Exists(<<p, 1>>) /\ Len(files[p][1]) < Len(files[p][0])
        /\ Put(p, 1, Append(files[p][1], files[p][0][Len(files[p][1]) + 1]))
        /\ UNCHANGED <<pc, faults>>
     \/ /\ Exists(<<p, 1>>) => files[p][1] = files[p][0]
        /\ Goto(p, "truncating")
        /\ UNCHANGED <<files, faults>>
     \/ /\ Fault
        /\ Put(p, 1, Absent)
        /\ Goto(p, "silent")
  /\ UNCHANGED <<nameless, lock, listed, ordered, doomed, archive, written, pruned, alone>>

\* ... and truncates the base file.
Truncate(p) ==
  /\ pc[p] = "truncating"
  /\ \/ /\ Put(p, 0, << >>)
        /\ Goto(p, "appending")
        /\ UNCHANGED faults
     \/ /\ Fault
        /\ Goto(p, "silent")
        /\ UNCHANGED files
  /\ UNCHANGED <<nameless, lock, listed, ordered, doomed, archive, written, pruned, alone>>

\* The process exits or is killed; the system frees its locks, and a file without
\* a name goes with it.
End(p) ==
  /\ pc[p] \notin {"unborn", "ended"}
  /\ lock' = Unlocked(p)
  /\ listed' = [listed EXCEPT ![p] = {}]
  /\ ordered' = [ordered EXCEPT ![p] = {}]
  /\ doomed' = [doomed EXCEPT ![p] = {}]
  /\ archive' = [archive EXCEPT ![p] = 0]
  /\ alone' = alone \ {p}
  /\ Goto(p, "ended")
  /\ IF p \in nameless THEN Put(p, 0, Absent) ELSE UNCHANGED files
  /\ nameless' = nameless \ {p}
  /\ UNCHANGED <<written, pruned, faults>>

Rotate(p) == DropOldest(p) \/ Rename(p) \/ CreateFirst(p) \/ Copy(p) \/ Truncate(p)

Next == \E p \in Process :
  \/ List(p) \/ LockFamily(p) \/ Choose(p) \/ Unlink(p) \/ FinishPruning(p)
  \/ Open(p) \/ LockOwn(p) \/ Record(p) \/ WriteAll(p) \/ Rotate(p) \/ End(p)

Spec == Init /\ [][Next]_vars

\* Processes are alike.
Symmetry == Permutations(Process)

-----------------------------------------------------------------------------
(* Properties                                                               *)

\* The records of a family in the order its files are read, oldest archive
\* first.  While the base file is being copied, and after a crash before it is
\* truncated, archive 1 repeats the beginning of the base file.
History(f) ==
  LET contents(n) == IF Exists(<<f, n>>) THEN files[f][n] ELSE << >>
      copied == IsPrefix(contents(1), contents(0))
      older  == [i \in 1 .. MaxArchives |-> contents(MaxArchives + 2 - i)]
  IN  FlattenSeq(older) \o (IF copied THEN << >> ELSE contents(1)) \o contents(0)

\* Whatever step a process was killed in or failed at, the files of a family
\* nobody pruned hold its last records without a gap, in order and once, and
\* when records are missing there were archives enough to drop the oldest.
HistoryKept ==
  \A f \in Process \ pruned :
    LET h == History(f)
        archives == {n \in 1 .. MaxArchives : Exists(<<f, n>>)}
    IN  /\ h = [i \in DOMAIN h |-> written[f] - Len(h) + i]
        /\ Len(h) < written[f] => Cardinality(archives) >= MaxArchives - 1

\* A process never has a file of a family to remove whose own process is logging,
\* however old the list of files it was chosen from; with one exception, a process
\* that lost the name of its base file between the open and the flock: the archives
\* it makes are found, without a base file to lock, and removed while it logs.
ActiveNotPruned ==
  \A p, f \in Process :
    pc[p] = "removing" /\ pc[f] \in Logging /\ f \notin nameless => f \notin FamiliesOf(doomed[p])

\* While a process logs that no other ran beside, only so many families of
\* others are left, none with archives beyond the limit, whatever the prunings
\* and rotations before it were interrupted by.
Bounded ==
  \A p \in alone : pc[p] \in Logging \cup Opening =>
    /\ Cardinality({f \in Process \ {p} : OnDisk(f)}) <= MaxFamilies
    /\ \A f \in Process : ~Exists(<<f, MaxArchives + 1>>)
=============================================================================
