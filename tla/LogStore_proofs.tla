--------------------------- MODULE LogStore_proofs ---------------------------
(***************************************************************************)
(* Proofs about LogStore, for every value of its constants.                *)
(*                                                                         *)
(* Core says which files, locks and lists go together; from it follow the  *)
(* types and that nobody has a file of a process that logs to remove.      *)
(* Alone says what a process knows that no other ran beside; from it       *)
(* follows the bound on families.  Unbroken gives each family marks, one   *)
(* to a file, between which its records lie; from it follows what can be   *)
(* read of a family that nobody pruned.                                    *)
(***************************************************************************)
EXTENDS LogStore, FiniteSetTheorems, SequenceTheorems, WellFoundedInduction, TLAPS

-----------------------------------------------------------------------------
(* Sequences of records.                                                    *)

Contents == {Absent} \cup Seq(1 .. RecordLimit)

LEMMA Limits ==
  /\ RotationBytes \in Nat /\ RotationBytes >= 2
  /\ MaxArchives \in Nat /\ MaxArchives >= 1
  /\ MaxFamilies \in Nat /\ MaxFamilies >= 1
  /\ RecordLimit \in Nat /\ RecordLimit >= 1
  /\ FaultLimit \in Nat
BY ConstantsAssumption DEF ConstantsAssumption

LEMMA Records ==
  ASSUME NEW s \in Seq(1 .. RecordLimit)
  PROVE  /\ s \in Seq(Nat) /\ s # Absent
         /\ Len(s) \in Nat /\ DOMAIN s = 1 .. Len(s)
         /\ \A i \in 1 .. Len(s) : s[i] \in 1 .. RecordLimit
<1>1. s \in Seq(Nat)
  <2>1. 1 .. RecordLimit \subseteq Nat
    BY Limits
  <2> QED
    BY <2>1, SeqMonotonic
<1>2. s # Absent
  BY <1>1, ConstantsAssumption DEF ConstantsAssumption
<1>3. Len(s) \in Nat /\ DOMAIN s = 1 .. Len(s)
  BY LenProperties
<1>4. \A i \in 1 .. Len(s) : s[i] \in 1 .. RecordLimit
  BY ElementOfSeq
<1> QED
  BY <1>1, <1>2, <1>3, <1>4

LEMMA NoRecords == << >> \in Seq(1 .. RecordLimit) /\ << >> # Absent /\ Size(<< >>) = 0
<1>1. << >> \in Seq(1 .. RecordLimit)
  OBVIOUS
<1>2. << >> # Absent
  BY <1>1, Records
<1>3. {i \in DOMAIN << >> : Long(<< >>[i])} = {}
  OBVIOUS
<1>4. Cardinality({}) = 0
  BY FS_EmptySet
<1> QED
  BY <1>1, <1>2, <1>3, <1>4 DEF Size

\* The positions of the long lines.
Longs(s) == {i \in DOMAIN s : Long(s[i])}

LEMMA LongsFinite ==
  ASSUME NEW s \in Seq(1 .. RecordLimit)
  PROVE  IsFiniteSet(Longs(s)) /\ Cardinality(Longs(s)) \in Nat
<1>1. PICK n \in Nat : DOMAIN s = 1 .. n
  BY Records
<1>2. IsFiniteSet(1 .. n)
  BY FS_Interval
<1>3. Longs(s) \subseteq 1 .. n
  BY <1>1 DEF Longs
<1>4. IsFiniteSet(Longs(s))
  BY <1>2, <1>3, FS_Subset
<1> QED
  BY <1>4, FS_CardinalityType

LEMMA SizeIs ==
  ASSUME NEW s \in Seq(1 .. RecordLimit)
  PROVE  Size(s) = Len(s) + Cardinality(Longs(s)) /\ Size(s) \in Nat
<1>1. s # Absent
  BY Records
<1>2. Size(s) = Len(s) + Cardinality(Longs(s))
  BY <1>1 DEF Size, Longs
<1> QED
  BY <1>2, LongsFinite, Records

LEMMA BytesAre ==
  ASSUME NEW record
  PROVE  Bytes(record) \in 1 .. 2
BY DEF Bytes

LEMMA Appended ==
  ASSUME NEW s \in Seq(1 .. RecordLimit), NEW r \in 1 .. RecordLimit
  PROVE  /\ Append(s, r) \in Seq(1 .. RecordLimit)
         /\ Len(Append(s, r)) = Len(s) + 1
         /\ \A i \in 1 .. Len(s) : Append(s, r)[i] = s[i]
         /\ Append(s, r)[Len(s) + 1] = r
BY AppendProperties

\* A line that is added makes a file longer by the line.
LEMMA SizeAppended ==
  ASSUME NEW s \in Seq(1 .. RecordLimit), NEW r \in 1 .. RecordLimit
  PROVE  Size(Append(s, r)) = Size(s) + Bytes(r)
<1>1. PICK n \in Nat : n = Len(s)
  BY Records
<1>2. PICK t \in Seq(1 .. RecordLimit) : t = Append(s, r)
  BY Appended
<1>3. /\ Len(t) = n + 1 /\ DOMAIN s = 1 .. n /\ DOMAIN t = 1 .. n + 1
      /\ \A i \in 1 .. n : t[i] = s[i]
      /\ t[n + 1] = r
  BY <1>1, <1>2, Appended, Records
<1>4. IsFiniteSet(Longs(s)) /\ Cardinality(Longs(s)) \in Nat
  BY LongsFinite
<1>5. Longs(t) = IF Long(r) THEN Longs(s) \cup {n + 1} ELSE Longs(s)
  BY <1>3 DEF Longs
<1>6. n + 1 \notin Longs(s)
  BY <1>3 DEF Longs
<1>7. Cardinality(Longs(t)) = Cardinality(Longs(s)) + (IF Long(r) THEN 1 ELSE 0)
  <2>1. CASE Long(r)
    <3>1. Cardinality(Longs(s) \cup {n + 1}) = Cardinality(Longs(s)) + 1
      BY <1>4, <1>6, FS_AddElement
    <3> QED
      BY <1>5, <2>1, <3>1
  <2>2. CASE ~Long(r)
    BY <1>4, <1>5, <2>2
  <2> QED
    BY <2>1, <2>2
<1>8. Size(s) = n + Cardinality(Longs(s)) /\ Size(t) = n + 1 + Cardinality(Longs(t))
  BY <1>1, <1>3, SizeIs
<1>9. Bytes(r) = 1 + (IF Long(r) THEN 1 ELSE 0)
  BY DEF Bytes
<1> QED
  BY <1>2, <1>4, <1>7, <1>8, <1>9

LEMMA PrefixMeans ==
  ASSUME NEW s \in Seq(1 .. RecordLimit), NEW t \in Seq(1 .. RecordLimit)
  PROVE  IsPrefix(s, t) <=> Len(s) <= Len(t) /\ \A i \in 1 .. Len(s) : s[i] = t[i]
<1>1. PICK n \in Nat, m \in Nat : n = Len(s) /\ m = Len(t)
  BY Records
<1>2. /\ Len(SubSeq(s, 1, n)) = n /\ SubSeq(s, 1, n) \in Seq(1 .. RecordLimit)
      /\ \A i \in 1 .. n : SubSeq(s, 1, n)[i] = s[i]
  <2>1. \A i \in 1 .. n : s[i] \in 1 .. RecordLimit
    BY <1>1, Records
  <2>2. /\ SubSeq(s, 1, n) \in Seq(1 .. RecordLimit)
        /\ Len(SubSeq(s, 1, n)) = IF 1 <= n THEN n - 1 + 1 ELSE 0
        /\ \A i \in 1 .. n - 1 + 1 : SubSeq(s, 1, n)[i] = s[1 + i - 1]
    BY ONLY n \in Nat, <2>1, SubSeqProperties
  <2> QED
    BY ONLY n \in Nat, <2>2
<1>3. n <= m =>
        /\ Len(SubSeq(t, 1, n)) = n /\ SubSeq(t, 1, n) \in Seq(1 .. RecordLimit)
        /\ \A i \in 1 .. n : SubSeq(t, 1, n)[i] = t[i]
  <2> SUFFICES ASSUME n <= m
               PROVE  /\ Len(SubSeq(t, 1, n)) = n /\ SubSeq(t, 1, n) \in Seq(1 .. RecordLimit)
                      /\ \A i \in 1 .. n : SubSeq(t, 1, n)[i] = t[i]
    OBVIOUS
  <2>1. \A i \in 1 .. n : t[i] \in 1 .. RecordLimit
    BY <1>1, Records
  <2>2. /\ SubSeq(t, 1, n) \in Seq(1 .. RecordLimit)
        /\ Len(SubSeq(t, 1, n)) = IF 1 <= n THEN n - 1 + 1 ELSE 0
        /\ \A i \in 1 .. n - 1 + 1 : SubSeq(t, 1, n)[i] = t[1 + i - 1]
    BY ONLY n \in Nat, <2>1, SubSeqProperties
  <2> QED
    BY ONLY n \in Nat, <2>2
<1>4. n <= m => (SubSeq(s, 1, n) = SubSeq(t, 1, n) <=> \A i \in 1 .. n : s[i] = t[i])
  BY <1>2, <1>3, SeqEqual
<1> QED
  BY <1>1, <1>4 DEF IsPrefix

LEMMA SizeOfPrefix ==
  ASSUME NEW s \in Seq(1 .. RecordLimit), NEW t \in Seq(1 .. RecordLimit), IsPrefix(s, t)
  PROVE  Size(s) <= Size(t)
<1>1. PICK n \in Nat, m \in Nat : n = Len(s) /\ m = Len(t)
  BY Records
<1>2. n <= m /\ (\A i \in 1 .. n : s[i] = t[i]) /\ DOMAIN s = 1 .. n /\ DOMAIN t = 1 .. m
  BY <1>1, PrefixMeans, Records
<1>3. Longs(s) \subseteq Longs(t)
  BY <1>2 DEF Longs
<1>4. Cardinality(Longs(s)) <= Cardinality(Longs(t))
  BY <1>3, LongsFinite, FS_Subset
<1>5. Size(s) = n + Cardinality(Longs(s)) /\ Size(t) = m + Cardinality(Longs(t))
  BY <1>1, SizeIs
<1> QED
  BY <1>2, <1>4, <1>5, LongsFinite

\* The next record of a file is copied.
LEMMA CopiedOn ==
  ASSUME NEW s \in Seq(1 .. RecordLimit), NEW t \in Seq(1 .. RecordLimit), IsPrefix(s, t),
         Len(s) < Len(t), NEW u, u = Append(s, t[Len(s) + 1])
  PROVE  u \in Seq(1 .. RecordLimit) /\ IsPrefix(u, t)
<1>1. PICK n \in Nat, m \in Nat : n = Len(s) /\ m = Len(t)
  BY Records
<1>2. n < m /\ n + 1 \in 1 .. m /\ (\A i \in 1 .. n : s[i] = t[i])
  BY <1>1, PrefixMeans
<1>3. t[n + 1] \in 1 .. RecordLimit
  BY <1>1, <1>2, Records
<1>4. /\ u \in Seq(1 .. RecordLimit) /\ Len(u) = n + 1
      /\ (\A i \in 1 .. n : u[i] = s[i]) /\ u[n + 1] = t[n + 1]
  BY <1>1, <1>3, Appended
<1>5. \A i \in 1 .. n + 1 : u[i] = t[i]
  BY <1>2, <1>4
<1>6. Len(u) <= Len(t)
  BY <1>1, <1>2, <1>4
<1>7. \A i \in 1 .. Len(u) : u[i] = t[i]
  BY <1>4, <1>5
<1> QED
  BY <1>4, <1>6, <1>7, PrefixMeans

-----------------------------------------------------------------------------
(* The invariant of files, locks and lists.                                 *)

Before == {"unborn", "opening"} \cup Pruning
Over   == {"silent", "ended"}
Place  == {"unborn", "silent", "ended"} \cup Pruning \cup Opening \cup Logging

\* A process that logs holds its own lock, and who holds a lock may.
Locked ==
  /\ \A p \in Process : pc[p] \in Logging => lock[p] = p
  /\ \A f, p \in Process : lock[f] = p => pc[p] \notin {"unborn", "opening", "opened", "ended"}

\* A file that is not there and that nobody listed.
NoFile(f, n) ==
  /\ ~Exists(<<f, n>>)
  /\ \A p \in Process : <<f, n>> \notin listed[p] \cup ordered[p] \cup doomed[p]

\* There is nothing of a process that did not open its file yet, only its base file of
\* one that did not log yet, and no archive too many of any that is still there.
Fresh ==
  \A f \in Process :
    /\ pc[f] \in Before => \A n \in Number : NoFile(f, n)
    /\ pc[f] = "opened" => \A n \in 1 .. MaxArchives + 1 : NoFile(f, n)
    /\ pc[f] # "ended" => ~Exists(<<f, MaxArchives + 1>>)

\* Of a process that logs there is the base file, and who listed a file of it listed
\* that too, unless it lost its name.
Based ==
  \A f \in Process :
    /\ pc[f] \in {"opened"} \cup Logging => Exists(<<f, 0>>)
    /\ pc[f] \in Logging /\ f \notin nameless =>
         \A p \in Process, n \in Number : <<f, n>> \in listed[p] => <<f, 0>> \in listed[p]

\* What a process takes down it has locked, or it is of one that will not log again, or
\* an archive of one whose base file has no name.
Held ==
  \A p \in Process :
    /\ pc[p] \in Pruning =>
         \A f \in Process, n \in Number :
           <<f, n>> \in ordered[p] \cup doomed[p] =>
             lock[f] = p \/ pc[f] \in Over \/ (f \in nameless /\ n # 0)
    /\ pc[p] = "unborn" => ordered[p] \cup doomed[p] = {}

\* A base file without a name is of a process that has it open, and was chosen.
Adrift == \A f \in nameless : pc[f] \in {"opened", "silent"} \cup Logging /\ f \in pruned

\* What is to be removed was chosen.
Doomed == \A p, f \in Process, n \in Number : <<f, n>> \in doomed[p] => f \in pruned

\* There is room for the line that is to be written, and what is copied so far is the
\* beginning of the base file, if nobody removed it.
Fits ==
  \A p \in Process :
    /\ pc[p] = "appending" => Size(files[p][0]) + Bytes(written[p] + 1) <= RotationBytes
    /\ pc[p] \in {"appending"} \cup Rotating => written[p] < RecordLimit
    /\ pc[p] = "renaming" => archive[p] < MaxArchives
    /\ pc[p] \in {"copying", "truncating"} =>
         /\ p \notin nameless => Exists(<<p, 1>>)
         /\ Exists(<<p, 1>>) => IsPrefix(files[p][1], files[p][0])

Core == TypeOK /\ Locked /\ Fresh /\ Based /\ Held /\ Doomed /\ Adrift /\ Fits

Typed ==
  /\ pc \in [Process -> Place]
  /\ files \in [Process -> [Number -> Contents]]
  /\ lock \in [Process -> Process \cup {None}]
  /\ listed \in [Process -> SUBSET File]
  /\ ordered \in [Process -> SUBSET File]
  /\ doomed \in [Process -> SUBSET File]
  /\ archive \in [Process -> 0 .. MaxArchives]
  /\ written \in [Process -> 0 .. RecordLimit]
  /\ nameless \subseteq Process /\ pruned \subseteq Process /\ alone \subseteq Process
  /\ faults \in 0 .. FaultLimit

LEMMA TypesAre ==
  TypeOK <=> Typed /\ \A f \in Process, n \in Number : Size(files[f][n]) <= RotationBytes
BY DEF TypeOK, Typed, Place, Contents

LEMMA CoreInit == Init => Core
<1> SUFFICES ASSUME Init
             PROVE  Core
  OBVIOUS
<1>1. PICK old \in Process, left \in {{}, {0}, {MaxArchives + 1}} :
        /\ files = [f \in Process |-> [n \in Number |->
                      IF f = old /\ n \in left THEN <<1>> ELSE Absent]]
        /\ pc = [p \in Process |-> IF p = old THEN "ended" ELSE "unborn"]
        /\ written = [f \in Process |-> IF f = old /\ left # {} THEN 1 ELSE 0]
  BY DEF Init
<1>2. /\ lock = [f \in Process |-> None]
      /\ listed = [p \in Process |-> {}]
      /\ ordered = [p \in Process |-> {}]
      /\ doomed = [p \in Process |-> {}]
      /\ archive = [p \in Process |-> 0]
      /\ nameless = {} /\ pruned = {} /\ alone = {} /\ faults = 0
  BY DEF Init
<1>3. <<1>> \in Seq(1 .. RecordLimit) /\ Size(<<1>>) = 1
  <2>1. <<1>> = Append(<< >>, 1) /\ 1 \in 1 .. RecordLimit
    BY Limits
  <2>2. PICK e \in Seq(1 .. RecordLimit) : e = << >> /\ Size(e) = 0
    BY NoRecords
  <2>3. Size(Append(e, 1)) = 0 + Bytes(1) /\ Append(e, 1) \in Seq(1 .. RecordLimit)
    BY <2>1, <2>2, SizeAppended, Appended
  <2> QED
    BY <2>1, <2>2, <2>3 DEF Bytes, Long
<1>4. Size(Absent) = 0
  BY DEF Size
<1>5. Typed
  <2>1. files \in [Process -> [Number -> Contents]]
    BY <1>1, <1>3 DEF Contents
  <2>2. pc \in [Process -> Place]
    BY <1>1 DEF Place
  <2>3. written \in [Process -> 0 .. RecordLimit]
    BY <1>1, Limits
  <2> QED
    BY <1>2, <2>1, <2>2, <2>3, Limits DEF Typed
<1>6. TypeOK
  <2>1. ASSUME NEW f \in Process, NEW n \in Number
        PROVE  Size(files[f][n]) <= RotationBytes
    <3>1. files[f][n] \in {Absent, <<1>>}
      BY <1>1
    <3> QED
      BY <1>3, <1>4, <3>1, Limits
  <2> QED
    BY <1>5, <2>1, TypesAre
<1>7. Locked
  BY <1>1, <1>2, ConstantsAssumption
     DEF Locked, ConstantsAssumption, Logging, Rotating
<1>8. Fresh
  <2>1. ASSUME NEW f \in Process, pc[f] # "ended", NEW n \in Number
        PROVE  NoFile(f, n)
    BY <1>1, <1>2, <2>1 DEF NoFile, Exists
  <2>2. MaxArchives + 1 \in Number /\ 1 .. MaxArchives + 1 \subseteq Number
    BY Limits DEF Number
  <2> QED
    BY <2>1, <2>2 DEF Fresh, NoFile, Before, Pruning
<1>9. Based /\ Held /\ Fits
  BY <1>1, <1>2 DEF Based, Held, Fits, Logging, Rotating, Pruning
<1>10. Doomed /\ Adrift
  BY <1>2 DEF Doomed, Adrift
<1> QED
  BY <1>6, <1>7, <1>8, <1>9, <1>10 DEF Core

-----------------------------------------------------------------------------
(* What a step changes.                                                     *)

Step(p) ==
  \/ List(p) \/ LockFamily(p) \/ Choose(p) \/ Unlink(p) \/ FinishPruning(p)
  \/ Open(p) \/ LockOwn(p) \/ Record(p) \/ WriteAll(p)
  \/ DropOldest(p) \/ Rename(p) \/ CreateFirst(p) \/ Copy(p) \/ Truncate(p) \/ End(p)

\* A step of one process leaves the others where they are.
Stays(p) ==
  \A q \in Process : q # p =>
    /\ pc'[q] = pc[q] /\ listed'[q] = listed[q] /\ ordered'[q] = ordered[q]
    /\ doomed'[q] = doomed[q] /\ archive'[q] = archive[q] /\ written'[q] = written[q]

LEMMA OthersStay ==
  ASSUME Typed, NEW p \in Process, Step(p)
  PROVE  Stays(p)
<1>1. CASE List(p)
  BY <1>1 DEF List, Typed, Stays, Goto
<1>2. CASE LockFamily(p)
  BY <1>2 DEF LockFamily, Typed, Stays, Goto
<1>3. CASE Choose(p)
  BY <1>3 DEF Choose, Typed, Stays, Goto
<1>4. CASE Unlink(p)
  BY <1>4 DEF Unlink, Typed, Stays, Goto
<1>5. CASE FinishPruning(p) \/ Open(p) \/ LockOwn(p) \/ Record(p)
  BY <1>5 DEF FinishPruning, Open, LockOwn, Record, Typed, Stays, Goto
<1>6. CASE WriteAll(p) \/ DropOldest(p) \/ Rename(p) \/ CreateFirst(p)
  BY <1>6 DEF WriteAll, DropOldest, Rename, CreateFirst, Typed, Stays, Goto
<1>7. CASE Copy(p) \/ Truncate(p) \/ End(p)
  BY <1>7 DEF Copy, Truncate, End, Typed, Stays, Goto
<1> QED
  BY <1>1, <1>2, <1>3, <1>4, <1>5, <1>6, <1>7 DEF Step

\* The family that a process checks.
Invalid(p, f) == {e \in EntriesOf(listed[p], f) : ~Valid(e)}

Checked(p, f) ==
  /\ EntriesOf(listed[p], f) # {}
  /\ listed' = [listed EXCEPT ![p] = @ \ EntriesOf(listed[p], f)]
  /\ UNCHANGED <<nameless, doomed, archive, written, alone>>
PassedOver(p, f) ==
  /\ <<f, 0>> \in listed[p] /\ ~Lockable(p, f)
  /\ UNCHANGED <<pc, files, lock, ordered, pruned, faults>>
CheckFailed(p) ==
  /\ Fault /\ Goto(p, "silent")
  /\ UNCHANGED <<files, lock, ordered, pruned>>
TakenDown(p, f) ==
  /\ <<f, 0>> \in listed[p] => Lockable(p, f)
  /\ files' = [files EXCEPT ![f] = [n \in Number |->
                 IF <<f, n>> \in Invalid(p, f) THEN Absent ELSE @[n]]]
  /\ pruned' = IF Invalid(p, f) # {} THEN pruned \cup {f} ELSE pruned
  /\ ordered' = [ordered EXCEPT ![p] = @ \cup (EntriesOf(listed[p], f) \ Invalid(p, f))]
  /\ \/ Goto(p, "silent") /\ UNCHANGED lock
     \/ /\ UNCHANGED pc
        /\ lock' = IF <<f, 0>> \in listed[p] THEN [lock EXCEPT ![f] = p] ELSE lock
        /\ \A e \in EntriesOf(listed[p], f) \ Invalid(p, f) : Exists(e)
  /\ UNCHANGED faults

LEMMA FamilyChecked ==
  ASSUME Typed, NEW p \in Process, LockFamily(p)
  PROVE  /\ pc[p] = "locking"
         /\ \E f \in Process :
              Checked(p, f) /\ (PassedOver(p, f) \/ CheckFailed(p) \/ TakenDown(p, f))
<1>1. PICK f \in FamiliesOf(listed[p]) :
        LET entries == EntriesOf(listed[p], f)
            invalid == {e \in entries : ~Valid(e)}
            based   == <<f, 0>> \in entries
            gone    == \E e \in entries \ invalid : ~Exists(e)
        IN  /\ listed' = [listed EXCEPT ![p] = @ \ entries]
            /\ \/ /\ based /\ ~Lockable(p, f)
                  /\ UNCHANGED <<pc, files, lock, ordered, pruned, faults>>
               \/ /\ based => Lockable(p, f)
                  /\ invalid # {}
                  /\ Fault
                  /\ Goto(p, "silent")
                  /\ UNCHANGED <<files, lock, ordered, pruned>>
               \/ /\ based => Lockable(p, f)
                  /\ files' = [files EXCEPT ![f] = [n \in Number |->
                                 IF <<f, n>> \in invalid THEN Absent ELSE @[n]]]
                  /\ pruned' = IF invalid # {} THEN pruned \cup {f} ELSE pruned
                  /\ ordered' = [ordered EXCEPT ![p] = @ \cup (entries \ invalid)]
                  /\ IF gone
                       THEN Goto(p, "silent") /\ UNCHANGED lock
                       ELSE UNCHANGED pc /\ lock' = IF based THEN [lock EXCEPT ![f] = p] ELSE lock
                  /\ UNCHANGED faults
  BY DEF LockFamily
<1>2. f \in Process /\ EntriesOf(listed[p], f) # {}
  BY DEF FamiliesOf, EntriesOf, Typed, File
<1>3. <<f, 0>> \in EntriesOf(listed[p], f) <=> <<f, 0>> \in listed[p]
  BY DEF EntriesOf
<1>4. Checked(p, f)
  BY <1>1, <1>2 DEF Checked, LockFamily
<1>5. PassedOver(p, f) \/ CheckFailed(p) \/ TakenDown(p, f)
  BY <1>1, <1>3 DEF PassedOver, CheckFailed, TakenDown, Invalid
<1> QED
  BY <1>2, <1>4, <1>5 DEF LockFamily

\* Once a process is over, it does not log again.
LEMMA OverStays ==
  ASSUME Typed, NEW p \in Process, Step(p), NEW f \in Process, pc[f] \in Over
  PROVE  pc'[f] \in Over
<1>1. CASE f # p
  BY <1>1, OthersStay DEF Stays
<1>2. CASE f = p
  <2>1. End(p)
    BY <1>2 DEF Over, Step, List, LockFamily, Choose, Unlink, FinishPruning, Open, LockOwn,
                Record, WriteAll, DropOldest, Rename, CreateFirst, Copy, Truncate
  <2> QED
    BY <1>2, <2>1 DEF End, Goto, Over, Typed
<1> QED
  BY <1>1, <1>2

\* A base file loses its name while its process has it open, to another, and the nameless
\* file goes with the process.
LEMMA NamesGo ==
  ASSUME Typed, Doomed, NEW p \in Process, Step(p), NEW f \in Process
  PROVE  /\ f \in nameless /\ ~(f = p /\ End(p)) => f \in nameless'
         /\ f \in nameless' => f \in nameless \/ (pc[f] = "opened" /\ f # p /\ f \in pruned)
         /\ f \in nameless' => ~(f = p /\ End(p))
<1>1. CASE Unlink(p)
  <2>1. ASSUME NEW file \in doomed[p], nameless' = nameless \cup {file[1]}, pc[file[1]] = "opened"
        PROVE  file[1] # p /\ file[1] \in pruned
    <3>1. file[1] \in Process /\ file[2] \in Number /\ file = <<file[1], file[2]>>
      BY <2>1 DEF Typed, File
    <3>2. file[1] \in pruned
      BY <2>1, <3>1 DEF Doomed
    <3>3. file[1] # p
      BY <1>1, <2>1 DEF Unlink
    <3> QED
      BY <3>2, <3>3
  <2>2. \/ nameless' = nameless
        \/ \E file \in doomed[p] : nameless' = nameless \cup {file[1]} /\ pc[file[1]] = "opened"
    BY <1>1 DEF Unlink
  <2>3. ~End(p) \/ f # p \/ f \notin nameless'
    BY <1>1 DEF End
  <2> QED
    BY <2>1, <2>2, <2>3
<1>2. CASE End(p)
  BY <1>2 DEF End
<1>3. CASE ~Unlink(p) /\ ~End(p)
  BY <1>3 DEF Step, List, LockFamily, Choose, FinishPruning, Open, LockOwn, Record, WriteAll,
              DropOldest, Rename, CreateFirst, Copy, Truncate
<1> QED
  BY <1>1, <1>2, <1>3

\* A lock that a process holds only that process gives back.
LEMMA LockKept ==
  ASSUME Typed, NEW p \in Process, Step(p), NEW f \in Process, NEW q \in Process,
         lock[f] = q, q # p
  PROVE  lock'[f] = q
<1>0. lock[f] # None
  BY ConstantsAssumption DEF ConstantsAssumption
<1>1. CASE LockFamily(p)
  BY <1>0, <1>1, FamilyChecked
     DEF PassedOver, CheckFailed, TakenDown, Lockable, Typed, LockFamily, EntriesOf
<1>2. CASE Unlink(p) \/ FinishPruning(p) \/ WriteAll(p) \/ End(p)
  BY <1>2 DEF Unlink, FinishPruning, WriteAll, End, Unlocked
<1>3. CASE LockOwn(p)
  BY <1>0, <1>3 DEF LockOwn, Typed
<1>4. CASE \/ List(p) \/ Choose(p) \/ Open(p) \/ Record(p)
           \/ DropOldest(p) \/ Rename(p) \/ CreateFirst(p) \/ Copy(p) \/ Truncate(p)
  BY <1>4 DEF List, Choose, Open, Record, DropOldest, Rename, CreateFirst, Copy, Truncate
<1> QED
  BY <1>1, <1>2, <1>3, <1>4 DEF Step

\* Of others a step only removes files.
LEMMA OthersShrink ==
  ASSUME Typed, NEW p \in Process, Step(p), NEW f \in Process, f # p, NEW n \in Number
  PROVE  files'[f][n] = files[f][n] \/ files'[f][n] = Absent
<1>1. CASE LockFamily(p)
  <2>1. PICK g \in Process : PassedOver(p, g) \/ CheckFailed(p) \/ TakenDown(p, g)
    BY <1>1, FamilyChecked
  <2>2. CASE TakenDown(p, g)
    <3>1. files' = [files EXCEPT ![g] = [m \in Number |->
                      IF <<g, m>> \in Invalid(p, g) THEN Absent ELSE @[m]]]
      BY <2>2 DEF TakenDown
    <3> QED
      BY <3>1 DEF Typed
  <2> QED
    BY <2>1, <2>2 DEF PassedOver, CheckFailed
<1>2. CASE Unlink(p)
  BY <1>2 DEF Unlink, Put, Typed, File
<1>3. CASE \/ List(p) \/ Choose(p) \/ FinishPruning(p) \/ LockOwn(p) \/ Record(p)
  BY <1>3 DEF List, Choose, FinishPruning, LockOwn, Record
<1>4. CASE \/ Open(p) \/ WriteAll(p) \/ DropOldest(p) \/ CreateFirst(p) \/ Copy(p) \/ Truncate(p)
           \/ End(p)
  BY <1>4 DEF Open, WriteAll, DropOldest, CreateFirst, Copy, Truncate, End, Put, Typed
<1>5. CASE Rename(p)
  BY <1>5 DEF Rename, Typed
<1> QED
  BY <1>1, <1>2, <1>3, <1>4, <1>5 DEF Step

\* What a process checks is not of one that logs.
LEMMA LoggingPassedOver ==
  ASSUME Core, NEW p \in Process, NEW f \in Process, Checked(p, f), pc[f] \in Logging,
         f \notin nameless
  PROVE  ~TakenDown(p, f)
<1>1. PICK n \in Number : <<f, n>> \in listed[p]
  <2>1. PICK e \in listed[p] : e[1] = f
    BY DEF Checked, EntriesOf
  <2>2. e \in Process \X Number
    BY <2>1 DEF Core, TypeOK, File
  <2> QED
    BY <2>1, <2>2
<1>2. <<f, 0>> \in listed[p]
  BY <1>1 DEF Core, Based
<1>3. lock[f] = f /\ lock[f] # None
  BY ConstantsAssumption DEF Core, Locked, ConstantsAssumption
<1> QED
  BY <1>2, <1>3 DEF TakenDown, Lockable

\* The files of a process that logs are its own, while its base file has a name.
LEMMA LoggingSpared ==
  ASSUME Core, NEW p \in Process, Step(p), NEW f \in Process, f # p, pc[f] \in Logging,
         f \notin nameless
  PROVE  files'[f] = files[f]
<1>0. Typed
  BY TypesAre DEF Core
<1>1. CASE LockFamily(p)
  <2>1. PICK g \in Process :
          Checked(p, g) /\ (PassedOver(p, g) \/ CheckFailed(p) \/ TakenDown(p, g))
    BY <1>0, <1>1, FamilyChecked
  <2>2. CASE f = g
    BY <2>1, <2>2, LoggingPassedOver DEF PassedOver, CheckFailed
  <2>3. CASE f # g
    BY <1>0, <2>1, <2>3 DEF PassedOver, CheckFailed, TakenDown, Typed
  <2> QED
    BY <2>2, <2>3
<1>2. CASE Unlink(p)
  <2>1. ASSUME NEW file \in doomed[p], file[1] = f
        PROVE  FALSE
    <3>1. file[2] \in Number /\ file = <<f, file[2]>> /\ pc[p] \in Pruning
      BY <1>0, <1>2, <2>1 DEF Typed, File, Unlink, Pruning
    <3>2. lock[f] = p \/ pc[f] \in Over
      BY <2>1, <3>1 DEF Core, Held
    <3>3. lock[f] = f /\ pc[f] \notin Over
      BY DEF Core, Locked, Logging, Rotating, Over
    <3> QED
      BY <3>2, <3>3
  <2> QED
    BY <1>0, <1>2, <2>1 DEF Unlink, Put, Typed
<1>3. CASE \/ List(p) \/ Choose(p) \/ FinishPruning(p) \/ LockOwn(p) \/ Record(p)
  BY <1>3 DEF List, Choose, FinishPruning, LockOwn, Record
<1>4. CASE \/ Open(p) \/ WriteAll(p) \/ DropOldest(p) \/ CreateFirst(p) \/ Copy(p) \/ Truncate(p)
           \/ End(p)
  BY <1>0, <1>4 DEF Open, WriteAll, DropOldest, CreateFirst, Copy, Truncate, End, Put, Typed
<1>5. CASE Rename(p)
  BY <1>0, <1>5 DEF Rename, Typed
<1> QED
  BY <1>1, <1>2, <1>3, <1>4, <1>5 DEF Step

\* What a process has written to its base file, name or not, nobody takes from it.
LEMMA BaseSpared ==
  ASSUME Core, NEW p \in Process, Step(p), NEW f \in Process, f # p,
         pc[f] \in {"opened"} \cup Logging
  PROVE  files'[f][0] = files[f][0]
<1>0. Typed /\ 0 \in Number
  BY TypesAre, Limits DEF Core, Number
<1>1. CASE LockFamily(p)
  <2>1. PICK g \in Process :
          Checked(p, g) /\ (PassedOver(p, g) \/ CheckFailed(p) \/ TakenDown(p, g))
    BY <1>0, <1>1, FamilyChecked
  <2>2. CASE TakenDown(p, g)
    <3>1. files' = [files EXCEPT ![g] = [n \in Number |->
                      IF <<g, n>> \in Invalid(p, g) THEN Absent ELSE @[n]]]
      BY <2>2 DEF TakenDown
    <3>2. Size(files[g][0]) <= RotationBytes
      BY <1>0, TypesAre DEF Core
    <3>3. <<g, 0>> \notin Invalid(p, g)
      BY <3>2, Limits DEF Invalid, Valid
    <3> QED
      BY <1>0, <3>1, <3>3 DEF Typed
  <2> QED
    BY <2>1, <2>2 DEF PassedOver, CheckFailed
<1>2. CASE Unlink(p)
  <2>1. PICK file \in doomed[p] :
          \/ files' = files
          \/ ~(file[2] = 0 /\ pc[file[1]] = "opened") /\ Put(file[1], file[2], Absent)
    BY <1>2 DEF Unlink
  <2>2. file[1] \in Process /\ file[2] \in Number /\ file = <<file[1], file[2]>>
    BY <1>0, <2>1 DEF Typed, File
  <2>3. CASE file[1] = f /\ file[2] = 0 /\ pc[f] \in Logging
    <3>1. pc[p] \in Pruning
      BY <1>2 DEF Unlink, Pruning
    <3>2. lock[f] = p \/ pc[f] \in Over
      BY <2>1, <2>2, <2>3, <3>1 DEF Core, Held
    <3>3. lock[f] = f /\ pc[f] \notin Over
      BY <2>3 DEF Core, Locked, Logging, Rotating, Over
    <3> QED
      BY <3>2, <3>3
  <2>4. CASE ~(file[1] = f /\ file[2] = 0 /\ pc[f] \in Logging)
    <3>1. CASE Put(file[1], file[2], Absent) /\ ~(file[1] = f /\ file[2] = 0)
      <4>1. files' = [files EXCEPT ![file[1]][file[2]] = Absent]
        BY <3>1 DEF Put
      <4> QED
        BY <1>0, <2>2, <3>1, <4>1 DEF Typed
    <3> QED
      BY <2>1, <2>4, <3>1
  <2> QED
    BY <2>3, <2>4
<1>3. CASE \/ List(p) \/ Choose(p) \/ FinishPruning(p) \/ LockOwn(p) \/ Record(p)
  BY <1>3 DEF List, Choose, FinishPruning, LockOwn, Record
<1>4. CASE \/ Open(p) \/ WriteAll(p) \/ DropOldest(p) \/ CreateFirst(p) \/ Copy(p) \/ Truncate(p)
           \/ End(p)
  BY <1>0, <1>4 DEF Open, WriteAll, DropOldest, CreateFirst, Copy, Truncate, End, Put, Typed
<1>5. CASE Rename(p)
  BY <1>0, <1>5 DEF Rename, Typed
<1> QED
  BY <1>1, <1>2, <1>3, <1>4, <1>5 DEF Step

\* Nobody comes to remove a file who did not list it.
LEMMA Listing ==
  ASSUME Typed, NEW p \in Process, Step(p), NEW f \in Process, NEW n \in Number,
         NEW q \in Process
  PROVE  /\ <<f, n>> \in ordered'[q] \cup doomed'[q]
              => <<f, n>> \in listed[q] \cup ordered[q] \cup doomed[q]
         /\ <<f, n>> \in listed'[q] /\ ~(q = p /\ List(p)) => <<f, n>> \in listed[q]
<1>1. CASE q # p
  BY <1>1, OthersStay DEF Stays
<1>2. CASE q = p
  <2>1. CASE LockFamily(p)
    <3>1. PICK g \in Process :
            Checked(p, g) /\ (PassedOver(p, g) \/ CheckFailed(p) \/ TakenDown(p, g))
      BY <2>1, FamilyChecked
    <3>2. /\ listed'[p] = listed[p] \ EntriesOf(listed[p], g)
          /\ doomed' = doomed
      BY <3>1 DEF Checked, Typed
    <3>3. \/ ordered' = ordered
          \/ ordered'[p] = ordered[p] \cup (EntriesOf(listed[p], g) \ Invalid(p, g))
      BY <3>1 DEF PassedOver, CheckFailed, TakenDown, Typed
    <3> QED
      BY <1>2, <3>2, <3>3 DEF EntriesOf
  <2>2. CASE Choose(p)
    BY <1>2, <2>2 DEF Choose, Typed
  <2>3. CASE Unlink(p)
    BY <1>2, <2>3 DEF Unlink, Typed
  <2>4. CASE List(p)
    BY <1>2, <2>4 DEF List, Typed
  <2>5. CASE End(p)
    BY <1>2, <2>5 DEF End, Typed
  <2>6. CASE FinishPruning(p) \/ Open(p) \/ LockOwn(p) \/ Record(p) \/ WriteAll(p)
    BY <2>6 DEF FinishPruning, Open, LockOwn, Record, WriteAll
  <2>7. CASE DropOldest(p) \/ Rename(p) \/ CreateFirst(p) \/ Copy(p) \/ Truncate(p)
    BY <2>7 DEF DropOldest, Rename, CreateFirst, Copy, Truncate
  <2> QED
    BY <2>1, <2>2, <2>3, <2>4, <2>5, <2>6, <2>7 DEF Step
<1> QED
  BY <1>1, <1>2

\* Where a step takes its process.
Goes(p) ==
  \/ pc[p] = "unborn" /\ pc'[p] = "locking" /\ List(p)
  \/ pc[p] = "locking" /\ pc'[p] \in {"locking", "silent"} /\ LockFamily(p)
  \/ pc[p] = "locking" /\ pc'[p] = "removing" /\ Choose(p)
  \/ pc[p] = "removing" /\ pc'[p] \in {"removing", "silent"} /\ Unlink(p)
  \/ pc[p] = "removing" /\ pc'[p] = "opening" /\ FinishPruning(p)
  \/ pc[p] = "opening" /\ pc'[p] = "opened" /\ Open(p)
  \/ pc[p] = "opened" /\ pc'[p] \in {"logging", "silent"} /\ LockOwn(p)
  \/ pc[p] = "logging" /\ pc'[p] \in {"dropping", "appending"} /\ Record(p)
  \/ pc[p] = "appending" /\ pc'[p] \in {"logging", "silent"} /\ WriteAll(p)
  \/ pc[p] = "dropping" /\ pc'[p] = "renaming" /\ DropOldest(p)
  \/ pc[p] = "renaming" /\ pc'[p] \in {"renaming", "silent"} /\ Rename(p)
  \/ pc[p] = "renaming" /\ pc'[p] \in {"copying", "silent"} /\ CreateFirst(p)
  \/ pc[p] = "copying" /\ pc'[p] \in {"copying", "truncating", "silent"} /\ Copy(p)
  \/ pc[p] = "truncating" /\ pc'[p] \in {"appending", "silent"} /\ Truncate(p)
  \/ pc[p] \notin {"unborn", "ended"} /\ pc'[p] = "ended" /\ End(p)

LEMMA CheckGoes ==
  ASSUME Typed, NEW p \in Process, LockFamily(p)
  PROVE  pc[p] = "locking" /\ pc'[p] \in {"locking", "silent"}
<1>1. PICK g \in Process : PassedOver(p, g) \/ CheckFailed(p) \/ TakenDown(p, g)
  BY FamilyChecked
<1> QED
  BY <1>1, FamilyChecked DEF PassedOver, CheckFailed, TakenDown, Goto, Typed

LEMMA ItGoes ==
  ASSUME Typed, NEW p \in Process, Step(p)
  PROVE  Goes(p)
<1>1. CASE List(p) \/ Choose(p) \/ FinishPruning(p) \/ Open(p)
  BY <1>1 DEF Goes, List, Choose, FinishPruning, Open, Goto, Typed
<1>2. CASE LockFamily(p)
  BY <1>2, CheckGoes DEF Goes
<1>3. CASE Unlink(p)
  BY <1>3 DEF Goes, Unlink, Goto, Typed
<1>4. CASE LockOwn(p)
  BY <1>4 DEF Goes, LockOwn, Goto, Typed
<1>5. CASE Record(p) \/ WriteAll(p) \/ DropOldest(p)
  BY <1>5 DEF Goes, Record, WriteAll, DropOldest, Goto, Typed
<1>6. CASE Rename(p) \/ CreateFirst(p)
  BY <1>6 DEF Goes, Rename, CreateFirst, Goto, Typed
<1>7. CASE Copy(p) \/ Truncate(p)
  BY <1>7 DEF Goes, Copy, Truncate, Goto, Typed
<1>8. CASE End(p)
  <2>1. pc[p] \notin {"unborn", "ended"} /\ pc'[p] = "ended"
    BY <1>8 DEF End, Goto, Typed
  <2> QED
    BY <1>8, <2>1 DEF Goes
<1> QED
  BY <1>1, <1>2, <1>3, <1>4, <1>5, <1>6, <1>7, <1>8 DEF Step

-----------------------------------------------------------------------------
(* Locks.                                                                   *)

\* Where a process goes, and who holds its lock then.
LEMMA LockedStep ==
  ASSUME Core, NEW p \in Process, Step(p)
  PROVE  Locked'
<1>1. Typed /\ Stays(p)
  BY TypesAre, OthersStay DEF Core
<1>2. /\ \A q \in Process : pc[q] \in Logging => lock[q] = q
      /\ \A f, q \in Process : lock[f] = q => pc[q] \notin {"unborn", "opening", "opened", "ended"}
  BY DEF Core, Locked
<1>3. ASSUME NEW q \in Process, q # p
      PROVE  /\ pc'[q] \in Logging => lock'[q] = q
             /\ \A f \in Process :
                  lock'[f] = q => pc'[q] \notin {"unborn", "opening", "opened", "ended"}
  <2>1. pc'[q] = pc[q]
    BY <1>1, <1>3 DEF Stays
  <2>2. pc'[q] \in Logging => lock'[q] = q
    BY <1>1, <1>2, <1>3, <2>1, LockKept
  <2>3. ASSUME NEW f \in Process, lock'[f] = q
        PROVE  lock[f] = q
    <3>0. q # None
      BY ConstantsAssumption DEF ConstantsAssumption
    <3>1. CASE LockFamily(p)
      <4>1. PICK g \in Process : PassedOver(p, g) \/ CheckFailed(p) \/ TakenDown(p, g)
        BY <1>1, <3>1, FamilyChecked
      <4>2. \/ lock' = lock
            \/ lock' = [lock EXCEPT ![g] = p]
        BY <4>1 DEF PassedOver, CheckFailed, TakenDown
      <4> QED
        BY <1>1, <1>3, <2>3, <4>2 DEF Typed
    <3>2. CASE Unlink(p) \/ FinishPruning(p) \/ WriteAll(p) \/ End(p)
      BY <2>3, <3>0, <3>2 DEF Unlink, FinishPruning, WriteAll, End, Unlocked
    <3>3. CASE LockOwn(p)
      BY <1>1, <1>3, <2>3, <3>3 DEF LockOwn, Typed
    <3>4. CASE \/ List(p) \/ Choose(p) \/ Open(p) \/ Record(p)
               \/ DropOldest(p) \/ Rename(p) \/ CreateFirst(p) \/ Copy(p) \/ Truncate(p)
      BY <2>3, <3>4 DEF List, Choose, Open, Record, DropOldest, Rename, CreateFirst, Copy, Truncate
    <3> QED
      BY <3>1, <3>2, <3>3, <3>4 DEF Step
  <2> QED
    BY <1>2, <2>1, <2>2, <2>3
<1>4. pc'[p] \in Logging => lock'[p] = p
  <2>1. CASE List(p) \/ Choose(p) \/ FinishPruning(p) \/ Open(p) \/ Unlink(p) \/ End(p)
    BY <1>1, <2>1
       DEF List, Choose, FinishPruning, Open, Unlink, End, Goto, Typed, Logging, Rotating
  <2>2. CASE LockFamily(p)
    <3>1. pc'[p] \in {"locking", "silent"}
      BY <1>1, <2>2, CheckGoes
    <3> QED
      BY <3>1 DEF Logging, Rotating
  <2>3. CASE LockOwn(p)
    BY <1>1, <2>3 DEF LockOwn, Goto, Typed, Logging, Rotating
  <2>4. CASE WriteAll(p)
    BY <1>1, <1>2, <2>4 DEF WriteAll, Goto, Typed, Logging, Rotating
  <2>5. CASE \/ Record(p) \/ DropOldest(p) \/ Rename(p) \/ CreateFirst(p)
             \/ Copy(p) \/ Truncate(p)
    <3>1. pc[p] \in Logging /\ lock' = lock
      BY <2>5
         DEF Record, DropOldest, Rename, CreateFirst, Copy, Truncate, Logging, Rotating
    <3> QED
      BY <1>2, <3>1
  <2> QED
    BY <2>1, <2>2, <2>3, <2>4, <2>5 DEF Step
<1>5. ASSUME NEW f \in Process, lock'[f] = p
      PROVE  pc'[p] \notin {"unborn", "opening", "opened", "ended"}
  <2>0. p # None
    BY ConstantsAssumption DEF ConstantsAssumption
  <2>1. CASE List(p)
    BY <1>1, <2>1 DEF List, Goto, Typed
  <2>2. CASE LockFamily(p)
    <3>1. pc'[p] \in {"locking", "silent"}
      BY <1>1, <2>2, CheckGoes
    <3> QED
      BY <3>1
  <2>3. CASE Choose(p) \/ Unlink(p) \/ LockOwn(p) \/ Record(p) \/ WriteAll(p)
    BY <1>1, <2>3 DEF Choose, Unlink, LockOwn, Record, WriteAll, Goto, Typed
  <2>4. CASE FinishPruning(p) \/ End(p)
    BY <1>5, <2>0, <2>4 DEF FinishPruning, End, Unlocked
  <2>5. CASE Open(p)
    BY <1>2, <1>5, <2>5 DEF Open
  <2>6. CASE DropOldest(p) \/ Rename(p) \/ CreateFirst(p) \/ Copy(p) \/ Truncate(p)
    BY <1>1, <2>6 DEF DropOldest, Rename, CreateFirst, Copy, Truncate, Goto, Typed
  <2> QED
    BY <2>1, <2>2, <2>3, <2>4, <2>5, <2>6 DEF Step
<1>6. \A q \in Process : pc'[q] \in Logging => lock'[q] = q
  BY <1>3, <1>4
<1>7. \A f, q \in Process :
        lock'[f] = q => pc'[q] \notin {"unborn", "opening", "opened", "ended"}
  BY <1>3, <1>5
<1> QED
  BY <1>6, <1>7 DEF Locked

Hold(q, f, n) == lock[f] = q \/ pc[f] \in Over \/ (f \in nameless /\ n # 0)

LEMMA HoldStays ==
  ASSUME Core, NEW p \in Process, Step(p), NEW q \in Process, NEW f \in Process, NEW n,
         Hold(q, f, n), lock[f] = q => lock'[f] = q
  PROVE  Hold(q, f, n)'
<1>1. Typed /\ Doomed
  BY TypesAre DEF Core
<1>2. CASE pc[f] \in Over
  BY <1>1, <1>2, OverStays DEF Hold
<1>3. CASE f \in nameless /\ n # 0 /\ f = p /\ End(p)
  BY <1>1, <1>3 DEF End, Goto, Typed, Hold, Over
<1>4. CASE f \in nameless /\ n # 0 /\ ~(f = p /\ End(p))
  BY <1>1, <1>4, NamesGo DEF Hold
<1> QED
  BY <1>2, <1>3, <1>4 DEF Hold

LEMMA HeldStep ==
  ASSUME Core, NEW p \in Process, Step(p)
  PROVE  Held'
<1>1. Typed /\ Stays(p)
  BY TypesAre, OthersStay DEF Core
<1>2. ASSUME NEW q \in Process, pc'[q] \in Pruning, NEW f \in Process, NEW n \in Number,
             <<f, n>> \in ordered'[q] \cup doomed'[q]
      PROVE  Hold(q, f, n)'
  <2>1. CASE q # p
    <3>1. Hold(q, f, n)
      BY <1>1, <1>2, <2>1 DEF Stays, Core, Held, Hold
    <3> QED
      BY <2>1, <3>1, LockKept, <1>1, HoldStays
  <2>2. CASE q = p
    <3>1. CASE List(p)
      BY <1>1, <1>2, <2>2, <3>1 DEF List, Core, Held
    <3>2. CASE Choose(p)
      <4>1. <<f, n>> \in ordered[p] /\ lock' = lock /\ pc[p] \in Pruning
        <5>1. doomed'[p] \subseteq ordered[p] /\ ordered'[p] = {} /\ lock' = lock
          BY <1>1, <3>2 DEF Choose, Typed
        <5>2. pc[p] \in Pruning
          BY <3>2 DEF Choose, Pruning
        <5> QED
          BY <1>2, <2>2, <5>1, <5>2
      <4>2. Hold(p, f, n)
        BY <4>1 DEF Core, Held, Hold
      <4> QED
        BY <2>2, <4>1, <4>2, HoldStays
    <3>3. CASE Unlink(p)
      <4>1. pc[p] \in Pruning /\ pc'[p] \in Pruning /\ "silent" \notin Pruning
        BY <1>2, <2>2, <3>3 DEF Unlink, Pruning
      <4>2. lock' = lock /\ doomed'[p] \subseteq doomed[p] /\ ordered' = ordered
        BY <1>1, <3>3, <4>1 DEF Unlink, Typed, Goto
      <4>3. Hold(p, f, n)
        BY <1>2, <2>2, <4>1, <4>2 DEF Core, Held, Hold
      <4> QED
        BY <2>2, <4>2, <4>3, HoldStays
    <3>4. CASE LockFamily(p)
      <4>1. PICK g \in Process :
              Checked(p, g) /\ (PassedOver(p, g) \/ CheckFailed(p) \/ TakenDown(p, g))
        BY <1>1, <3>4, FamilyChecked
      <4>2. pc[p] = "locking" /\ pc[p] \in Pruning /\ doomed' = doomed
        BY <3>4 DEF LockFamily, Pruning
      <4>3. CASE <<f, n>> \in ordered[p] \cup doomed[p]
        <5>1. Hold(p, f, n)
          BY <4>2, <4>3 DEF Core, Held, Hold
        <5>2. lock[f] = p => lock'[f] = p
          BY <1>1, <4>1 DEF PassedOver, CheckFailed, TakenDown, Typed
        <5> QED
          BY <2>2, <5>1, <5>2, HoldStays
      <4>4. CASE <<f, n>> \notin ordered[p] \cup doomed[p]
        <5>1. /\ TakenDown(p, g) /\ <<f, n>> \in EntriesOf(listed[p], g)
              /\ pc'[p] # "silent"
          <6>1. ordered'[p] # ordered[p]
            BY <1>2, <2>2, <4>2, <4>4
          <6>2. TakenDown(p, g)
            BY <4>1, <6>1 DEF PassedOver, CheckFailed
          <6>3. ordered'[p] = ordered[p] \cup (EntriesOf(listed[p], g) \ Invalid(p, g))
            BY <1>1, <6>2 DEF TakenDown, Typed
          <6> QED
            BY <1>2, <2>2, <4>2, <4>4, <6>2, <6>3 DEF Pruning
        <5>2. f = g /\ <<f, n>> \in listed[p]
          BY <5>1 DEF EntriesOf
        <5>3. lock' = IF <<f, 0>> \in listed[p] THEN [lock EXCEPT ![f] = p] ELSE lock
          BY <1>1, <5>1, <5>2 DEF TakenDown, Goto, Typed
        <5>4. CASE <<f, 0>> \in listed[p]
          BY <1>1, <2>2, <5>3, <5>4 DEF Typed, Hold
        <5>5. CASE <<f, 0>> \notin listed[p]
          <6>1. n \in 1 .. MaxArchives + 1
            BY <5>2, <5>5, Limits DEF Number
          <6>2. ~NoFile(f, n)
            BY <5>2 DEF NoFile
          <6>3. pc[f] \notin Before /\ pc[f] # "opened"
            BY <6>1, <6>2 DEF Core, Fresh
          <6>4. pc[f] \notin Logging \/ f \in nameless
            BY <5>2, <5>5 DEF Core, Based
          <6>5. pc[f] \in Over \/ (f \in nameless /\ n # 0)
            BY <1>1, <6>1, <6>3, <6>4 DEF Typed, Place, Before, Opening, Over
          <6>6. ~End(p)
            BY <1>1, <4>1, <5>1 DEF TakenDown, End, Goto, Typed, LockFamily
          <6>7. pc[f] \in Over => pc'[f] \in Over
            BY <1>1, OverStays
          <6>8. f \in nameless => f \in nameless'
            BY <1>1, <6>6, NamesGo DEF Core
          <6> QED
            BY <6>5, <6>7, <6>8 DEF Hold
        <5> QED
          BY <5>4, <5>5
      <4> QED
        BY <4>3, <4>4
    <3>5. CASE \/ FinishPruning(p) \/ Open(p) \/ LockOwn(p) \/ Record(p) \/ WriteAll(p)
               \/ DropOldest(p) \/ Rename(p)
      BY <1>1, <1>2, <2>2, <3>5
         DEF FinishPruning, Open, LockOwn, Record, WriteAll, DropOldest, Rename, Goto,
             Typed, Pruning
    <3>6. CASE CreateFirst(p) \/ Copy(p) \/ Truncate(p) \/ End(p)
      BY <1>1, <1>2, <2>2, <3>6 DEF CreateFirst, Copy, Truncate, End, Goto, Typed, Pruning
    <3> QED
      BY <3>1, <3>2, <3>3, <3>4, <3>5, <3>6 DEF Step
  <2> QED
    BY <2>1, <2>2
<1>3. ASSUME NEW q \in Process, pc'[q] = "unborn"
      PROVE  ordered'[q] \cup doomed'[q] = {}
  <2>1. CASE q # p
    BY <1>1, <1>3, <2>1 DEF Stays, Core, Held
  <2>2. CASE q = p
    BY <1>1, <1>3, <2>2, ItGoes DEF Goes
  <2> QED
    BY <2>1, <2>2
<1> QED
  BY <1>2, <1>3 DEF Held, Hold

-----------------------------------------------------------------------------
(* Files that are there and lists of them.                                  *)

\* Nobody makes a file of another.
LEMMA NoFileStays ==
  ASSUME Typed, NEW p \in Process, Step(p), NEW f \in Process, NEW n \in Number,
         NoFile(f, n), ~Exists(<<f, n>>)'
  PROVE  NoFile(f, n)'
<1>1. ASSUME NEW q \in Process
      PROVE  <<f, n>> \notin listed'[q] \cup ordered'[q] \cup doomed'[q]
  <2>1. <<f, n>> \notin listed[q] \cup ordered[q] \cup doomed[q]
    BY DEF NoFile
  <2>2. <<f, n>> \notin ordered'[q] \cup doomed'[q]
    BY <2>1, Listing
  <2>3. <<f, n>> \notin listed'[q]
    <3>1. CASE q = p /\ List(p)
      BY <3>1 DEF List, Typed, NoFile, Named
    <3>2. CASE ~(q = p /\ List(p))
      BY <2>1, <3>2, Listing
    <3> QED
      BY <3>1, <3>2
  <2> QED
    BY <2>2, <2>3
<1> QED
  BY <1>1 DEF NoFile

LEMMA OthersNoFile ==
  ASSUME Typed, NEW p \in Process, Step(p), NEW f \in Process, f # p, NEW n \in Number,
         ~Exists(<<f, n>>)
  PROVE  ~Exists(<<f, n>>)'
BY OthersShrink DEF Exists

\* What a process does to its own files.
OwnFiles(p) ==
  /\ List(p) \/ LockFamily(p) \/ Choose(p) \/ Unlink(p) \/ FinishPruning(p) =>
       \A n \in Number : files'[p][n] = files[p][n] \/ files'[p][n] = Absent
  /\ LockOwn(p) \/ Record(p) => files' = files
  /\ End(p) => /\ p \notin nameless => files' = files
               /\ \A n \in Number : files'[p][n] = files[p][n] \/ files'[p][n] = Absent
  /\ Open(p) => \A n \in Number : files'[p][n] = IF n = 0 THEN << >> ELSE files[p][n]
  /\ WriteAll(p) \/ Truncate(p) => \A n \in Number \ {0} : files'[p][n] = files[p][n]
  /\ DropOldest(p) =>
       \A n \in Number : files'[p][n] = IF n = MaxArchives THEN Absent ELSE files[p][n]
  /\ CreateFirst(p) \/ Copy(p) => \A n \in Number \ {1} : files'[p][n] = files[p][n]
  /\ Rename(p) =>
       /\ archive[p] \in Number /\ archive[p] + 1 \in Number
       /\ archive[p] >= 1 /\ archive[p] + 1 <= MaxArchives
       /\ \/ files' = files
          \/ \A n \in Number : files'[p][n] = IF n = archive[p] THEN Absent
                                            ELSE IF n = archive[p] + 1 THEN files[p][archive[p]]
                                            ELSE files[p][n]

LEMMA OwnFilesAre ==
  ASSUME Typed, Fits, NEW p \in Process
  PROVE  OwnFiles(p)
<1>0. 0 \in Number /\ 1 \in Number /\ MaxArchives \in Number
  BY Limits DEF Number
<1>1. ASSUME LockFamily(p), NEW n \in Number
      PROVE  files'[p][n] = files[p][n] \/ files'[p][n] = Absent
  <2>1. PICK g \in Process : PassedOver(p, g) \/ CheckFailed(p) \/ TakenDown(p, g)
    BY <1>1, FamilyChecked
  <2>2. CASE TakenDown(p, g)
    <3>1. files' = [files EXCEPT ![g] = [m \in Number |->
                      IF <<g, m>> \in Invalid(p, g) THEN Absent ELSE @[m]]]
      BY <2>2 DEF TakenDown
    <3> QED
      BY <3>1 DEF Typed
  <2> QED
    BY <2>1, <2>2 DEF PassedOver, CheckFailed
<1>2. ASSUME Unlink(p), NEW n \in Number
      PROVE  files'[p][n] = files[p][n] \/ files'[p][n] = Absent
  BY <1>2 DEF Unlink, Put, Typed, File
<1>3. /\ List(p) \/ Choose(p) \/ FinishPruning(p) \/ LockOwn(p) \/ Record(p) => files' = files
      /\ End(p) => /\ p \notin nameless => files' = files
                   /\ \A n \in Number : files'[p][n] = files[p][n] \/ files'[p][n] = Absent
  <2>1. List(p) \/ Choose(p) \/ FinishPruning(p) \/ LockOwn(p) \/ Record(p) => files' = files
    BY DEF List, Choose, FinishPruning, LockOwn, Record
  <2>2. End(p) /\ p \notin nameless => files' = files
    BY DEF End
  <2>3. ASSUME End(p), NEW n \in Number
        PROVE  files'[p][n] = files[p][n] \/ files'[p][n] = Absent
    <3>1. files' = files \/ files' = [files EXCEPT ![p][0] = Absent]
      BY <2>3 DEF End, Put
    <3> QED
      BY <1>0, <3>1 DEF Typed
  <2> QED
    BY <2>1, <2>2, <2>3
<1>4. ASSUME Open(p), NEW n \in Number
      PROVE  files'[p][n] = IF n = 0 THEN << >> ELSE files[p][n]
  <2>1. files' = [files EXCEPT ![p][0] = << >>]
    BY <1>4 DEF Open, Put
  <2> QED
    BY <1>0, <2>1 DEF Typed
<1>5. ASSUME WriteAll(p) \/ Truncate(p), NEW n \in Number \ {0}
      PROVE  files'[p][n] = files[p][n]
  BY <1>5 DEF WriteAll, Truncate, Put, Typed
<1>6. ASSUME DropOldest(p), NEW n \in Number
      PROVE  files'[p][n] = IF n = MaxArchives THEN Absent ELSE files[p][n]
  <2>1. files' = [files EXCEPT ![p][MaxArchives] = Absent]
    BY <1>6 DEF DropOldest, Put
  <2> QED
    BY <1>0, <2>1 DEF Typed
<1>7. ASSUME CreateFirst(p) \/ Copy(p), NEW n \in Number \ {1}
      PROVE  files'[p][n] = files[p][n]
  BY <1>7 DEF CreateFirst, Copy, Put, Typed
<1>8. ASSUME Rename(p)
      PROVE  /\ archive[p] \in Number /\ archive[p] + 1 \in Number
             /\ archive[p] >= 1 /\ archive[p] + 1 <= MaxArchives
             /\ \/ files' = files
                \/ \A n \in Number : files'[p][n] = IF n = archive[p] THEN Absent
                                            ELSE IF n = archive[p] + 1 THEN files[p][archive[p]]
                                            ELSE files[p][n]
  <2>1. pc[p] = "renaming" /\ archive[p] >= 1
    BY <1>8 DEF Rename
  <2>2. archive[p] \in Number /\ archive[p] + 1 \in Number /\ archive[p] + 1 <= MaxArchives
    <3>1. archive[p] \in 0 .. MaxArchives /\ archive[p] < MaxArchives
      BY <2>1 DEF Fits, Typed
    <3> QED
      BY <2>1, <3>1, Limits DEF Number
  <2>3. \/ files' = files
        \/ files' = [files EXCEPT ![p][archive[p] + 1] = files[p][archive[p]],
                                  ![p][archive[p]] = Absent]
    BY <1>8 DEF Rename
  <2>4. ASSUME files' = [files EXCEPT ![p][archive[p] + 1] = files[p][archive[p]],
                                      ![p][archive[p]] = Absent],
               NEW n \in Number
        PROVE  files'[p][n] = IF n = archive[p] THEN Absent
                              ELSE IF n = archive[p] + 1 THEN files[p][archive[p]]
                              ELSE files[p][n]
    BY <2>2, <2>4 DEF Typed
  <2> QED
    BY <2>1, <2>2, <2>3, <2>4
<1> QED
  BY <1>1, <1>2, <1>3, <1>4, <1>5, <1>6, <1>7, <1>8 DEF OwnFiles

LEMMA FreshStep ==
  ASSUME Core, NEW p \in Process, Step(p)
  PROVE  Fresh'
<1>1. Typed /\ Stays(p) /\ Goes(p) /\ OwnFiles(p)
  BY TypesAre, OthersStay, ItGoes, OwnFilesAre DEF Core
<1>2. 1 .. MaxArchives + 1 \subseteq Number /\ MaxArchives + 1 \in Number
  BY Limits DEF Number
<1>3. ASSUME NEW f \in Process, f # p
      PROVE  /\ pc'[f] \in Before => \A n \in Number : NoFile(f, n)'
             /\ pc'[f] = "opened" => \A n \in 1 .. MaxArchives + 1 : NoFile(f, n)'
             /\ pc'[f] # "ended" => ~Exists(<<f, MaxArchives + 1>>)'
  <2>1. pc'[f] = pc[f]
    BY <1>1, <1>3 DEF Stays
  <2>2. ASSUME NEW n \in Number, NoFile(f, n)
        PROVE  NoFile(f, n)'
    <3>1. ~Exists(<<f, n>>)'
      BY <1>1, <1>3, <2>2, OthersNoFile DEF NoFile
    <3> QED
      BY <1>1, <2>2, <3>1, NoFileStays
  <2>3. ~Exists(<<f, MaxArchives + 1>>) => ~Exists(<<f, MaxArchives + 1>>)'
    BY <1>1, <1>2, <1>3, OthersNoFile
  <2> QED
    BY <1>2, <2>1, <2>2, <2>3 DEF Core, Fresh
<1>4. pc'[p] \in Before => \A n \in Number : NoFile(p, n)'
  <2> SUFFICES ASSUME pc'[p] \in Before, NEW n \in Number
               PROVE  NoFile(p, n)'
    OBVIOUS
  <2>1. /\ pc[p] \in Before
        /\ List(p) \/ LockFamily(p) \/ Choose(p) \/ Unlink(p) \/ FinishPruning(p)
    BY <1>1 DEF Goes, Before, Pruning
  <2>2. NoFile(p, n)
    BY <2>1 DEF Core, Fresh
  <2>3. ~Exists(<<p, n>>)'
    BY <1>1, <2>1, <2>2 DEF OwnFiles, NoFile, Exists
  <2> QED
    BY <1>1, <2>2, <2>3, NoFileStays
<1>5. pc'[p] = "opened" => \A n \in 1 .. MaxArchives + 1 : NoFile(p, n)'
  <2> SUFFICES ASSUME pc'[p] = "opened", NEW n \in 1 .. MaxArchives + 1
               PROVE  NoFile(p, n)'
    OBVIOUS
  <2>1. pc[p] \in Before /\ Open(p) /\ n \in Number /\ n # 0
    BY <1>1, <1>2 DEF Goes, Before, Pruning
  <2>2. NoFile(p, n)
    BY <2>1 DEF Core, Fresh
  <2>3. ~Exists(<<p, n>>)'
    BY <1>1, <2>1, <2>2 DEF OwnFiles, NoFile, Exists
  <2> QED
    BY <1>1, <2>1, <2>2, <2>3, NoFileStays
<1>6. pc'[p] # "ended" => ~Exists(<<p, MaxArchives + 1>>)'
  <2> SUFFICES ASSUME pc'[p] # "ended"
               PROVE  ~Exists(<<p, MaxArchives + 1>>)'
    OBVIOUS
  <2>1. ~Exists(<<p, MaxArchives + 1>>) /\ ~End(p)
    BY <1>1 DEF Goes, Core, Fresh, End, Goto, Typed
  <2>2. MaxArchives + 1 # 0 /\ MaxArchives + 1 # 1 /\ MaxArchives + 1 # MaxArchives
    BY Limits
  <2>3. CASE Rename(p)
    <3>1. archive[p] # MaxArchives + 1 /\ archive[p] + 1 # MaxArchives + 1
      BY <1>1, <2>3, Limits DEF OwnFiles, Typed
    <3> QED
      BY <1>1, <1>2, <2>1, <2>3, <3>1 DEF OwnFiles, Exists
  <2>4. CASE ~Rename(p)
    BY <1>1, <1>2, <2>1, <2>2, <2>4 DEF Step, OwnFiles, Exists
  <2> QED
    BY <2>3, <2>4
<1> QED
  BY <1>3, <1>4, <1>5, <1>6 DEF Fresh

LEMMA BasedStep ==
  ASSUME Core, NEW p \in Process, Step(p)
  PROVE  Based'
<1>1. Typed /\ Stays(p) /\ Goes(p) /\ OwnFiles(p)
  BY TypesAre, OthersStay, ItGoes, OwnFilesAre DEF Core
<1>2. 0 \in Number
  BY Limits DEF Number
<1>3. SUFFICES ASSUME NEW f \in Process, pc'[f] \in {"opened"} \cup Logging
               PROVE  /\ Exists(<<f, 0>>)'
                      /\ pc'[f] \in Logging /\ f \notin nameless' =>
                           \A q \in Process, n \in Number :
                             <<f, n>> \in listed'[q] => <<f, 0>> \in listed'[q]
  BY DEF Based
<1>4. ASSUME f # p
      PROVE  pc[f] \in {"opened"} \cup Logging /\ pc[f] = pc'[f]
  BY <1>1, <1>3, <1>4 DEF Stays
<1>5. ASSUME f = p
      PROVE  \/ pc'[p] = "opened" /\ Open(p)
             \/ pc[p] = "opened" /\ LockOwn(p)
             \/ /\ pc[p] \in Logging /\ listed' = listed
                /\ \/ Record(p) \/ WriteAll(p) \/ DropOldest(p) \/ Rename(p)
                   \/ CreateFirst(p) \/ Copy(p) \/ Truncate(p)
  BY <1>1, <1>3, <1>5
     DEF Goes, Logging, Rotating, Record, WriteAll, DropOldest, Rename, CreateFirst, Copy, Truncate
<1>6. Exists(<<f, 0>>)'
  <2>1. CASE f # p
    <3>1. Exists(<<f, 0>>)
      BY <1>4, <2>1 DEF Core, Based
    <3> QED
      BY <1>4, <2>1, <3>1, BaseSpared DEF Exists
  <2>2. CASE f = p /\ LockOwn(p)
    <3>1. Exists(<<p, 0>>) /\ files' = files
      BY <2>2 DEF LockOwn, Core, Based
    <3> QED
      BY <2>2, <3>1 DEF Exists
  <2>3. CASE f = p /\ Open(p)
    <3>1. files'[p][0] = << >>
      BY <1>1, <1>2, <2>3 DEF OwnFiles
    <3> QED
      BY <2>3, <3>1, NoRecords DEF Exists
  <2>4. CASE f = p /\ pc[p] \in Logging
    <3>1. Exists(<<p, 0>>)
      BY <2>4 DEF Core, Based
    <3>2. CASE Record(p) \/ DropOldest(p) \/ Rename(p) \/ CreateFirst(p) \/ Copy(p)
      <4>1. CASE Record(p) \/ CreateFirst(p) \/ Copy(p)
        BY <1>1, <1>2, <2>4, <3>1, <4>1 DEF OwnFiles, Exists
      <4>2. CASE DropOldest(p)
        BY <1>1, <1>2, <2>4, <3>1, <4>2, Limits DEF OwnFiles, Exists
      <4>3. CASE Rename(p)
        <5>1. archive[p] >= 1 /\ archive[p] \in Nat
          BY <1>1, <4>3 DEF OwnFiles, Typed
        <5>2. files' = files \/ files'[p][0] = files[p][0]
          BY <1>1, <1>2, <4>3, <5>1 DEF OwnFiles
        <5> QED
          BY <2>4, <3>1, <5>2 DEF Exists
      <4> QED
        BY <3>2, <4>1, <4>2, <4>3
    <3>3. CASE WriteAll(p)
      <4>1. pc'[p] # "silent" /\ pc[p] = "appending"
        BY <1>3, <2>4, <3>3 DEF WriteAll, Logging, Rotating
      <4>2. files' = [files EXCEPT ![p][0] = Append(files[p][0], written[p] + 1)]
        BY <1>1, <3>3, <4>1 DEF WriteAll, Put, Goto, Typed
      <4>3. files[p][0] \in Seq(1 .. RecordLimit) /\ written[p] + 1 \in 1 .. RecordLimit
        <5>1. written[p] \in 0 .. RecordLimit /\ written[p] < RecordLimit
          BY <1>1, <4>1 DEF Core, Fits, Typed
        <5>2. files[p][0] \in Contents /\ files[p][0] # Absent
          BY <1>1, <1>2, <3>1 DEF Typed, Exists
        <5> QED
          BY <5>1, <5>2, Limits DEF Contents
      <4>4. Append(files[p][0], written[p] + 1) # Absent
        BY <4>3, Appended, Records
      <4>5. files'[p][0] = Append(files[p][0], written[p] + 1)
        BY <1>1, <1>2, <4>2 DEF Typed
      <4> QED
        BY <2>4, <4>4, <4>5 DEF Exists
    <3>4. CASE Truncate(p)
      <4>1. files' = [files EXCEPT ![p][0] = << >>] \/ files' = files
        BY <3>4 DEF Truncate, Put
      <4> QED
        BY <1>1, <1>2, <2>4, <3>1, <4>1, NoRecords DEF Typed, Exists
    <3> QED
      BY <1>5, <2>4, <3>2, <3>3, <3>4 DEF LockOwn, Open, Logging, Rotating
  <2> QED
    BY <1>5, <2>1, <2>2, <2>3, <2>4
<1>7. ASSUME pc'[f] \in Logging, f \notin nameless', NEW q \in Process, NEW n \in Number, <<f, n>> \in listed'[q]
      PROVE  <<f, 0>> \in listed'[q]
  <2>0. /\ f # p => pc[f] \in Logging /\ f \notin nameless
        /\ f = p => ~Open(p) /\ f \notin nameless
    <3>1. f \in nameless => f \in nameless' \/ (f = p /\ End(p))
      BY <1>1, NamesGo DEF Core
    <3>2. f = p => ~End(p) /\ ~Open(p)
      BY <1>1, <1>7 DEF End, Open, Goto, Typed, Logging, Rotating
    <3> QED
      BY <1>4, <1>7, <3>1, <3>2
  <2>1. CASE q = p /\ List(p)
    <3>1. listed'[p] = {file \in File : Named(file)} /\ f # p
      BY <1>1, <1>7, <2>1 DEF List, Goto, Typed, Logging, Rotating
    <3>2. Named(<<f, 0>>)
      BY <1>4, <2>0, <3>1 DEF Core, Based, Named
    <3> QED
      BY <1>2, <2>1, <3>1, <3>2 DEF File
  <2>2. CASE q = p /\ LockFamily(p)
    <3>1. f # p
      BY <1>7, <2>2, CheckGoes, <1>1 DEF Logging, Rotating
    <3>2. PICK g \in Process : listed'[p] = listed[p] \ EntriesOf(listed[p], g)
      BY <1>1, <2>2, FamilyChecked DEF Checked, Typed
    <3>3. <<f, n>> \in listed[p] /\ f # g
      BY <1>7, <2>2, <3>2 DEF EntriesOf
    <3>4. <<f, 0>> \in listed[p]
      BY <2>0, <3>1, <3>3 DEF Core, Based
    <3> QED
      BY <2>2, <3>2, <3>3, <3>4 DEF EntriesOf
  <2>3. CASE ~(q = p /\ (List(p) \/ LockFamily(p)))
    <3>1. <<f, n>> \in listed[q] /\ listed'[q] = listed[q]
      <4>1. CASE q # p
        BY <1>1, <1>7, <4>1 DEF Stays
      <4>2. CASE q = p /\ End(p)
        BY <1>1, <1>7, <4>2 DEF End, Typed
      <4>3. CASE q = p /\ ~End(p)
        BY <1>7, <2>3, <4>3
           DEF Step, Choose, Unlink, FinishPruning, Open, LockOwn, Record, WriteAll,
               DropOldest, Rename, CreateFirst, Copy, Truncate
      <4> QED
        BY <4>1, <4>2, <4>3
    <3>2. CASE pc[f] \in Logging
      BY <2>0, <3>1, <3>2 DEF Core, Based
    <3>3. CASE pc[f] \notin Logging
      <4>1. pc[f] = "opened"
        BY <1>5, <2>0, <3>3
      <4>2. n \notin 1 .. MaxArchives + 1
        BY <3>1, <4>1 DEF Core, Fresh, NoFile
      <4>3. n = 0
        BY <4>2, Limits DEF Number
      <4> QED
        BY <3>1, <4>3
    <3> QED
      BY <3>2, <3>3
  <2> QED
    BY <2>1, <2>2, <2>3
<1> QED
  BY <1>6, <1>7

\* What was chosen stays chosen.
LEMMA ChosenStays ==
  ASSUME Typed, NEW p \in Process, Step(p)
  PROVE  pruned \subseteq pruned'
<1>1. CASE LockFamily(p)
  BY <1>1, FamilyChecked DEF PassedOver, CheckFailed, TakenDown
<1>2. CASE ~LockFamily(p)
  BY <1>2 DEF Step, List, Choose, Unlink, FinishPruning, Open, LockOwn, Record, WriteAll,
              DropOldest, Rename, CreateFirst, Copy, Truncate, End
<1> QED
  BY <1>1, <1>2

LEMMA DoomedStep ==
  ASSUME Core, NEW p \in Process, Step(p)
  PROVE  Doomed'
<1>1. Typed /\ Stays(p)
  BY TypesAre, OthersStay DEF Core
<1>2. pruned \subseteq pruned'
  BY <1>1, ChosenStays
<1>3. ASSUME NEW q \in Process, NEW f \in Process, NEW n \in Number, <<f, n>> \in doomed'[q]
      PROVE  f \in pruned'
  <2>1. CASE <<f, n>> \in doomed[q]
    BY <1>2, <2>1 DEF Core, Doomed
  <2>2. CASE <<f, n>> \notin doomed[q]
    <3>1. q = p /\ Choose(p)
      <4>1. q = p
        BY <1>1, <1>3, <2>2 DEF Stays
      <4>2. ~LockFamily(p)
        BY <1>1, <1>3, <2>2, FamilyChecked DEF Checked
      <4>3. ~Unlink(p) /\ ~End(p)
        BY <1>1, <1>3, <2>2, <4>1 DEF Unlink, End, Typed
      <4> QED
        BY <1>3, <2>2, <4>1, <4>2, <4>3
           DEF Step, List, FinishPruning, Open, LockOwn, Record, WriteAll,
               DropOldest, Rename, CreateFirst, Copy, Truncate
    <3>2. PICK kept \in Kept(FamiliesOf(ordered[p])) :
            /\ doomed' = [doomed EXCEPT ![p] = {e \in ordered[p] : e[1] \notin kept}]
            /\ pruned' = pruned \cup (FamiliesOf(ordered[p]) \ kept)
      BY <3>1 DEF Choose
    <3>3. <<f, n>> \in ordered[p] /\ f \notin kept
      BY <1>1, <1>3, <3>1, <3>2 DEF Typed
    <3>4. f \in FamiliesOf(ordered[p])
      BY <3>3 DEF FamiliesOf
    <3> QED
      BY <3>2, <3>3, <3>4
  <2> QED
    BY <2>1, <2>2
<1> QED
  BY <1>3 DEF Doomed

-----------------------------------------------------------------------------
(* Room and types.                                                          *)

\* The base file of a process that logs, and where its next record goes.
LEMMA BaseFile ==
  ASSUME Core, NEW p \in Process, pc[p] \in Logging
  PROVE  files[p][0] \in Seq(1 .. RecordLimit) /\ Size(files[p][0]) \in Nat
<1>1. files[p][0] \in Contents /\ files[p][0] # Absent
  <2>1. 0 \in Number /\ Typed
    BY Limits, TypesAre DEF Number, Core
  <2> QED
    BY <2>1 DEF Core, Based, Exists, Typed
<1> QED
  BY <1>1, SizeIs DEF Contents

LEMMA CopyOfBase ==
  ASSUME Core, NEW p \in Process, pc[p] \in {"copying", "truncating"}, Exists(<<p, 1>>)
  PROVE  files[p][1] \in Seq(1 .. RecordLimit) /\ IsPrefix(files[p][1], files[p][0])
<1>1. IsPrefix(files[p][1], files[p][0])
  BY DEF Core, Fits
<1>2. 1 \in Number /\ Typed
  BY Limits, TypesAre DEF Number, Core
<1> QED
  BY <1>1, <1>2 DEF Exists, Typed, Contents

\* A record is copied, or the copy is complete, or it fails.
LEMMA CopyGoes ==
  ASSUME Core, NEW p \in Process, Copy(p)
  PROVE  \/ /\ files'[p][1] \in Seq(1 .. RecordLimit)
            /\ files'[p][0] = files[p][0]
            /\ IsPrefix(files'[p][1], files[p][0])
            /\ files' = [files EXCEPT ![p][1] = files'[p][1]]
            /\ pc' = pc
         \/ /\ Exists(<<p, 1>>) => files[p][1] = files[p][0]
            /\ files' = files /\ pc'[p] = "truncating"
         \/ files' = [files EXCEPT ![p][1] = Absent] /\ pc'[p] = "silent"
<1>1. Typed /\ 0 \in Number /\ 1 \in Number /\ pc[p] = "copying" /\ pc[p] \in Logging
  BY Limits, TypesAre DEF Core, Number, Copy, Logging, Rotating
<1>2. CASE /\ Exists(<<p, 1>>) /\ Len(files[p][1]) < Len(files[p][0])
           /\ Put(p, 1, Append(files[p][1], files[p][0][Len(files[p][1]) + 1]))
           /\ UNCHANGED <<pc, faults>>
  <2>0. PICK s \in Seq(1 .. RecordLimit), t \in Seq(1 .. RecordLimit) :
          s = files[p][1] /\ t = files[p][0] /\ IsPrefix(s, t)
    BY <1>1, <1>2, BaseFile, CopyOfBase
  <2>1. PICK u : u = Append(s, t[Len(s) + 1])
    OBVIOUS
  <2>2. u \in Seq(1 .. RecordLimit) /\ IsPrefix(u, t)
    BY <2>0, <1>2, <2>1, CopiedOn
  <2>3. files' = [files EXCEPT ![p][1] = u]
    BY <2>0, <1>2, <2>1 DEF Put
  <2>4. files'[p][1] = u /\ files'[p][0] = files[p][0]
    BY <1>1, <2>3 DEF Typed
  <2> QED
    BY <2>0, <1>2, <2>2, <2>3, <2>4
<1>3. CASE /\ Exists(<<p, 1>>) => files[p][1] = files[p][0]
           /\ Goto(p, "truncating") /\ UNCHANGED <<files, faults>>
  BY <1>1, <1>3 DEF Goto, Typed
<1>4. CASE Fault /\ Put(p, 1, Absent) /\ Goto(p, "silent")
  BY <1>1, <1>4 DEF Goto, Put, Typed
<1> QED
  BY <1>2, <1>3, <1>4 DEF Copy

LEMMA FitsStep ==
  ASSUME Core, NEW p \in Process, Step(p)
  PROVE  Fits'
<1>1. Typed /\ Stays(p) /\ Goes(p) /\ OwnFiles(p)
  BY TypesAre, OthersStay, ItGoes, OwnFilesAre DEF Core
<1>2. 0 \in Number /\ 1 \in Number
  BY Limits DEF Number
<1>3. ASSUME NEW q \in Process, q # p
      PROVE  /\ pc'[q] = "appending" => Size(files'[q][0]) + Bytes(written'[q] + 1) <= RotationBytes
             /\ pc'[q] \in {"appending"} \cup Rotating => written'[q] < RecordLimit
             /\ pc'[q] = "renaming" => archive'[q] < MaxArchives
             /\ pc'[q] \in {"copying", "truncating"} =>
                  /\ q \notin nameless' => Exists(<<q, 1>>)'
                  /\ Exists(<<q, 1>>)' => IsPrefix(files'[q][1], files'[q][0])
  <2>1. pc'[q] = pc[q] /\ written'[q] = written[q] /\ archive'[q] = archive[q]
    BY <1>1, <1>3 DEF Stays
  <2>2. CASE pc[q] \in Logging
    <3>1. files'[q][0] = files[q][0]
      BY <1>3, <2>2, BaseSpared
    <3>2. files'[q][1] = files[q][1] \/ (q \in nameless /\ files'[q][1] = Absent)
      <4>1. q \notin nameless => files'[q] = files[q]
        BY <1>3, <2>2, LoggingSpared
      <4>2. files'[q][1] = files[q][1] \/ files'[q][1] = Absent
        BY <1>1, <1>2, <1>3, OthersShrink
      <4> QED
        BY <4>1, <4>2
    <3>3. q \in nameless => q \in nameless'
      BY <1>1, <1>3, NamesGo DEF Core
    <3> QED
      BY <2>1, <3>1, <3>2, <3>3 DEF Core, Fits, Exists
  <2>3. CASE pc[q] \notin Logging
    BY <2>1, <2>3 DEF Logging, Rotating
  <2> QED
    BY <2>2, <2>3
<1>4. pc'[p] = "appending" => Size(files'[p][0]) + Bytes(written'[p] + 1) <= RotationBytes
  <2>1. PICK b \in 1 .. 2 : b = Bytes(written[p] + 1)
    BY BytesAre
  <2>2. CASE Record(p)
    <3>1. PICK size \in Nat : size = Size(files[p][0])
      BY <2>2, BaseFile DEF Record, Logging
    <3>2. pc'[p] = "appending" => ~Full(p)
      BY <1>1, <2>2 DEF Record, Goto, Typed
    <3>3. ~Full(p) => size = 0 \/ size + b <= RotationBytes
      BY <2>1, <3>1, Limits DEF Full
    <3>4. files' = files /\ written' = written
      BY <2>2 DEF Record
    <3> QED
      BY <2>1, <3>1, <3>2, <3>3, <3>4, Limits
  <2>3. CASE Truncate(p)
    <3>1. pc'[p] = "appending" => files' = [files EXCEPT ![p][0] = << >>]
      BY <1>1, <2>3 DEF Truncate, Put, Goto, Typed
    <3>2. pc'[p] = "appending" => files'[p][0] = << >>
      BY <1>1, <1>2, <3>1 DEF Typed
    <3>3. written' = written
      BY <2>3 DEF Truncate
    <3> QED
      BY <2>1, <3>2, <3>3, NoRecords, Limits
  <2>4. CASE pc'[p] # "appending"
    BY <2>4
  <2> QED
    BY <1>1, <2>2, <2>3, <2>4 DEF Goes
<1>5. pc'[p] \in {"appending"} \cup Rotating => written'[p] < RecordLimit
  <2>1. CASE Record(p)
    BY <2>1 DEF Record
  <2>2. CASE /\ pc[p] \in {"appending"} \cup Rotating
             /\ DropOldest(p) \/ Rename(p) \/ CreateFirst(p) \/ Copy(p) \/ Truncate(p)
    <3>1. written[p] < RecordLimit /\ written' = written
      BY <2>2 DEF Core, Fits, DropOldest, Rename, CreateFirst, Copy, Truncate
    <3> QED
      BY <3>1
  <2> QED
    BY <1>1, <2>1, <2>2 DEF Goes, Rotating
<1>6. pc'[p] = "renaming" => archive'[p] < MaxArchives
  <2>1. CASE DropOldest(p)
    BY <1>1, <2>1, Limits DEF DropOldest, Typed
  <2>2. CASE Rename(p)
    <3>1. archive[p] \in 0 .. MaxArchives /\ archive[p] < MaxArchives
      BY <1>1, <2>2 DEF Core, Fits, Rename, Typed
    <3>2. archive'[p] = archive[p] \/ archive'[p] = archive[p] - 1
      BY <1>1, <2>2 DEF Rename, Typed
    <3> QED
      BY <3>1, <3>2, Limits
  <2> QED
    BY <1>1, <2>1, <2>2 DEF Goes
<1>7. pc'[p] \in {"copying", "truncating"} =>
        /\ p \notin nameless' => Exists(<<p, 1>>)'
        /\ Exists(<<p, 1>>)' => IsPrefix(files'[p][1], files'[p][0])
  <2>1. CASE CreateFirst(p) /\ pc'[p] = "copying"
    <3>1. files' = [files EXCEPT ![p][1] = << >>]
      BY <1>1, <2>1 DEF CreateFirst, Goto, Put, Typed
    <3>2. files'[p][1] = << >> /\ files'[p][0] = files[p][0]
      BY <1>1, <1>2, <3>1 DEF Typed
    <3>3. files[p][0] \in Seq(1 .. RecordLimit)
      BY <2>1, BaseFile DEF CreateFirst, Logging, Rotating
    <3>4. PICK e \in Seq(1 .. RecordLimit) : e = << >>
      BY NoRecords
    <3>5. PICK t \in Seq(1 .. RecordLimit) : t = files[p][0]
      BY <3>3
    <3>6. IsPrefix(e, t)
      <4>1. Len(e) = 0 /\ Len(t) \in Nat
        BY <3>4, Records
      <4>2. Len(e) <= Len(t) /\ \A i \in 1 .. Len(e) : e[i] = t[i]
        BY <4>1
      <4> QED
        BY <4>2, PrefixMeans
    <3> QED
      BY <3>2, <3>4, <3>5, <3>6, NoRecords DEF Exists
  <2>2. CASE Copy(p) /\ pc'[p] # "silent"
    <3>1. CASE files' = files
      BY <2>2, <3>1 DEF Core, Fits, Copy, Exists
    <3>2. CASE /\ files'[p][1] \in Seq(1 .. RecordLimit)
               /\ files'[p][0] = files[p][0]
               /\ IsPrefix(files'[p][1], files[p][0])
      BY <3>2, Records DEF Exists
    <3> QED
      BY <2>2, <3>1, <3>2, CopyGoes
  <2> QED
    BY <1>1, <2>1, <2>2 DEF Goes
<1> QED
  BY <1>3, <1>4, <1>5, <1>6, <1>7 DEF Fits

\* The contents of the files.
FilesTyped ==
  /\ files \in [Process -> [Number -> Contents]]
  /\ \A f \in Process, n \in Number : Size(files[f][n]) <= RotationBytes

LEMMA EmptyFits == Absent \in Contents /\ Size(Absent) <= RotationBytes
BY Limits DEF Contents, Size

\* A file is written.
LEMMA PutTyped ==
  ASSUME FilesTyped, NEW f \in Process, NEW n \in Number,
         NEW c \in Contents, Size(c) <= RotationBytes,
         files' = [files EXCEPT ![f][n] = c]
  PROVE  FilesTyped'
<1>1. files' \in [Process -> [Number -> Contents]]
  BY DEF FilesTyped
<1>2. ASSUME NEW g \in Process, NEW m \in Number
      PROVE  Size(files'[g][m]) <= RotationBytes
  <2>1. files'[g][m] = c \/ files'[g][m] = files[g][m]
    BY DEF FilesTyped
  <2> QED
    BY <2>1 DEF FilesTyped
<1> QED
  BY <1>1, <1>2 DEF FilesTyped

LEMMA FilesStep ==
  ASSUME Core, NEW p \in Process, Step(p)
  PROVE  FilesTyped'
<1>1. Typed /\ Goes(p) /\ FilesTyped
  BY TypesAre, ItGoes DEF Core, Typed, FilesTyped
<1>2. 0 \in Number /\ 1 \in Number /\ MaxArchives \in Number
  BY Limits DEF Number
<1>3. << >> \in Contents /\ Size(<< >>) <= RotationBytes
  BY NoRecords, Limits DEF Contents
<1>4. CASE files' = files
  BY <1>1, <1>4 DEF FilesTyped
<1>5. CASE LockFamily(p)
  <2>1. PICK f \in Process : PassedOver(p, f) \/ CheckFailed(p) \/ TakenDown(p, f)
    BY <1>1, <1>5, FamilyChecked
  <2>2. CASE TakenDown(p, f)
    <3>1. files' = [files EXCEPT ![f] = [n \in Number |->
                      IF <<f, n>> \in Invalid(p, f) THEN Absent ELSE @[n]]]
      BY <2>2 DEF TakenDown
    <3>2. files' \in [Process -> [Number -> Contents]]
      BY <1>1, <3>1, EmptyFits DEF Typed
    <3>3. ASSUME NEW g \in Process, NEW n \in Number
          PROVE  Size(files'[g][n]) <= RotationBytes
      <4>1. files'[g][n] = files[g][n] \/ files'[g][n] = Absent
        BY <1>1, <3>1 DEF Typed
      <4> QED
        BY <1>1, <4>1, EmptyFits DEF FilesTyped
    <3> QED
      BY <3>2, <3>3 DEF FilesTyped
  <2> QED
    BY <1>4, <2>1, <2>2 DEF PassedOver, CheckFailed
<1>6. CASE Unlink(p)
  <2>1. ASSUME NEW file \in doomed[p], Put(file[1], file[2], Absent)
        PROVE  FilesTyped'
    <3>1. file[1] \in Process /\ file[2] \in Number
      BY <1>1, <2>1 DEF Typed, File
    <3>2. files' = [files EXCEPT ![file[1]][file[2]] = Absent]
      BY <2>1 DEF Put
    <3> QED
      BY <1>1, <3>1, <3>2, EmptyFits, PutTyped
  <2> QED
    BY <1>4, <1>6, <2>1 DEF Unlink
<1>7. CASE Open(p) \/ Truncate(p)
  <2>1. files' = files \/ files' = [files EXCEPT ![p][0] = << >>]
    BY <1>7 DEF Open, Truncate, Put
  <2> QED
    BY <1>1, <1>2, <1>3, <1>4, <2>1, PutTyped
<1>8. CASE DropOldest(p)
  <2>1. files' = [files EXCEPT ![p][MaxArchives] = Absent]
    BY <1>8 DEF DropOldest, Put
  <2> QED
    BY <1>1, <1>2, <2>1, EmptyFits, PutTyped
<1>9. CASE CreateFirst(p)
  <2>1. files' = files \/ files' = [files EXCEPT ![p][1] = << >>]
    BY <1>9 DEF CreateFirst, Put
  <2> QED
    BY <1>1, <1>2, <1>3, <1>4, <2>1, PutTyped
<1>10. CASE WriteAll(p)
  <2>1. CASE files' = [files EXCEPT ![p][0] = Append(files[p][0], written[p] + 1)]
    <3>1. PICK s \in Seq(1 .. RecordLimit), r \in 1 .. RecordLimit :
            s = files[p][0] /\ r = written[p] + 1 /\ Size(s) + Bytes(r) <= RotationBytes
      <4>1. pc[p] = "appending" /\ pc[p] \in Logging
        BY <1>10 DEF WriteAll, Logging
      <4>2. /\ written[p] \in 0 .. RecordLimit /\ written[p] < RecordLimit
            /\ Size(files[p][0]) + Bytes(written[p] + 1) <= RotationBytes
        BY <1>1, <4>1 DEF Core, Fits, Typed
      <4>3. written[p] + 1 \in 1 .. RecordLimit
        BY <4>2, Limits
      <4> QED
        BY <4>1, <4>2, <4>3, BaseFile
    <3>2. PICK c : c = Append(s, r)
      OBVIOUS
    <3>3. c \in Contents /\ Size(c) <= RotationBytes
      BY <3>1, <3>2, Appended, SizeAppended DEF Contents
    <3>4. files' = [files EXCEPT ![p][0] = c]
      BY <2>1, <3>1, <3>2
    <3> QED
      BY <1>1, <1>2, <3>3, <3>4, PutTyped
  <2> QED
    BY <1>4, <1>10, <2>1 DEF WriteAll, Put
<1>11. CASE Copy(p)
  <2>1. files[p][0] \in Seq(1 .. RecordLimit)
    BY <1>11, BaseFile DEF Copy, Logging, Rotating
  <2>2. CASE /\ files'[p][1] \in Seq(1 .. RecordLimit)
             /\ IsPrefix(files'[p][1], files[p][0])
             /\ files' = [files EXCEPT ![p][1] = files'[p][1]]
    <3>1. PICK c \in Seq(1 .. RecordLimit), t \in Seq(1 .. RecordLimit) :
            c = files'[p][1] /\ t = files[p][0]
      BY <2>1, <2>2
    <3>2. Size(c) <= Size(t) /\ Size(c) \in Nat /\ Size(t) \in Nat
      BY <2>2, <3>1, SizeOfPrefix, SizeIs
    <3>3. Size(t) <= RotationBytes
      BY <1>1, <1>2, <3>1 DEF FilesTyped
    <3>4. c \in Contents /\ Size(c) <= RotationBytes
      BY <3>2, <3>3, Limits DEF Contents
    <3>5. files' = [files EXCEPT ![p][1] = c]
      BY <2>2, <3>1
    <3> QED
      BY <1>1, <1>2, <3>4, <3>5, PutTyped
  <2>3. CASE files' = [files EXCEPT ![p][1] = Absent]
    BY <1>1, <1>2, <2>3, EmptyFits, PutTyped
  <2> QED
    BY <1>4, <1>11, <2>2, <2>3, CopyGoes
<1>12. CASE Rename(p)
  <2>1. PICK n \in Number : n = archive[p] /\ n + 1 \in Number
    BY <1>1, <1>12, OwnFilesAre DEF OwnFiles, Core
  <2>2. CASE files' = [files EXCEPT ![p][n + 1] = files[p][n], ![p][n] = Absent]
    <3>1. files' \in [Process -> [Number -> Contents]]
      BY <1>1, <2>1, <2>2, EmptyFits DEF Typed
    <3>2. ASSUME NEW g \in Process, NEW m \in Number
          PROVE  Size(files'[g][m]) <= RotationBytes
      <4>1. files'[g][m] \in {Absent, files[p][n], files[g][m]}
        BY <1>1, <2>1, <2>2 DEF Typed
      <4> QED
        BY <1>1, <2>1, <4>1, EmptyFits DEF FilesTyped
    <3> QED
      BY <3>1, <3>2 DEF FilesTyped
  <2> QED
    BY <1>4, <1>12, <2>1, <2>2 DEF Rename
<1>13. CASE List(p) \/ Choose(p) \/ FinishPruning(p) \/ LockOwn(p) \/ Record(p)
  BY <1>4, <1>13 DEF List, Choose, FinishPruning, LockOwn, Record
<1>14. CASE End(p)
  <2>1. files' = files \/ files' = [files EXCEPT ![p][0] = Absent]
    BY <1>14 DEF End, Put
  <2> QED
    BY <1>1, <1>2, <1>4, <2>1, EmptyFits, PutTyped
<1> QED
  BY <1>5, <1>6, <1>7, <1>8, <1>9, <1>10, <1>11, <1>12, <1>13, <1>14 DEF Step

\* The other types.
RestTyped ==
  /\ pc \in [Process -> Place]
  /\ lock \in [Process -> Process \cup {None}]
  /\ listed \in [Process -> SUBSET File]
  /\ ordered \in [Process -> SUBSET File]
  /\ doomed \in [Process -> SUBSET File]
  /\ archive \in [Process -> 0 .. MaxArchives]
  /\ written \in [Process -> 0 .. RecordLimit]
  /\ nameless \subseteq Process /\ pruned \subseteq Process /\ alone \subseteq Process
  /\ faults \in 0 .. FaultLimit

LEMMA RestStep ==
  ASSUME Core, NEW p \in Process, Step(p)
  PROVE  RestTyped'
<1>1. Typed /\ RestTyped
  BY TypesAre DEF Core, Typed, RestTyped
<1>2. Fault => faults' \in 0 .. FaultLimit
  BY <1>1, Limits DEF Fault, RestTyped
<1>3. Unlocked(p) \in [Process -> Process \cup {None}]
  BY <1>1 DEF Unlocked, RestTyped
<1>4. CASE List(p)
  BY <1>1, <1>4 DEF List, Goto, RestTyped, Place, Pruning, File
<1>5. CASE LockFamily(p)
  <2>1. PICK f \in Process :
          Checked(p, f) /\ (PassedOver(p, f) \/ CheckFailed(p) \/ TakenDown(p, f))
    BY <1>1, <1>5, FamilyChecked
  <2>2. CASE PassedOver(p, f)
    BY <1>1, <2>1, <2>2 DEF Checked, PassedOver, RestTyped
  <2>3. CASE CheckFailed(p)
    BY <1>1, <1>2, <2>1, <2>3 DEF Checked, CheckFailed, Goto, RestTyped, Place
  <2>4. CASE TakenDown(p, f)
    <3>1. EntriesOf(listed[p], f) \subseteq File
      BY <1>1 DEF RestTyped, EntriesOf
    <3>2. ordered' \in [Process -> SUBSET File] /\ listed' \in [Process -> SUBSET File]
      BY <1>1, <2>1, <2>4, <3>1 DEF Checked, TakenDown, RestTyped
    <3>3. lock' \in [Process -> Process \cup {None}] /\ pc' \in [Process -> Place]
      BY <1>1, <2>4 DEF TakenDown, Goto, RestTyped, Place
    <3>4. pruned' \subseteq Process
      BY <1>1, <2>4 DEF TakenDown, RestTyped
    <3> QED
      BY <1>1, <2>1, <2>4, <3>2, <3>3, <3>4 DEF Checked, TakenDown, RestTyped
  <2> QED
    BY <2>1, <2>2, <2>3, <2>4
<1>6. CASE Choose(p)
  BY <1>1, <1>6 DEF Choose, Goto, RestTyped, Place, Pruning, FamiliesOf, File
<1>7. CASE Unlink(p)
  <2>1. \A file \in doomed[p] : file[1] \in Process
    BY <1>1 DEF RestTyped, File
  <2>2. nameless' \subseteq Process /\ pruned' \subseteq Process /\ alone' \subseteq Process
    BY <1>1, <1>7, <2>1 DEF Unlink, RestTyped
  <2>3. pc' \in [Process -> Place] /\ lock' \in [Process -> Process \cup {None}]
    BY <1>1, <1>3, <1>7 DEF Unlink, Goto, RestTyped, Place
  <2>4. doomed' \in [Process -> SUBSET File] /\ faults' \in 0 .. FaultLimit
    BY <1>1, <1>2, <1>7 DEF Unlink, RestTyped
  <2> QED
    BY <1>1, <1>7, <2>2, <2>3, <2>4 DEF Unlink, RestTyped
<1>8. CASE FinishPruning(p) \/ Open(p)
  BY <1>1, <1>3, <1>8 DEF FinishPruning, Open, Goto, RestTyped, Place, Opening
<1>9. CASE LockOwn(p)
  BY <1>1, <1>9 DEF LockOwn, Goto, RestTyped, Place, Logging
<1>10. CASE Record(p)
  BY <1>1, <1>10 DEF Record, Goto, RestTyped, Place, Logging, Rotating
<1>11. CASE WriteAll(p)
  <2>1. written[p] \in 0 .. RecordLimit /\ written[p] < RecordLimit
    BY <1>1, <1>11 DEF WriteAll, Core, Fits, RestTyped
  <2>2. written[p] + 1 \in 0 .. RecordLimit
    BY <2>1, Limits
  <2> QED
    BY <1>1, <1>2, <1>3, <1>11, <2>2 DEF WriteAll, Goto, RestTyped, Place, Logging
<1>12. CASE DropOldest(p)
  <2>1. MaxArchives - 1 \in 0 .. MaxArchives
    BY Limits
  <2> QED
    BY <1>1, <1>12, <2>1 DEF DropOldest, Goto, RestTyped, Place, Logging, Rotating
<1>13. CASE Rename(p)
  <2>1. archive[p] >= 1 => archive[p] - 1 \in 0 .. MaxArchives
    BY <1>1, Limits DEF RestTyped
  <2> QED
    BY <1>1, <1>2, <1>13, <2>1 DEF Rename, Goto, RestTyped, Place
<1>14. CASE CreateFirst(p) \/ Copy(p) \/ Truncate(p)
  BY <1>1, <1>2, <1>14
     DEF CreateFirst, Copy, Truncate, Goto, RestTyped, Place, Logging, Rotating
<1>15. CASE End(p)
  <2>1. 0 \in 0 .. MaxArchives
    BY Limits
  <2> QED
    BY <1>1, <1>3, <1>15, <2>1 DEF End, Goto, RestTyped, Place
<1> QED
  BY <1>4, <1>5, <1>6, <1>7, <1>8, <1>9, <1>10, <1>11, <1>12, <1>13, <1>14, <1>15 DEF Step

LEMMA AdriftStep ==
  ASSUME Core, NEW p \in Process, Step(p)
  PROVE  Adrift'
<1>1. Typed /\ Doomed /\ Stays(p) /\ Goes(p) /\ pruned \subseteq pruned'
  BY TypesAre, OthersStay, ItGoes, ChosenStays DEF Core
<1>2. SUFFICES ASSUME NEW f \in nameless'
               PROVE  pc'[f] \in {"opened", "silent"} \cup Logging /\ f \in pruned'
  BY DEF Adrift
<1>3. f \in Process
  BY <1>1, RestStep DEF RestTyped
<1>4. f \in nameless \/ (pc[f] = "opened" /\ f # p /\ f \in pruned)
  BY <1>1, <1>3, NamesGo
<1>5. pc[f] \in {"opened", "silent"} \cup Logging /\ f \in pruned
  BY <1>4 DEF Core, Adrift
<1>6. CASE f # p
  BY <1>1, <1>3, <1>5, <1>6 DEF Stays
<1>7. CASE f = p
  <2>1. ~End(p)
    BY <1>1, <1>3, <1>7, NamesGo
  <2> QED
    BY <1>1, <1>5, <1>7, <2>1 DEF Goes, Logging, Rotating
<1> QED
  BY <1>6, <1>7

LEMMA NextSteps == Next => \E p \in Process : Step(p)
BY DEF Next, Step, Rotate

LEMMA CoreStep ==
  ASSUME Core, [Next]_vars
  PROVE  Core'
<1>1. CASE UNCHANGED vars
  <2>1. TypeOK' /\ Locked' /\ Fresh'
    BY <1>1 DEF vars, Core, TypeOK, Locked, Fresh, NoFile, Exists
  <2>2. Based' /\ Held' /\ Doomed' /\ Adrift' /\ Fits'
    BY <1>1 DEF vars, Core, Based, Held, Doomed, Adrift, Fits, Exists
  <2> QED
    BY <2>1, <2>2 DEF Core
<1>2. ASSUME NEW p \in Process, Step(p)
      PROVE  Core'
  <2>1. TypeOK'
    BY <1>2, FilesStep, RestStep
       DEF TypeOK, FilesTyped, RestTyped, Contents, Place
  <2> QED
    BY <1>2, <2>1, LockedStep, FreshStep, BasedStep, HeldStep, DoomedStep, AdriftStep,
       FitsStep DEF Core
<1> QED
  BY <1>1, <1>2, NextSteps

\* Files, locks and lists go together, whoever prunes, rotates, fails or is killed.
THEOREM CoreInvariant == Spec => []Core
<1>1. Core /\ [Next]_vars => Core'
  BY CoreStep
<1> QED
  BY <1>1, CoreInit, PTL DEF Spec

\* Every file is a sequence of records and no larger than a file may be, and every
\* other variable of its type too.
THEOREM TypeCorrect == Spec => []TypeOK
<1>1. Core => TypeOK
  BY DEF Core
<1> QED
  BY <1>1, CoreInvariant, PTL

\* What a process has still to remove is never of a family whose process logs, however
\* long ago it listed the family, unless that process lost the name of its base file
\* between the open and the flock.
THEOREM ActiveNeverPruned == Spec => []ActiveNotPruned
<1>1. ASSUME Core
      PROVE  ActiveNotPruned
  <2>1. SUFFICES ASSUME NEW p \in Process, NEW f \in Process, pc[p] = "removing",
                        pc[f] \in Logging, f \notin nameless, f \in FamiliesOf(doomed[p])
                 PROVE  FALSE
    BY DEF ActiveNotPruned
  <2>2. PICK e \in doomed[p] : e[1] = f
    BY <2>1 DEF FamiliesOf
  <2>3. e[2] \in Number /\ e = <<f, e[2]>>
    BY <1>1, <2>2, TypesAre DEF Core, Typed, File
  <2>4. lock[f] = p \/ pc[f] \in Over
    BY <1>1, <2>1, <2>2, <2>3 DEF Core, Held, Pruning
  <2>5. lock[f] = f /\ pc[f] \notin Over /\ pc[p] \notin Logging
    BY <1>1, <2>1 DEF Core, Locked, Over, Logging, Rotating
  <2> QED
    BY <2>1, <2>4, <2>5
<1> QED
  BY <1>1, CoreInvariant, PTL

-----------------------------------------------------------------------------
(* Families that are left.                                                  *)

Others(p) == Process \ {p}

\* Files of others that nobody is going to remove are of few families.
Few(p) ==
  \E kept \in SUBSET Process :
    /\ Cardinality(kept) <= MaxFamilies
    /\ \A f \in Others(p), n \in Number :
         Exists(<<f, n>>) => f \in kept \/ (pc[p] = "removing" /\ <<f, n>> \in doomed[p])

\* While a process is alone, it has listed or taken down every file of the others
\* before it chooses, and then none is left that it does not keep or remove.
Alone ==
  \A p \in alone :
    /\ \A q \in Others(p) : pc[q] \in {"unborn", "ended"}
    /\ pc[p] = "locking" =>
         /\ \A f \in Others(p), n \in Number :
              /\ Exists(<<f, n>>) <=> <<f, n>> \in listed[p] \cup ordered[p]
              /\ <<f, n>> \in ordered[p] => n <= MaxArchives /\ <<f, n>> \notin listed[p]
         /\ \A f \in Process, n \in Number : <<f, n>> \in listed[p] => lock[f] = None
    /\ pc[p] \in {"removing"} \cup Opening \cup Logging =>
         Few(p) /\ \A f \in Others(p) : ~Exists(<<f, MaxArchives + 1>>)

\* Others do nothing while a process is alone.
LEMMA OnlyOne ==
  ASSUME Core, Alone, NEW p \in Process, Step(p), NEW q \in alone', q # p
  PROVE  FALSE
<1>1. Typed /\ Stays(p) /\ Goes(p)
  BY TypesAre, OthersStay, ItGoes DEF Core
<1>2. CASE q \in alone
  <2>1. pc[p] \in {"unborn", "ended"}
    BY <1>1, <1>2 DEF Alone, Others, Typed
  <2>2. List(p)
    BY <1>1, <2>1 DEF Goes
  <2> QED
    BY <2>2 DEF List
<1>3. CASE q \notin alone
  BY <1>1, <1>3 DEF Step, List, LockFamily, Choose, Unlink, FinishPruning, Open, LockOwn, Record,
     WriteAll, DropOldest, Rename, CreateFirst, Copy, Truncate, End
<1> QED
  BY <1>2, <1>3

LEMMA FewStays ==
  ASSUME NEW p \in Process, Few(p), pc[p] # "removing",
         \A f \in Others(p), n \in Number : Exists(<<f, n>>)' => Exists(<<f, n>>)
  PROVE  Few(p)'
<1>1. PICK kept \in SUBSET Process :
        /\ Cardinality(kept) <= MaxFamilies
        /\ \A f \in Others(p), n \in Number : Exists(<<f, n>>) => f \in kept
  BY DEF Few
<1>2. \A f \in Others(p), n \in Number : Exists(<<f, n>>)' => f \in kept
  BY <1>1
<1> QED
  BY <1>1, <1>2 DEF Few, Others

LEMMA AloneListing ==
  ASSUME Core, Alone, NEW p \in Process, List(p), p \in alone'
  PROVE  /\ pc'[p] = "locking"
         /\ \A q \in Others(p) : pc'[q] \in {"unborn", "ended"}
         /\ \A f \in Others(p), n \in Number :
              /\ Exists(<<f, n>>)' <=> <<f, n>> \in listed'[p] \cup ordered'[p]
              /\ <<f, n>> \in ordered'[p] => n <= MaxArchives /\ <<f, n>> \notin listed'[p]
         /\ \A f \in Process, n \in Number : <<f, n>> \in listed'[p] => lock'[f] = None
<1>1. Typed
  BY TypesAre DEF Core
<1>2. /\ pc[p] = "unborn" /\ files' = files /\ lock' = lock /\ ordered' = ordered
      /\ listed'[p] = {file \in File : Named(file)}
      /\ pc' = [pc EXCEPT ![p] = "locking"]
      /\ \A q \in Process \ {p} : pc[q] \in {"unborn", "ended"}
  BY <1>1 DEF List, Goto, Typed
<1>3. ordered[p] = {}
  BY <1>2 DEF Core, Held
<1>4. \A f \in Process : lock[f] = None
  <2>1. \A f, q \in Process : lock[f] # q
    BY <1>2 DEF Core, Locked
  <2> QED
    BY <1>1, <2>1 DEF Typed
<1>5. \A f \in Process, n \in Number : <<f, n>> \in listed'[p] <=> Exists(<<f, n>>)
  <2>1. nameless = {}
    BY <1>1, <1>2 DEF Core, Adrift, Typed, Logging, Rotating
  <2> QED
    BY <1>2, <2>1 DEF File, Named
<1>6. \A file : Exists(file)' <=> Exists(file)
  BY <1>2 DEF Exists
<1> QED
  BY <1>1, <1>2, <1>3, <1>4, <1>5, <1>6 DEF Typed, Others

LEMMA AloneChecking ==
  ASSUME Core, Alone, NEW p \in alone, LockFamily(p), pc'[p] = "locking"
  PROVE  /\ \A f \in Others(p), n \in Number :
              /\ Exists(<<f, n>>)' <=> <<f, n>> \in listed'[p] \cup ordered'[p]
              /\ <<f, n>> \in ordered'[p] => n <= MaxArchives /\ <<f, n>> \notin listed'[p]
         /\ \A f \in Process, n \in Number : <<f, n>> \in listed'[p] => lock'[f] = None
<1>1. Typed /\ p \in Process /\ pc[p] = "locking" /\ 0 \in Number
  BY TypesAre, CheckGoes, Limits DEF Core, Typed, Number
<1>2. PICK g \in Process :
        Checked(p, g) /\ (PassedOver(p, g) \/ CheckFailed(p) \/ TakenDown(p, g))
  BY <1>1, FamilyChecked
<1>3. PICK m \in Number : <<g, m>> \in listed[p]
  <2>1. PICK e \in listed[p] : e[1] = g
    BY <1>2 DEF Checked, EntriesOf
  <2>2. e \in Process \X Number
    BY <1>1, <2>1 DEF Typed, File
  <2> QED
    BY <2>1, <2>2
<1>4. g # p
  BY <1>1, <1>3 DEF Core, Fresh, NoFile, Before, Pruning
<1>5. /\ \A f \in Others(p), n \in Number :
           /\ Exists(<<f, n>>) <=> <<f, n>> \in listed[p] \cup ordered[p]
           /\ <<f, n>> \in ordered[p] => n <= MaxArchives /\ <<f, n>> \notin listed[p]
      /\ \A f \in Process, n \in Number : <<f, n>> \in listed[p] => lock[f] = None
  BY <1>1 DEF Alone
<1>6. TakenDown(p, g) /\ pc' = pc
  <2>1. ~PassedOver(p, g)
    <3>1. <<g, 0>> \in listed[p] => Lockable(p, g)
      <4>1. g \notin nameless
        BY <1>1, <1>4 DEF Core, Alone, Adrift, Others, Logging, Rotating
      <4> QED
        BY <1>1, <1>4, <1>5, <4>1 DEF Lockable, Named, Others
    <3> QED
      BY <3>1 DEF PassedOver
  <2>2. ~CheckFailed(p)
    BY <1>1 DEF CheckFailed, Goto, Typed
  <2>3. TakenDown(p, g)
    BY <1>2, <2>1, <2>2
  <2> QED
    BY <1>1, <2>3 DEF TakenDown, Goto, Typed
<1>7. /\ \A f \in Process, n \in Number :
           /\ <<f, n>> \in listed'[p] <=> <<f, n>> \in listed[p] /\ f # g
           /\ <<f, n>> \in ordered'[p] <=>
                \/ <<f, n>> \in ordered[p]
                \/ f = g /\ <<f, n>> \in listed[p] /\ <<f, n>> \notin Invalid(p, g)
  <2>1. listed'[p] = listed[p] \ EntriesOf(listed[p], g)
    BY <1>1, <1>2 DEF Checked, Typed
  <2>2. ordered'[p] = ordered[p] \cup (EntriesOf(listed[p], g) \ Invalid(p, g))
    BY <1>1, <1>6 DEF TakenDown, Typed
  <2> QED
    BY <2>1, <2>2 DEF EntriesOf
<1>8. \A f \in Process, n \in Number :
        Exists(<<f, n>>)' <=> Exists(<<f, n>>) /\ ~(f = g /\ <<g, n>> \in Invalid(p, g))
  <2>1. files' = [files EXCEPT ![g] = [n \in Number |->
                    IF <<g, n>> \in Invalid(p, g) THEN Absent ELSE @[n]]]
    BY <1>6 DEF TakenDown
  <2> QED
    BY <1>1, <2>1 DEF Exists, Typed
<1>9. \A n \in Number : <<g, n>> \in Invalid(p, g) <=> <<g, n>> \in listed[p] /\ ~Valid(<<g, n>>)
  BY DEF Invalid, EntriesOf
<1>10. \A n \in Number : Valid(<<g, n>>) => n <= MaxArchives
  BY DEF Valid
<1>11. ASSUME NEW f \in Others(p), NEW n \in Number
       PROVE  /\ Exists(<<f, n>>)' <=> <<f, n>> \in listed'[p] \cup ordered'[p]
              /\ <<f, n>> \in ordered'[p] => n <= MaxArchives /\ <<f, n>> \notin listed'[p]
  BY <1>5, <1>7, <1>8, <1>9, <1>10 DEF Others
<1>12. \A f \in Process : f # g => lock'[f] = lock[f]
  BY <1>1, <1>6 DEF TakenDown, Typed
<1> QED
  BY <1>5, <1>7, <1>11, <1>12

LEMMA AloneChoosing ==
  ASSUME Core, Alone, NEW p \in alone, Choose(p)
  PROVE  Few(p)' /\ \A f \in Others(p) : ~Exists(<<f, MaxArchives + 1>>)'
<1>1. Typed /\ p \in Process /\ pc[p] = "locking" /\ listed[p] = {} /\ files' = files
  BY TypesAre DEF Core, Typed, Choose
<1>2. PICK kept \in Kept(FamiliesOf(ordered[p])) :
        doomed' = [doomed EXCEPT ![p] = {e \in ordered[p] : e[1] \notin kept}]
  BY DEF Choose
<1>3. kept \in SUBSET Process /\ Cardinality(kept) <= MaxFamilies
  <2>1. FamiliesOf(ordered[p]) \subseteq Process
    BY <1>1 DEF FamiliesOf, Typed, File
  <2>2. kept \subseteq Process
    BY <1>2, <2>1 DEF Kept
  <2>3. IsFiniteSet(Process)
    BY ConstantsAssumption DEF ConstantsAssumption
  <2>4. Cardinality(kept) \in Nat
    BY <2>2, <2>3, FS_Subset, FS_CardinalityType
  <2> QED
    BY <1>2, <2>2, <2>4, Limits DEF Kept
<1>4. \A f \in Others(p), n \in Number :
        Exists(<<f, n>>) => <<f, n>> \in ordered[p] /\ n <= MaxArchives
  BY <1>1 DEF Alone
<1>5. pc'[p] = "removing"
  BY <1>1 DEF Choose, Goto, Typed
<1>6. \A f \in Others(p), n \in Number : Exists(<<f, n>>)' => f \in kept \/ <<f, n>> \in doomed'[p]
  BY <1>1, <1>2, <1>4 DEF Exists, Typed
<1>7. \A f \in Others(p) : ~Exists(<<f, MaxArchives + 1>>)'
  <2>1. MaxArchives + 1 \in Number /\ ~(MaxArchives + 1 <= MaxArchives)
    BY Limits DEF Number
  <2> QED
    BY <1>1, <1>4, <2>1 DEF Exists
<1> QED
  BY <1>3, <1>5, <1>6, <1>7 DEF Few, Others

LEMMA AloneRemoving ==
  ASSUME Core, Alone, NEW p \in alone, Unlink(p) \/ FinishPruning(p), pc'[p] # "silent"
  PROVE  Few(p)'
<1>1. Typed /\ p \in Process /\ pc[p] = "removing"
  BY TypesAre DEF Core, Typed, Unlink, FinishPruning
<1>2. PICK kept \in SUBSET Process :
        /\ Cardinality(kept) <= MaxFamilies
        /\ \A f \in Others(p), n \in Number :
             Exists(<<f, n>>) => f \in kept \/ <<f, n>> \in doomed[p]
  BY <1>1 DEF Alone, Few
<1>3. CASE Unlink(p)
  <2>1. PICK file \in doomed[p] :
          /\ files' = [files EXCEPT ![file[1]][file[2]] = Absent]
          /\ doomed' = [doomed EXCEPT ![p] = @ \ {file}]
          /\ pc' = pc
    <3>1. PICK file \in doomed[p] :
            /\ IF file[2] = 0 /\ pc[file[1]] = "opened"
                 THEN nameless' = nameless \cup {file[1]} /\ UNCHANGED files
                 ELSE Put(file[1], file[2], Absent) /\ UNCHANGED nameless
            /\ doomed' = [doomed EXCEPT ![p] = @ \ {file}]
            /\ pc' = pc
      BY <1>1, <1>3 DEF Unlink, Goto, Typed
    <3>2. file[1] \in Process
      BY <1>1, <3>1 DEF Typed, File
    <3>3. pc[file[1]] # "opened"
      BY <1>1, <3>2 DEF Alone, Others
    <3> QED
      BY <3>1, <3>3 DEF Put
  <2>2. PICK g \in Process, m \in Number : file = <<g, m>>
    BY <1>1, <2>1 DEF Typed, File
  <2>3. files' = [files EXCEPT ![g][m] = Absent]
    BY <2>1, <2>2
  <2>4. \A f \in Process, n \in Number :
          Exists(<<f, n>>)' => Exists(<<f, n>>) /\ <<f, n>> # <<g, m>>
    BY <1>1, <2>3 DEF Exists, Typed
  <2>5. \A f \in Others(p), n \in Number : Exists(<<f, n>>)' => f \in kept \/ <<f, n>> \in doomed'[p]
    BY <1>1, <1>2, <2>1, <2>2, <2>4 DEF Typed, Others
  <2> QED
    BY <1>1, <1>2, <2>1, <2>5 DEF Few, Others
<1>4. CASE FinishPruning(p)
  <2>1. doomed[p] = {} /\ files' = files
    BY <1>4 DEF FinishPruning
  <2>2. \A f \in Others(p), n \in Number : Exists(<<f, n>>)' => f \in kept
    BY <1>2, <2>1 DEF Exists
  <2> QED
    BY <1>2, <2>2 DEF Few, Others
<1> QED
  BY <1>3, <1>4

LEMMA AloneStep ==
  ASSUME Core, Alone, NEW p \in Process, Step(p)
  PROVE  Alone'
<1>1. Typed /\ Stays(p) /\ Goes(p)
  BY TypesAre, OthersStay, ItGoes DEF Core
<1>2. SUFFICES ASSUME p \in alone'
               PROVE  /\ \A q \in Others(p) : pc'[q] \in {"unborn", "ended"}
                      /\ pc'[p] = "locking" =>
                           /\ \A f \in Others(p), n \in Number :
                                /\ Exists(<<f, n>>)' <=> <<f, n>> \in listed'[p] \cup ordered'[p]
                                /\ <<f, n>> \in ordered'[p]
                                     => n <= MaxArchives /\ <<f, n>> \notin listed'[p]
                           /\ \A f \in Process, n \in Number :
                                <<f, n>> \in listed'[p] => lock'[f] = None
                      /\ pc'[p] \in {"removing"} \cup Opening \cup Logging =>
                           Few(p)' /\ \A f \in Others(p) : ~Exists(<<f, MaxArchives + 1>>)'
  <2>1. \A q \in alone' : q = p
    BY OnlyOne, <1>1, RestStep DEF RestTyped
  <2> QED
    BY <2>1 DEF Alone, Others
<1>3. CASE List(p)
  BY <1>2, <1>3, AloneListing DEF Opening, Logging, Rotating
<1>4. CASE ~List(p)
  <2>1. p \in alone
    BY <1>2, <1>4 DEF Step, LockFamily, Choose, Unlink, FinishPruning, Open, LockOwn, Record,
       WriteAll, DropOldest, Rename, CreateFirst, Copy, Truncate, End
  <2>2. \A q \in Others(p) : pc'[q] \in {"unborn", "ended"}
    BY <1>1, <2>1 DEF Alone, Stays, Others
  <2>3. ASSUME pc'[p] = "locking"
        PROVE  LockFamily(p)
    BY <1>1, <1>4, <2>3 DEF Goes
  <2>4. pc'[p] \in {"removing"} \cup Opening \cup Logging /\ ~Choose(p) =>
          \A f \in Others(p) : ~Exists(<<f, MaxArchives + 1>>)'
    <3>1. MaxArchives + 1 \in Number
      BY Limits DEF Number
    <3>2. pc'[p] \in {"removing"} \cup Opening \cup Logging /\ ~Choose(p) =>
            pc[p] \in {"removing"} \cup Opening \cup Logging
      BY <1>1, <1>4 DEF Goes, Opening, Logging, Rotating
    <3>3. \A f \in Others(p) : ~Exists(<<f, MaxArchives + 1>>) => ~Exists(<<f, MaxArchives + 1>>)'
      BY <1>1, <3>1, OthersNoFile DEF Others
    <3> QED
      BY <2>1, <3>2, <3>3 DEF Alone
  <2>5. pc'[p] \in Opening \cup Logging /\ ~FinishPruning(p) => Few(p)'
    <3>1. pc'[p] \in Opening \cup Logging /\ ~FinishPruning(p) =>
            pc[p] \in Opening \cup Logging /\ pc[p] # "removing"
      BY <1>1, <1>4 DEF Goes, Opening, Logging, Rotating
    <3>2. \A f \in Others(p), n \in Number : Exists(<<f, n>>)' => Exists(<<f, n>>)
      BY <1>1, OthersNoFile DEF Others
    <3> QED
      BY <2>1, <3>1, <3>2, FewStays DEF Alone
  <2>6. pc'[p] = "removing" /\ ~Choose(p) => Unlink(p)
    BY <1>1 DEF Goes
  <2>7. CASE pc'[p] = "locking"
    BY <2>1, <2>2, <2>3, <2>7, AloneChecking DEF Opening, Logging, Rotating
  <2>8. CASE Choose(p)
    <3>1. pc'[p] = "removing"
      BY <1>1, <2>8 DEF Choose, Goto, Typed
    <3> QED
      BY <2>1, <2>2, <2>8, <3>1, AloneChoosing
  <2>9. CASE pc'[p] # "locking" /\ ~Choose(p)
    <3>1. pc'[p] \in {"removing"} \cup Opening \cup Logging => Few(p)'
      <4>1. CASE pc'[p] = "removing"
        BY <2>1, <2>6, <2>9, <4>1, AloneRemoving
      <4>2. CASE pc'[p] \in Opening \cup Logging /\ FinishPruning(p)
        <5>1. pc'[p] # "silent"
          BY <4>2 DEF Opening, Logging, Rotating
        <5> QED
          BY <2>1, <4>2, <5>1, AloneRemoving
      <4>3. CASE pc'[p] \in Opening \cup Logging /\ ~FinishPruning(p)
        BY <2>5, <4>3
      <4> QED
        BY <4>1, <4>2, <4>3
    <3> QED
      BY <2>2, <2>4, <2>9, <3>1
  <2> QED
    BY <2>7, <2>8, <2>9
<1> QED
  BY <1>3, <1>4

LEMMA AloneBounds ==
  ASSUME Core, Alone
  PROVE  Bounded
<1> SUFFICES ASSUME NEW p \in alone, pc[p] \in Logging \cup Opening
             PROVE  /\ Cardinality({f \in Process \ {p} : OnDisk(f)}) <= MaxFamilies
                    /\ \A f \in Process : ~Exists(<<f, MaxArchives + 1>>)
  BY DEF Bounded
<1>1. p \in Process /\ pc[p] # "removing" /\ pc[p] # "ended"
  BY DEF Core, TypeOK, Logging, Rotating, Opening
<1>2. PICK kept \in SUBSET Process :
        /\ Cardinality(kept) <= MaxFamilies
        /\ \A f \in Others(p), n \in Number : Exists(<<f, n>>) => f \in kept
  BY <1>1 DEF Alone, Few
<1>3. {f \in Process \ {p} : OnDisk(f)} \subseteq kept
  BY <1>2 DEF OnDisk, Named, Others
<1>4. IsFiniteSet(kept)
  BY FS_Subset, ConstantsAssumption DEF ConstantsAssumption
<1>5. /\ Cardinality({f \in Process \ {p} : OnDisk(f)}) <= Cardinality(kept)
      /\ Cardinality({f \in Process \ {p} : OnDisk(f)}) \in Nat
      /\ Cardinality(kept) \in Nat
  BY <1>3, <1>4, FS_Subset, FS_CardinalityType
<1>6. ~Exists(<<p, MaxArchives + 1>>)
  BY <1>1 DEF Core, Fresh
<1>7. \A f \in Others(p) : ~Exists(<<f, MaxArchives + 1>>)
  BY DEF Alone
<1> QED
  BY <1>2, <1>5, <1>6, <1>7, Limits DEF Others

LEMMA AloneInvariant == Spec => []Alone
<1>1. Init => Alone
  BY DEF Init, Alone
<1>2. ASSUME Core, Alone, [Next]_vars
      PROVE  Alone'
  <2>1. CASE UNCHANGED vars
    BY <1>2, <2>1 DEF vars, Alone, Few, Exists
  <2>2. CASE Next
    BY <1>2, <2>2, AloneStep, NextSteps
  <2> QED
    BY <1>2, <2>1, <2>2
<1> QED
  BY <1>1, <1>2, CoreInvariant, PTL DEF Spec

\* While a process logs that no other ran beside, only so many families of others are
\* left, and none has archives beyond the limit, whatever pruning and rotation were
\* interrupted before.
THEOREM BoundedAlways == Spec => []Bounded
BY AloneBounds, AloneInvariant, CoreInvariant, PTL

-----------------------------------------------------------------------------
(* Records that follow one another.                                         *)

\* Records after the a-th, up to the z-th.
Run(a, z) == [i \in 1 .. z - a |-> a + i]

LEMMA RunIs ==
  ASSUME NEW a \in Nat, NEW z \in Nat, a <= z
  PROVE  /\ Run(a, z) \in Seq(Nat) /\ Len(Run(a, z)) = z - a
         /\ DOMAIN Run(a, z) = 1 .. z - a
         /\ \A i \in 1 .. z - a : Run(a, z)[i] = a + i
<1>1. PICK n \in Nat : n = z - a
  OBVIOUS
<1>2. PICK r : r = [i \in 1 .. n |-> a + i]
  OBVIOUS
<1>3. r \in [1 .. n -> Nat]
  BY <1>2
<1>4. r \in Seq(Nat)
  BY <1>3, SeqDef
<1>5. Len(r) = n
  BY <1>2
<1> QED
  BY <1>1, <1>2, <1>4, <1>5 DEF Run

LEMMA RunRecords ==
  ASSUME NEW a \in Nat, NEW z \in 0 .. RecordLimit, a <= z
  PROVE  Run(a, z) \in Seq(1 .. RecordLimit)
<1>1. PICK n \in Nat : n = z - a
  BY Limits
<1>2. Run(a, z) \in [1 .. n -> 1 .. RecordLimit]
  BY <1>1, Limits DEF Run
<1> QED
  BY <1>2, SeqDef

LEMMA RunEmpty ==
  ASSUME NEW a \in Nat, NEW z \in Nat, a <= z
  PROVE  Run(a, z) = << >> <=> a = z
<1>1. /\ Run(a, z) \in Seq(Nat) /\ Len(Run(a, z)) = z - a
  BY RunIs
<1>2. Run(a, z) = << >> <=> z - a = 0
  BY <1>1, EmptySeq
<1> QED
  BY <1>2

LEMMA RunAppend ==
  ASSUME NEW a \in Nat, NEW z \in Nat, a <= z
  PROVE  Append(Run(a, z), z + 1) = Run(a, z + 1)
<1>1. PICK r \in Seq(Nat), t \in Seq(Nat), n \in Nat :
        /\ r = Run(a, z) /\ t = Run(a, z + 1) /\ n = z - a
        /\ Len(r) = n /\ Len(t) = n + 1
        /\ (\A i \in 1 .. n : r[i] = a + i) /\ (\A i \in 1 .. n + 1 : t[i] = a + i)
  <2>1. z + 1 - a = (z - a) + 1 /\ z - a \in Nat /\ a <= z + 1 /\ z + 1 \in Nat
    OBVIOUS
  <2> QED
    BY <2>1, RunIs
<1>2. PICK u : u = Append(r, z + 1)
  OBVIOUS
<1>3. /\ u \in Seq(Nat) /\ Len(u) = Len(r) + 1
      /\ \A i \in 1 .. Len(r) : u[i] = r[i]
      /\ u[Len(r) + 1] = z + 1
  <2>1. z + 1 \in Nat
    OBVIOUS
  <2> QED
    BY <1>2, <2>1, AppendProperties
<1>4. \A i \in 1 .. Len(u) : u[i] = t[i]
  <2>1. Len(u) = n + 1 /\ u[n + 1] = a + (n + 1)
    BY <1>1, <1>3
  <2>2. \A i \in 1 .. n : u[i] = a + i
    BY <1>1, <1>3
  <2>3. \A i \in 1 .. n + 1 : i \in 1 .. n \/ i = n + 1
    BY <1>1
  <2> QED
    BY <1>1, <2>1, <2>2, <2>3
<1>5. u = t
  BY <1>1, <1>3, <1>4, SeqEqual
<1> QED
  BY <1>1, <1>2, <1>5

LEMMA RunConcat ==
  ASSUME NEW a \in Nat, NEW y \in Nat, NEW z \in Nat, a <= y, y <= z
  PROVE  Run(a, y) \o Run(y, z) = Run(a, z)
<1>1. PICK r \in Seq(Nat), s \in Seq(Nat), t \in Seq(Nat), n \in Nat, m \in Nat :
        /\ r = Run(a, y) /\ s = Run(y, z) /\ t = Run(a, z) /\ n = y - a /\ m = z - y
        /\ Len(r) = n /\ Len(s) = m /\ Len(t) = n + m
        /\ \A i \in 1 .. n : r[i] = a + i
        /\ \A i \in 1 .. m : s[i] = y + i
        /\ \A i \in 1 .. n + m : t[i] = a + i
  <2>1. z - a = (y - a) + (z - y) /\ y - a \in Nat /\ z - y \in Nat /\ a <= z
    OBVIOUS
  <2>2. PICK n \in Nat, m \in Nat : n = y - a /\ m = z - y /\ z - a = n + m
    BY <2>1
  <2>3. /\ Run(a, y) \in Seq(Nat) /\ Len(Run(a, y)) = n
        /\ \A i \in 1 .. n : Run(a, y)[i] = a + i
    BY <2>2, RunIs
  <2>4. /\ Run(y, z) \in Seq(Nat) /\ Len(Run(y, z)) = m
        /\ \A i \in 1 .. m : Run(y, z)[i] = y + i
    BY <2>2, RunIs
  <2>5. /\ Run(a, z) \in Seq(Nat) /\ Len(Run(a, z)) = n + m
        /\ \A i \in 1 .. n + m : Run(a, z)[i] = a + i
    <3>1. /\ Run(a, z) \in Seq(Nat) /\ Len(Run(a, z)) = z - a
          /\ \A i \in 1 .. z - a : Run(a, z)[i] = a + i
      BY <2>1, RunIs
    <3> QED
      BY ONLY <2>2, <3>1
  <2> QED
    BY <2>2, <2>3, <2>4, <2>5
<1>2. PICK u : u = r \o s
  OBVIOUS
<1>5. /\ u \in Seq(Nat) /\ Len(u) = n + m
       /\ \A i \in 1 .. n + m : u[i] = IF i <= n THEN r[i] ELSE s[i - n]
  <2>1. /\ u \in Seq(Nat) /\ Len(u) = Len(r) + Len(s)
        /\ \A i \in 1 .. Len(r) + Len(s) : u[i] = IF i <= Len(r) THEN r[i] ELSE s[i - Len(r)]
    BY <1>2, ConcatProperties
  <2> QED
    BY <1>1, <2>1
<1>3. ASSUME NEW i \in 1 .. n + m
      PROVE  u[i] = t[i]
  <2>1. CASE i <= n
    BY <1>1, <1>5, <2>1
  <2>2. CASE ~(i <= n)
    <3>1. i - n \in 1 .. m /\ y + (i - n) = a + i
      BY <1>1, <2>2
    <3> QED
      BY <1>1, <1>5, <2>2, <3>1
  <2> QED
    BY <2>1, <2>2
<1>4. u = t
  BY <1>1, <1>5, <1>3, SeqEqual
<1> QED
  BY <1>1, <1>2, <1>4

\* A set of naturals that is not empty has a least element.
LEMMA Least ==
  ASSUME NEW T \in SUBSET Nat, T # {}
  PROVE  \E i \in T : \A j \in T : i <= j
<1>1. IsWellFoundedOn(OpToRel(<, Nat), Nat)
  BY NatLessThanWellFounded
<1>2. PICK i \in T : \A j \in T : ~(<<j, i>> \in OpToRel(<, Nat))
  BY <1>1, WFMin
<1>3. \A j \in T : ~(j < i)
  BY <1>2 DEF OpToRel
<1> QED
  BY <1>3

\* Runs that follow one another are one run.
LEMMA RunsFlatten ==
  ASSUME NEW m \in Nat, m >= 1, NEW y \in [0 .. m -> Nat],
         \A i \in 1 .. m : y[i - 1] <= y[i],
         NEW s, s = [i \in 1 .. m |-> Run(y[i - 1], y[i])]
  PROVE  y[0] <= y[m] /\ FlattenSeq(s) = Run(y[0], y[m])
<1>1. Len(s) = m /\ DOMAIN s = 1 .. m
  OBVIOUS
<1>2. ASSUME NEW T \in SUBSET (1 .. m), T # {}
      PROVE  \E i \in T : i = 1 \/ i - 1 \in (1 .. m) \ T
  <2>1. PICK i \in T : \A j \in T : i <= j
    <3>1. T \in SUBSET Nat
      OBVIOUS
    <3> QED
      BY <1>2, <3>1, Least
  <2>2. i - 1 \notin T
    BY <2>1
  <2> QED
    BY <2>2
<1>3. \A i \in 1 .. m : y[0] <= y[i]
  <2> SUFFICES ASSUME {i \in 1 .. m : ~(y[0] <= y[i])} # {}
               PROVE  FALSE
    OBVIOUS
  <2>1. PICK i \in 1 .. m : ~(y[0] <= y[i]) /\ (i = 1 \/ (i - 1 \in 1 .. m /\ y[0] <= y[i - 1]))
    <3>1. {i \in 1 .. m : ~(y[0] <= y[i])} \in SUBSET (1 .. m)
      OBVIOUS
    <3> QED
      BY <1>2, <3>1
  <2>2. y[i - 1] <= y[i] /\ y[i - 1] \in Nat /\ y[i] \in Nat /\ y[0] \in Nat
    OBVIOUS
  <2>3. CASE i = 1
    BY <2>1, <2>2, <2>3
  <2>4. CASE i # 1
    BY <2>1, <2>2, <2>4
  <2> QED
    BY <2>3, <2>4
<1>4. DEFINE IsFlat(g) == g = [i \in 1 .. m |-> IF i = 1 THEN s[i] ELSE g[i - 1] \o s[i]]
<1>5. FlattenSeq(s) = (CHOOSE g : IsFlat(g))[m]
  BY <1>1 DEF FlattenSeq
<1>6. \A i \in 1 .. m : s[i] = Run(y[i - 1], y[i])
  OBVIOUS
<1>7. \E g : IsFlat(g)
  <2>1. PICK g : g = [i \in 1 .. m |-> Run(y[0], y[i])]
    OBVIOUS
  <2>2. ASSUME NEW i \in 1 .. m
        PROVE  g[i] = IF i = 1 THEN s[i] ELSE g[i - 1] \o s[i]
    <3>1. CASE i = 1
      BY <1>6, <2>1, <3>1
    <3>2. CASE i # 1
      <4>1. i - 1 \in 1 .. m /\ i - 1 \in 0 .. m /\ 0 \in 0 .. m
        BY <3>2
      <4>2. y[0] <= y[i - 1] /\ y[i - 1] <= y[i] /\ y[0] \in Nat /\ y[i - 1] \in Nat /\ y[i] \in Nat
        BY <1>3, <4>1
      <4>3. Run(y[0], y[i - 1]) \o Run(y[i - 1], y[i]) = Run(y[0], y[i])
        BY <4>2, RunConcat
      <4> QED
        BY <1>6, <2>1, <3>2, <4>1, <4>3
    <3> QED
      BY <3>1, <3>2
  <2>3. IsFlat(g)
    BY <2>1, <2>2
  <2> QED
    BY <2>3
<1>8. PICK g : IsFlat(g) /\ FlattenSeq(s) = g[m]
  BY <1>5, <1>7
<1>9. \A i \in 1 .. m : g[i] = Run(y[0], y[i])
  <2> SUFFICES ASSUME {i \in 1 .. m : g[i] # Run(y[0], y[i])} # {}
               PROVE  FALSE
    OBVIOUS
  <2>1. PICK i \in 1 .. m : /\ g[i] # Run(y[0], y[i])
                            /\ i = 1 \/ (i - 1 \in 1 .. m /\ g[i - 1] = Run(y[0], y[i - 1]))
    <3>1. {i \in 1 .. m : g[i] # Run(y[0], y[i])} \in SUBSET (1 .. m)
      OBVIOUS
    <3> QED
      BY <1>2, <3>1
  <2>2. g[i] = IF i = 1 THEN s[i] ELSE g[i - 1] \o s[i]
    BY <1>8
  <2>3. CASE i = 1
    BY <1>6, <2>1, <2>2, <2>3
  <2>4. CASE i # 1
    <3>1. i - 1 \in 1 .. m /\ i - 1 \in 0 .. m /\ 0 \in 0 .. m
      BY <2>4
    <3>2. y[0] <= y[i - 1] /\ y[i - 1] <= y[i] /\ y[0] \in Nat /\ y[i - 1] \in Nat /\ y[i] \in Nat
      BY <1>3, <3>1
    <3>3. Run(y[0], y[i - 1]) \o Run(y[i - 1], y[i]) = Run(y[0], y[i])
      BY <3>2, RunConcat
    <3> QED
      BY <1>6, <2>1, <2>2, <2>4, <3>3
  <2> QED
    BY <2>3, <2>4
<1>10. m \in 1 .. m
  OBVIOUS
<1> QED
  BY <1>3, <1>8, <1>9, <1>10

-----------------------------------------------------------------------------
(* The records of a family.                                                 *)

Text(contents) == IF contents = Absent THEN << >> ELSE contents

\* Marks in a family: file n begins after the b[n]-th record, where the next older one
\* ends.
Marks(b, w) ==
  /\ b \in [Number -> Nat]
  /\ \A n \in Number : b[n] <= w
  /\ \A n \in 1 .. MaxArchives + 1 : b[n] <= b[n - 1]
Straight(d, b, w) ==
  /\ Marks(b, w)
  /\ Text(d[0]) = Run(b[0], w)
  /\ \A n \in 1 .. MaxArchives + 1 : Text(d[n]) = Run(b[n], b[n - 1])

\* Archive 1 repeats the beginning of the base file.
Repeated(d, b, w) ==
  /\ Marks(b, w) /\ b[1] = b[0]
  /\ Text(d[0]) = Run(b[0], w)
  /\ IsPrefix(Text(d[1]), Text(d[0]))
  /\ \A n \in 2 .. MaxArchives + 1 : Text(d[n]) = Run(b[n], b[n - 1])

\* Records are missing, and at most one archive is.
Lost(b)  == b[MaxArchives + 1] > 0
Full1(d) == \A m, n \in 1 .. MaxArchives : m # n => d[m] # Absent \/ d[n] # Absent

\* There are archives 1 to k; and those, while they are renamed from the oldest on.
Archived(d, k) == \A n \in 1 .. MaxArchives : d[n] # Absent <=> n <= k
Shifted(d, k, a) ==
  \A n \in 1 .. MaxArchives :
    d[n] # Absent <=> (n <= k /\ n <= a) \/ (a + 2 <= n /\ n <= k + 1)

\* A family between rotations, while its archives are renamed, while the base file is
\* copied, and of a process that will not log again.
Resting(d, b, w, k) ==
  Straight(d, b, w) /\ Archived(d, k) /\ (Lost(b) => k = MaxArchives)
Moving(d, b, w, k, a) ==
  Straight(d, b, w) /\ Shifted(d, k, a) /\ (Lost(b) => k = MaxArchives - 1)
Doubled(d, b, w, k) ==
  Repeated(d, b, w) /\ Archived(d, k + 1) /\ (Lost(b) => k = MaxArchives - 1)
Sound(d, b, w) ==
  (Straight(d, b, w) \/ Repeated(d, b, w)) /\ (Lost(b) => Full1(d))

Whole(place, d, b, w, a) ==
  /\ Sound(d, b, w)
  /\ place \in Before \cup {"opened"} => w = 0 /\ Straight(d, b, w)
  /\ place \in {"logging", "appending", "dropping"} =>
       \E k \in 0 .. MaxArchives : Resting(d, b, w, k)
  /\ place = "renaming" => \E k \in 0 .. MaxArchives - 1 : Moving(d, b, w, k, a)
  /\ place \in {"copying", "truncating"} =>
       \E k \in 0 .. MaxArchives - 1 : Doubled(d, b, w, k)
  /\ place = "truncating" => d[1] = d[0]

Unbroken ==
  \A f \in Process \ pruned : \E b : Whole(pc[f], files[f], b, written[f], archive[f])

LEMMA NumbersAre ==
  /\ 0 \in Number /\ 1 \in Number /\ MaxArchives \in Number /\ MaxArchives + 1 \in Number
  /\ 1 \in 1 .. MaxArchives /\ MaxArchives \in 1 .. MaxArchives
  /\ 1 .. MaxArchives + 1 \subseteq Number /\ 1 .. MaxArchives \subseteq 1 .. MaxArchives + 1
  /\ \A n \in 1 .. MaxArchives + 1 : n - 1 \in Number
  /\ \A n \in Number : n \in Nat
BY Limits DEF Number

\* Where archives have their places, at most one is free.
LEMMA PlacesFilled ==
  ASSUME NEW d, NEW a \in 0 .. MaxArchives - 1
  PROVE  /\ Archived(d, MaxArchives) => Full1(d)
         /\ Shifted(d, MaxArchives - 1, a) => Full1(d)
<1>1. Archived(d, MaxArchives) => Full1(d)
  BY Limits DEF Archived, Full1
<1>2. Shifted(d, MaxArchives - 1, a) => Full1(d)
  <2> SUFFICES ASSUME Shifted(d, MaxArchives - 1, a), NEW n \in 1 .. MaxArchives, n # a + 1
               PROVE  d[n] # Absent
    BY DEF Full1
  <2>1. (n <= MaxArchives - 1 /\ n <= a) \/ (a + 2 <= n /\ n <= MaxArchives - 1 + 1)
    BY Limits
  <2> QED
    BY <2>1 DEF Shifted
<1> QED
  BY <1>1, <1>2

LEMMA MovingSound ==
  ASSUME NEW d, NEW b, NEW w, NEW k, NEW a \in 0 .. MaxArchives - 1
  PROVE  /\ Resting(d, b, w, k) => Sound(d, b, w)
         /\ Moving(d, b, w, k, a) => Sound(d, b, w)
         /\ Doubled(d, b, w, k) => Sound(d, b, w)
<1>1. MaxArchives - 1 + 1 = MaxArchives
  BY Limits
<1> QED
  BY <1>1, PlacesFilled DEF Resting, Moving, Doubled, Sound

\* A file that is missing holds no records.
LEMMA NothingThere ==
  ASSUME NEW d, NEW b, NEW w \in Nat, Straight(d, b, w), NEW n \in 1 .. MaxArchives + 1,
         d[n] = Absent
  PROVE  b[n] = b[n - 1]
<1>1. b[n] \in Nat /\ b[n - 1] \in Nat /\ b[n] <= b[n - 1]
  BY NumbersAre DEF Straight, Marks
<1>2. Run(b[n], b[n - 1]) = << >>
  BY DEF Straight, Text
<1> QED
  BY <1>1, <1>2, RunEmpty

LEMMA NothingBetween ==
  ASSUME NEW a \in Nat
  PROVE  Run(a, a) = << >>
BY RunEmpty

LEMMA UnbrokenInit == Init => Unbroken
<1> SUFFICES ASSUME Init, NEW f \in Process
             PROVE  \E b : Whole(pc[f], files[f], b, written[f], archive[f])
  BY DEF Unbroken
<1>1. PICK old \in Process, left \in {{}, {0}, {MaxArchives + 1}} :
        /\ files = [g \in Process |-> [n \in Number |->
                      IF g = old /\ n \in left THEN <<1>> ELSE Absent]]
        /\ pc = [p \in Process |-> IF p = old THEN "ended" ELSE "unborn"]
        /\ written = [g \in Process |-> IF g = old /\ left # {} THEN 1 ELSE 0]
  BY DEF Init
<1>2. PICK w \in {0, 1} : w = written[f] /\ (w = 1 <=> f = old /\ left # {})
  BY <1>1
<1>3. PICK c \in {0, 1} : c = IF left = {0} THEN 0 ELSE w
  OBVIOUS
<1>4. PICK b : b = [n \in Number |-> IF n = MaxArchives + 1 THEN 0 ELSE c]
  OBVIOUS
<1>5. Marks(b, w)
  <2>1. c <= w
    BY <1>3
  <2>2. b \in [Number -> Nat] /\ \A n \in Number : b[n] <= w
    BY <1>4, <2>1
  <2>3. \A n \in 1 .. MaxArchives + 1 : b[n] <= b[n - 1]
    BY <1>4, Limits DEF Number
  <2> QED
    BY <2>2, <2>3 DEF Marks
<1>6. ~Lost(b)
  BY <1>4, NumbersAre DEF Lost
<1>7. Run(0, 0) = << >> /\ Run(1, 1) = << >> /\ Run(0, 1) = <<1>>
  <2>1. Run(0, 0) = << >> /\ Run(1, 1) = << >>
    BY RunEmpty
  <2>2. PICK o \in Nat : o = 0
    OBVIOUS
  <2>3. Append(Run(o, o), o + 1) = Run(o, o + 1)
    BY RunAppend
  <2>4. Append(<< >>, 1) = <<1>>
    OBVIOUS
  <2>5. o + 1 = 1 /\ Run(o, o) = Run(0, 0) /\ Run(o, o + 1) = Run(0, 1)
    BY <2>2
  <2> QED
    BY ONLY <2>1, <2>3, <2>4, <2>5
<1>8. <<1>> # Absent
  <2>1. <<1>> \in Seq(Nat)
    OBVIOUS
  <2> QED
    BY <2>1, ConstantsAssumption DEF ConstantsAssumption
<1>9. \A n \in Number : files[f][n] = IF f = old /\ n \in left THEN <<1>> ELSE Absent
  BY <1>1
<1>10. /\ Text(files[f][0]) = Run(c, w)
       /\ \A n \in 1 .. MaxArchives :
            Text(files[f][n]) = << >>
       /\ Text(files[f][MaxArchives + 1]) = Run(0, c)
  <2>1. MaxArchives + 1 # 0 /\ \A n \in 1 .. MaxArchives : n # 0 /\ n # MaxArchives + 1
    BY Limits
  <2>2. CASE left = {0}
    <3>1. c = 0 /\ Run(0, w) = IF w = 1 THEN <<1>> ELSE << >>
      BY <1>2, <1>3, <1>7, <2>2
    <3> QED
      BY <1>2, <1>7, <1>8, <1>9, <2>1, <2>2, <3>1, NumbersAre DEF Text
  <2>3. CASE left # {0}
    <3>1. c = w /\ Run(0, w) = (IF w = 1 THEN <<1>> ELSE << >>) /\ Run(w, w) = << >>
      BY <1>2, <1>3, <1>7, <2>3
    <3> QED
      BY <1>1, <1>2, <1>7, <1>8, <1>9, <2>1, <2>3, <3>1, NumbersAre DEF Text
  <2> QED
    BY <2>2, <2>3
<1>11. Straight(files[f], b, w)
  <2>1. ASSUME NEW n \in 1 .. MaxArchives + 1
        PROVE  Text(files[f][n]) = Run(b[n], b[n - 1])
    <3>1. n \in Number /\ n - 1 \in Number /\ n - 1 # MaxArchives + 1
      BY Limits DEF Number
    <3>2. b[n - 1] = c /\ b[n] = (IF n = MaxArchives + 1 THEN 0 ELSE c)
      BY <1>4, <3>1
    <3>3. Run(c, c) = << >>
      BY <1>7
    <3>4. n = MaxArchives + 1 \/ n \in 1 .. MaxArchives
      BY Limits
    <3> QED
      BY <1>10, <3>2, <3>3, <3>4, Limits
  <2>2. Text(files[f][0]) = Run(b[0], w)
    BY <1>4, <1>10, NumbersAre, Limits
  <2> QED
    BY <1>5, <2>1, <2>2 DEF Straight
<1>12. pc[f] = "ended" \/ (pc[f] = "unborn" /\ w = 0)
  BY <1>1, <1>2
<1> QED
  BY <1>2, <1>6, <1>11, <1>12 DEF Whole, Sound, Before, Pruning

-----------------------------------------------------------------------------
(* What rotation and writing do to a family.                                *)

\* The records of a family are the same.
LEMMA SameText ==
  ASSUME NEW d, NEW e, NEW b, NEW w, Straight(d, b, w),
         \A n \in Number : Text(e[n]) = Text(d[n])
  PROVE  Straight(e, b, w)
BY NumbersAre DEF Straight

\* A record is added.
LEMMA WriteStraight ==
  ASSUME NEW d, NEW e, NEW b, NEW w \in Nat, Straight(d, b, w),
         Text(e[0]) = Append(Text(d[0]), w + 1),
         \A n \in 1 .. MaxArchives + 1 : e[n] = d[n]
  PROVE  Straight(e, b, w + 1)
<1>1. b[0] \in Nat /\ b[0] <= w
  BY NumbersAre DEF Straight, Marks
<1>2. Text(e[0]) = Run(b[0], w + 1)
  BY <1>1, RunAppend DEF Straight
<1>3. Marks(b, w + 1)
  <2>1. b \in [Number -> Nat] /\ \A n \in Number : b[n] <= w
    BY DEF Straight, Marks
  <2>2. \A n \in Number : b[n] <= w + 1
    BY <2>1
  <2> QED
    BY <2>1, <2>2 DEF Straight, Marks
<1> QED
  BY <1>2, <1>3 DEF Straight

\* The oldest archive is removed.
LEMMA DropMoves ==
  ASSUME NEW d, NEW e, NEW b, NEW w \in Nat, NEW k \in 0 .. MaxArchives, Resting(d, b, w, k),
         d[MaxArchives + 1] = Absent,
         \A n \in Number : e[n] = IF n = MaxArchives THEN Absent ELSE d[n]
  PROVE  \E c, j : j \in 0 .. MaxArchives - 1 /\ Moving(e, c, w, j, MaxArchives - 1)
<1>1. PICK a \in Nat : MaxArchives = a + 1
  <2>1. MaxArchives - 1 \in Nat /\ MaxArchives = MaxArchives - 1 + 1
    BY Limits
  <2> QED
    BY <2>1
<1>2. PICK c : c = [n \in Number |-> IF n >= a + 1 THEN b[a] ELSE b[n]]
  OBVIOUS
<1>3. Straight(d, b, w) /\ Marks(b, w) /\ 1 .. a + 2 = 1 .. MaxArchives + 1 /\ Number = 0 .. a + 2
  BY <1>1 DEF Resting, Straight, Number
<1>4. /\ \A n \in 0 .. a + 2 : b[n] \in Nat /\ b[n] <= w
      /\ \A n \in 1 .. a + 2 : b[n] <= b[n - 1]
  BY <1>3 DEF Marks
<1>5. \A n \in 0 .. a + 2 : c[n] = IF n >= a + 1 THEN b[a] ELSE b[n]
  BY <1>2, <1>3
<1>6. \A n \in 0 .. a + 2 : e[n] = IF n = a + 1 THEN Absent ELSE d[n]
  BY <1>1, <1>3
<1>7. Marks(c, w)
  <2>1. c \in [Number -> Nat]
    BY <1>2, <1>3, <1>4
  <2>2. \A n \in 0 .. a + 2 : c[n] <= w
    BY <1>4, <1>5
  <2>3. \A n \in 1 .. a + 2 : c[n] <= c[n - 1]
    <3> SUFFICES ASSUME NEW n \in 1 .. a + 2
                 PROVE  c[n] <= c[n - 1]
      OBVIOUS
    <3>1. CASE n >= a + 1
      BY <1>4, <1>5, <3>1
    <3>2. CASE ~(n >= a + 1)
      BY <1>4, <1>5, <3>2
    <3> QED
      BY <3>1, <3>2
  <2> QED
    BY <1>3, <2>1, <2>2, <2>3 DEF Marks
<1>8. Straight(e, c, w)
  <2>1. Text(e[0]) = Run(c[0], w)
    BY <1>3, <1>5, <1>6 DEF Straight
  <2>2. ASSUME NEW n \in 1 .. a + 2
        PROVE  Text(e[n]) = Run(c[n], c[n - 1])
    <3>1. CASE n <= a
      <4>1. c[n] = b[n] /\ c[n - 1] = b[n - 1] /\ e[n] = d[n]
        BY <1>5, <1>6, <3>1
      <4>2. Text(d[n]) = Run(b[n], b[n - 1])
        BY <1>3 DEF Straight
      <4> QED
        BY <4>1, <4>2
    <3>2. CASE n > a
      <4>1. c[n] = b[a] /\ c[n - 1] = b[a] /\ b[a] \in Nat
        BY <1>4, <1>5, <3>2
      <4>2. e[n] = Absent
        BY <1>1, <1>6, <3>2
      <4> QED
        BY <4>1, <4>2, NothingBetween DEF Text
    <3> QED
      BY <3>1, <3>2
  <2> QED
    BY <1>3, <1>7, <2>1, <2>2 DEF Straight
<1>9. PICK j \in 0 .. a : j = IF k = a + 1 THEN a ELSE k
  BY <1>1
<1>10. Shifted(e, j, a)
  <2> SUFFICES ASSUME NEW n \in 1 .. a + 1
               PROVE  e[n] # Absent <=> (n <= j /\ n <= a) \/ (a + 2 <= n /\ n <= j + 1)
    BY <1>1 DEF Shifted
  <2>1. d[n] # Absent <=> n <= k
    BY <1>1 DEF Resting, Archived
  <2> QED
    BY <1>1, <1>6, <1>9, <2>1
<1>11. Lost(c) => j = a
  <2> SUFFICES ASSUME k # a + 1
               PROVE  ~Lost(c)
    BY <1>9
  <2>1. ~Lost(b) /\ b[a + 2] = 0
    BY <1>1, <1>4 DEF Resting, Lost
  <2>2. d[a + 1] = Absent
    BY <1>1, NumbersAre DEF Resting, Archived
  <2>3. b[a + 2] = b[a + 2 - 1] /\ b[a + 1] = b[a + 1 - 1]
    <3>1. a + 1 \in 1 .. MaxArchives + 1 /\ a + 2 \in 1 .. MaxArchives + 1
      BY <1>1
    <3>2. d[a + 2] = Absent
      BY <1>1
    <3> QED
      BY <1>3, <2>2, <3>1, <3>2, NothingThere
  <2>4. b[a] = 0
    BY <2>1, <2>3
  <2> QED
    BY <1>1, <1>5, <2>4 DEF Lost
<1>12. MaxArchives - 1 = a
  BY <1>1
<1>13. j \in 0 .. MaxArchives - 1 /\ Moving(e, c, w, j, MaxArchives - 1)
  BY <1>8, <1>10, <1>11, <1>12 DEF Moving
<1> QED
  BY <1>13

\* An archive is renamed, or it is missing and passed over.
LEMMA RenameMoves ==
  ASSUME NEW d, NEW e, NEW b, NEW w \in Nat, NEW k \in 0 .. MaxArchives - 1,
         NEW a \in 1 .. MaxArchives - 1, Moving(d, b, w, k, a),
         \/ d[a] = Absent /\ e = d
         \/ /\ d[a] # Absent
            /\ \A n \in Number : e[n] = IF n = a THEN Absent ELSE IF n = a + 1 THEN d[a] ELSE d[n]
  PROVE  \E c : Moving(e, c, w, k, a - 1)
<1>1. /\ a \in Nat /\ a + 1 \in 1 .. MaxArchives /\ a \in 1 .. MaxArchives
      /\ a + 1 \in 1 .. MaxArchives + 1 /\ a \in 1 .. MaxArchives + 1 /\ a - 1 \in Number
      /\ a \in Number /\ a + 1 \in Number
  BY Limits DEF Number
<1>2. d[a + 1] = Absent
  BY <1>1 DEF Moving, Shifted
<1>3. d[a] # Absent <=> a <= k
  BY <1>1 DEF Moving, Shifted
<1>4. Straight(d, b, w) /\ Marks(b, w)
  BY DEF Moving, Straight
<1>5. CASE d[a] = Absent
  <2>1. Shifted(d, k, a - 1)
    <3> SUFFICES ASSUME NEW n \in 1 .. MaxArchives
                 PROVE  d[n] # Absent <=> (n <= k /\ n <= a - 1) \/ (a - 1 + 2 <= n /\ n <= k + 1)
      BY DEF Shifted
    <3>1. d[n] # Absent <=> (n <= k /\ n <= a) \/ (a + 2 <= n /\ n <= k + 1)
      BY DEF Moving, Shifted
    <3> QED
      BY <1>1, <1>3, <1>5, <3>1, Limits
  <2> QED
    BY <1>5, <2>1 DEF Moving
<1>6. CASE d[a] # Absent
  <2>1. \A n \in Number : e[n] = IF n = a THEN Absent ELSE IF n = a + 1 THEN d[a] ELSE d[n]
    BY <1>6
  <2>2. PICK c : c = [n \in Number |-> IF n = a THEN b[a - 1] ELSE b[n]]
    OBVIOUS
  <2>3. b[a + 1] = b[a]
    <3>1. b[a + 1] = b[a + 1 - 1]
      BY <1>1, <1>2, <1>4, NothingThere
    <3> QED
      BY <3>1
  <2>4. /\ \A n \in Number : b[n] \in Nat /\ b[n] <= w
        /\ \A n \in 1 .. MaxArchives + 1 : b[n] <= b[n - 1]
    BY <1>4 DEF Marks
  <2>5. Marks(c, w)
    <3>1. c \in [Number -> Nat] /\ \A n \in Number : c[n] <= w
      BY <1>1, <2>2, <2>4
    <3>2. ASSUME NEW n \in 1 .. MaxArchives + 1
          PROVE  c[n] <= c[n - 1]
      <4>1. n \in Number /\ n - 1 \in Number /\ n - 1 # n
        BY NumbersAre
      <4>2. CASE n = a
        BY <1>1, <2>2, <2>4, <4>1, <4>2
      <4>3. CASE n - 1 = a
        <5>1. n = a + 1 /\ n # a
          BY <1>1, <4>3
        <5>2. c[n] = b[a + 1] /\ c[n - 1] = b[a - 1]
          BY <1>1, <2>2, <4>3, <5>1
        <5> QED
          BY <1>1, <2>3, <2>4, <5>2
      <4>4. CASE n # a /\ n - 1 # a
        BY <2>2, <2>4, <4>1, <4>4
      <4> QED
        BY <4>2, <4>3, <4>4
    <3> QED
      BY <3>1, <3>2 DEF Marks
  <2>6. Straight(e, c, w)
    <3>1. Text(e[0]) = Run(c[0], w)
      <4>1. 0 # a /\ 0 # a + 1 /\ 0 \in Number
        BY <1>1, NumbersAre
      <4> QED
        BY <1>4, <2>1, <2>2, <4>1 DEF Straight
    <3>2. ASSUME NEW n \in 1 .. MaxArchives + 1
          PROVE  Text(e[n]) = Run(c[n], c[n - 1])
      <4>1. n \in Number /\ n - 1 \in Number /\ n - 1 # n
        BY NumbersAre
      <4>2. CASE n = a
        <5>1. c[n] = b[a - 1] /\ c[n - 1] = b[a - 1] /\ b[a - 1] \in Nat /\ e[n] = Absent
          BY <1>1, <2>1, <2>2, <2>4, <4>1, <4>2
        <5> QED
          BY <5>1, NothingBetween DEF Text
      <4>3. CASE n - 1 = a
        <5>1. n = a + 1 /\ n # a
          BY <1>1, <4>3
        <5>2. c[n] = b[a] /\ c[n - 1] = b[a - 1] /\ e[n] = d[a]
          BY <1>1, <2>1, <2>2, <2>3, <4>1, <4>3, <5>1
        <5>3. Text(d[a]) = Run(b[a], b[a - 1])
          BY <1>1, <1>4 DEF Straight
        <5> QED
          BY <5>2, <5>3
      <4>4. CASE n # a /\ n - 1 # a
        <5>1. c[n] = b[n] /\ c[n - 1] = b[n - 1] /\ e[n] = d[n]
          BY <1>1, <2>1, <2>2, <4>1, <4>4
        <5> QED
          BY <1>4, <5>1 DEF Straight
      <4> QED
        BY <4>2, <4>3, <4>4
    <3> QED
      BY <2>5, <3>1, <3>2 DEF Straight
  <2>7. Shifted(e, k, a - 1)
    <3> SUFFICES ASSUME NEW n \in 1 .. MaxArchives
                 PROVE  e[n] # Absent <=> (n <= k /\ n <= a - 1) \/ (a - 1 + 2 <= n /\ n <= k + 1)
      BY DEF Shifted
    <3>1. d[n] # Absent <=> (n <= k /\ n <= a) \/ (a + 2 <= n /\ n <= k + 1)
      BY DEF Moving, Shifted
    <3>2. e[n] = IF n = a THEN Absent ELSE IF n = a + 1 THEN d[a] ELSE d[n]
      BY <2>1, NumbersAre
    <3>3. CASE n = a
      BY <3>2, <3>3, Limits
    <3>4. CASE n = a + 1
      BY <1>1, <1>3, <1>6, <3>2, <3>4, Limits
    <3>5. CASE n # a /\ n # a + 1
      BY <1>1, <3>1, <3>2, <3>5, Limits
    <3> QED
      BY <3>3, <3>4, <3>5
  <2>8. Lost(c) <=> Lost(b)
    <3>1. a # MaxArchives + 1 /\ MaxArchives + 1 \in Number
      BY Limits, NumbersAre
    <3> QED
      BY <2>2, <3>1 DEF Lost
  <2> QED
    BY <2>6, <2>7, <2>8 DEF Moving
<1> QED
  BY <1>5, <1>6

\* Archive 1 is created.
LEMMA CreateDoubles ==
  ASSUME NEW d, NEW e, NEW b, NEW w \in Nat, NEW k \in 0 .. MaxArchives - 1,
         Moving(d, b, w, k, 0), e[1] = << >>, \A n \in Number \ {1} : e[n] = d[n]
  PROVE  Doubled(e, b, w, k)
<1>1. Straight(d, b, w) /\ Marks(b, w) /\ 0 # 1 /\ 0 \in Number /\ 1 - 1 = 0
  BY NumbersAre DEF Moving, Straight
<1>2. 1 \in 1 .. MaxArchives + 1 /\ 1 \in 1 .. MaxArchives
  BY NumbersAre
<1>3. d[1] = Absent
  BY <1>2 DEF Moving, Shifted
<1>4. b[1] = b[0]
  <2>1. b[1] = b[1 - 1]
    BY <1>1, <1>2, <1>3, NothingThere
  <2> QED
    BY <2>1
<1>5. << >> # Absent /\ Text(e[1]) = << >>
  BY NoRecords DEF Text
<1>6. e[0] = d[0] /\ \A n \in 2 .. MaxArchives + 1 : e[n] = d[n] /\ n \in 1 .. MaxArchives + 1
  BY <1>1, Limits DEF Number
<1>7. IsPrefix(Text(e[1]), Text(e[0]))
  <2>1. Text(e[0]) = Run(b[0], w) /\ b[0] \in Nat /\ b[0] <= w
    BY <1>1, <1>6, NumbersAre DEF Straight, Marks
  <2>2. Run(b[0], w) \in Seq(Nat)
    BY <2>1, RunIs
  <2> QED
    BY <1>5, <2>1, <2>2 DEF IsPrefix
<1>8. Repeated(e, b, w)
  BY <1>1, <1>4, <1>6, <1>7 DEF Straight, Repeated
<1>9. Archived(e, k + 1)
  <2> SUFFICES ASSUME NEW n \in 1 .. MaxArchives
               PROVE  e[n] # Absent <=> n <= k + 1
    BY DEF Archived
  <2>1. d[n] # Absent <=> (n <= k /\ n <= 0) \/ (0 + 2 <= n /\ n <= k + 1)
    BY DEF Moving, Shifted
  <2>2. CASE n = 1
    BY <1>5, <2>2
  <2>3. CASE n # 1
    <3>1. e[n] = d[n] /\ n \in Nat /\ n >= 2
      BY <2>3, NumbersAre
    <3> QED
      BY <2>1, <3>1, Limits
  <2> QED
    BY <2>2, <2>3
<1> QED
  BY <1>8, <1>9 DEF Doubled, Moving

\* More of the base file is copied, or the copy is removed.
LEMMA CopyRepeats ==
  ASSUME NEW d, NEW e, NEW b, NEW w, Repeated(d, b, w),
         IsPrefix(Text(e[1]), Text(d[0])), \A n \in Number \ {1} : e[n] = d[n]
  PROVE  Repeated(e, b, w)
<1>1. e[0] = d[0] /\ \A n \in 2 .. MaxArchives + 1 : e[n] = d[n]
  BY Limits DEF Number
<1> QED
  BY <1>1 DEF Repeated

\* The base file is truncated.
LEMMA TruncateRests ==
  ASSUME NEW d, NEW e, NEW b, NEW w \in Nat, NEW k \in 0 .. MaxArchives - 1,
         Doubled(d, b, w, k), d[1] = d[0], e[0] = << >>,
         \A n \in 1 .. MaxArchives + 1 : e[n] = d[n]
  PROVE  \E c : Resting(e, c, w, k + 1)
<1>1. PICK c : c = [n \in Number |-> IF n = 0 THEN w ELSE b[n]]
  OBVIOUS
<1>2. Repeated(d, b, w) /\ Marks(b, w)
  BY DEF Doubled, Repeated
<1>3. /\ \A n \in Number : b[n] \in Nat /\ b[n] <= w
      /\ \A n \in 1 .. MaxArchives + 1 : b[n] <= b[n - 1]
  BY <1>2 DEF Marks
<1>4. c[0] = w /\ \A n \in 1 .. MaxArchives + 1 : n \in Number /\ n # 0 /\ c[n] = b[n]
  BY <1>1, NumbersAre
<1>5. 1 \in 1 .. MaxArchives + 1 /\ MaxArchives + 1 \in 1 .. MaxArchives + 1
  BY Limits
<1>6. Marks(c, w)
  <2>1. c \in [Number -> Nat] /\ \A n \in Number : c[n] <= w
    BY <1>1, <1>3
  <2>2. ASSUME NEW n \in 1 .. MaxArchives + 1
        PROVE  c[n] <= c[n - 1]
    <3>1. CASE n = 1
      <4>1. n - 1 = 0
        BY <3>1
      <4> QED
        BY <1>3, <1>4, <3>1, <4>1
    <3>2. CASE n # 1
      <4>1. n - 1 \in 1 .. MaxArchives + 1
        BY <3>2, Limits
      <4> QED
        BY <1>3, <1>4, <4>1
    <3> QED
      BY <3>1, <3>2
  <2> QED
    BY <2>1, <2>2 DEF Marks
<1>7. Straight(e, c, w)
  <2>1. Text(e[0]) = Run(c[0], w)
    BY <1>4, NoRecords, NothingBetween DEF Text
  <2>2. ASSUME NEW n \in 1 .. MaxArchives + 1
        PROVE  Text(e[n]) = Run(c[n], c[n - 1])
    <3>1. CASE n = 1
      <4>1. n - 1 = 0 /\ c[n] = b[0] /\ e[n] = d[0]
        BY <1>2, <1>4, <1>5, <3>1 DEF Repeated
      <4> QED
        BY <1>2, <1>4, <4>1 DEF Repeated
    <3>2. CASE n # 1
      <4>1. n - 1 \in 1 .. MaxArchives + 1 /\ n \in 2 .. MaxArchives + 1
        BY <3>2, Limits
      <4> QED
        BY <1>2, <1>4, <4>1 DEF Repeated
    <3> QED
      BY <3>1, <3>2
  <2> QED
    BY <1>6, <2>1, <2>2 DEF Straight
<1>8. Archived(e, k + 1)
  BY NumbersAre DEF Doubled, Archived
<1>9. Lost(c) => k + 1 = MaxArchives
  <2>1. Lost(c) <=> Lost(b)
    BY <1>4, <1>5 DEF Lost
  <2> QED
    BY <2>1, Limits DEF Doubled
<1> QED
  BY <1>7, <1>8, <1>9 DEF Resting

-----------------------------------------------------------------------------
(* No family is broken.                                                     *)

LEMMA PrunedGrows ==
  ASSUME Core, NEW p \in Process, Step(p)
  PROVE  pruned \subseteq pruned' /\ (~LockFamily(p) /\ ~Choose(p) => pruned' = pruned)
<1>0. Typed
  BY TypesAre DEF Core
<1>1. CASE LockFamily(p)
  BY <1>0, <1>1, FamilyChecked DEF PassedOver, CheckFailed, TakenDown
<1>2. CASE ~LockFamily(p)
  BY <1>2 DEF Step, List, Choose, Unlink, FinishPruning, Open, LockOwn, Record, WriteAll,
              DropOldest, Rename, CreateFirst, Copy, Truncate, End
<1> QED
  BY <1>1, <1>2

\* Only what was chosen is removed.
Removes(p) == List(p) \/ LockFamily(p) \/ Choose(p) \/ Unlink(p) \/ FinishPruning(p)

LEMMA Spared ==
  ASSUME Core, NEW p \in Process, Step(p), NEW f \in Process, f \notin pruned',
         f # p \/ Removes(p)
  PROVE  files'[f] = files[f]
<1>0. Typed /\ files[f] \in [Number -> Contents]
  BY TypesAre DEF Core, Typed
<1>1. CASE LockFamily(p)
  <2>1. PICK g \in Process : PassedOver(p, g) \/ CheckFailed(p) \/ TakenDown(p, g)
    BY <1>0, <1>1, FamilyChecked
  <2>2. CASE TakenDown(p, g)
    <3>1. files' = [files EXCEPT ![g] = [n \in Number |->
                      IF <<g, n>> \in Invalid(p, g) THEN Absent ELSE @[n]]]
      BY <2>2 DEF TakenDown
    <3>2. CASE f = g
      <4>1. Invalid(p, g) = {}
        BY <2>2, <3>2 DEF TakenDown
      <4>2. files'[f] = [n \in Number |-> files[f][n]]
        BY <1>0, <3>1, <3>2, <4>1 DEF Typed
      <4> QED
        BY <1>0, <4>2
    <3>3. CASE f # g
      BY <1>0, <3>1, <3>3 DEF Typed
    <3> QED
      BY <3>2, <3>3
  <2> QED
    BY <2>1, <2>2 DEF PassedOver, CheckFailed
<1>2. CASE Unlink(p)
  <2>1. ASSUME NEW file \in doomed[p]
        PROVE  file[1] # f
    <3>1. file[1] \in Process /\ file[2] \in Number /\ file = <<file[1], file[2]>>
      BY <1>0, <2>1 DEF Typed, File
    <3>2. file[1] \in pruned
      BY <2>1, <3>1 DEF Core, Doomed
    <3> QED
      BY <3>2, PrunedGrows
  <2> QED
    BY <1>0, <1>2, <2>1 DEF Unlink, Put, Typed
<1>3. CASE List(p) \/ Choose(p) \/ FinishPruning(p) \/ LockOwn(p) \/ Record(p)
  BY <1>3 DEF List, Choose, FinishPruning, LockOwn, Record
<1>4. CASE f # p /\ (\/ Open(p) \/ WriteAll(p) \/ DropOldest(p) \/ CreateFirst(p)
                     \/ Copy(p) \/ Truncate(p) \/ End(p))
  BY <1>0, <1>4 DEF Open, WriteAll, DropOldest, CreateFirst, Copy, Truncate, End, Put, Typed
<1>5. CASE f # p /\ Rename(p)
  BY <1>0, <1>5 DEF Rename, Typed
<1> QED
  BY <1>1, <1>2, <1>3, <1>4, <1>5 DEF Step, Removes

\* A process that stops leaves its family as it is.
LEMMA WholeOver ==
  ASSUME NEW d, NEW b, NEW w, NEW place \in Over, NEW a, Sound(d, b, w)
  PROVE  Whole(place, d, b, w, a)
BY DEF Whole, Over, Before, Pruning

LEMMA NotOver == Over \cap ({"opened"} \cup Before \cup Logging) = {}
BY DEF Over, Before, Pruning, Logging, Rotating

LEMMA OpenWhole ==
  ASSUME Core, NEW p \in Process, Open(p),
         NEW b, Whole(pc[p], files[p], b, written[p], archive[p])
  PROVE  Whole(pc'[p], files'[p], b, written'[p], archive'[p])
<1>1. Typed /\ pc[p] = "opening" /\ pc'[p] = "opened" /\ written' = written
  BY TypesAre DEF Core, Typed, Open, Goto
<1>2. Straight(files[p], b, written[p]) /\ written[p] = 0 /\ Sound(files[p], b, written[p])
  BY <1>1 DEF Whole, Before
<1>3. files' = [files EXCEPT ![p][0] = << >>]
  BY DEF Open, Put
<1>4. \A n \in Number : files'[p][n] = IF n = 0 THEN << >> ELSE files[p][n]
  BY <1>1, <1>3, NumbersAre DEF Typed
<1>5. \A n \in Number : files[p][n] = Absent
  BY <1>1 DEF Core, Fresh, Before, NoFile, Exists
<1>6. \A n \in Number : Text(files'[p][n]) = Text(files[p][n])
  BY <1>4, <1>5, NoRecords DEF Text
<1>7. Straight(files'[p], b, written[p])
  BY <1>2, <1>6, SameText
<1>8. ~Lost(b)
  <2>1. b[MaxArchives + 1] \in Nat /\ b[MaxArchives + 1] <= 0
    BY <1>2, NumbersAre DEF Straight, Marks
  <2> QED
    BY <2>1 DEF Lost
<1> QED
  BY <1>1, <1>2, <1>7, <1>8 DEF Whole, Sound, Before, Pruning

LEMMA LockWhole ==
  ASSUME Core, NEW p \in Process, LockOwn(p),
         NEW b, Whole(pc[p], files[p], b, written[p], archive[p])
  PROVE  Whole(pc'[p], files'[p], b, written'[p], archive'[p])
<1>1. /\ Typed /\ pc[p] = "opened" /\ pc'[p] \in {"logging", "silent"}
      /\ written' = written /\ files' = files
  BY TypesAre DEF Core, Typed, LockOwn, Goto
<1>2. Straight(files[p], b, written[p]) /\ written[p] = 0 /\ Sound(files[p], b, written[p])
  BY <1>1 DEF Whole
<1>3. CASE pc'[p] # "logging"
  BY <1>1, <1>2, <1>3, WholeOver DEF Over
<1>4. CASE pc'[p] = "logging"
  <2>1. Archived(files[p], 0)
    <3>1. \A n \in 1 .. MaxArchives + 1 : files[p][n] = Absent
      BY <1>1 DEF Core, Fresh, NoFile, Exists
    <3> QED
      BY <3>1, NumbersAre DEF Archived
  <2>2. ~Lost(b)
    <3>1. b[MaxArchives + 1] \in Nat /\ b[MaxArchives + 1] <= 0
      BY <1>2, NumbersAre DEF Straight, Marks
    <3> QED
      BY <3>1 DEF Lost
  <2>3. Resting(files[p], b, written[p], 0) /\ 0 \in 0 .. MaxArchives
    BY <1>2, <2>1, <2>2, Limits DEF Resting
  <2> QED
    BY <1>1, <1>2, <1>4, <2>3 DEF Whole, Before, Pruning
<1> QED
  BY <1>3, <1>4

LEMMA WriteWhole ==
  ASSUME Core, NEW p \in Process, WriteAll(p),
         NEW b, Whole(pc[p], files[p], b, written[p], archive[p])
  PROVE  Whole(pc'[p], files'[p], b, written'[p], archive'[p])
<1>1. Typed /\ pc[p] = "appending" /\ written[p] \in Nat
  BY TypesAre DEF Core, Typed, WriteAll
<1>2. PICK k \in 0 .. MaxArchives : Resting(files[p], b, written[p], k)
  BY <1>1 DEF Whole
<1>3. CASE pc'[p] = "silent" /\ files' = files /\ written' = written
  BY <1>3, WholeOver DEF Over, Whole
<1>4. CASE /\ Put(p, 0, Append(files[p][0], written[p] + 1))
           /\ written' = [written EXCEPT ![p] = @ + 1]
           /\ Goto(p, "logging")
  <2>1. pc'[p] = "logging" /\ written'[p] = written[p] + 1
    BY <1>1, <1>4 DEF Goto, Typed
  <2>2. PICK s \in Seq(1 .. RecordLimit), r \in 1 .. RecordLimit :
          s = files[p][0] /\ r = written[p] + 1
    <3>1. files[p][0] \in Seq(1 .. RecordLimit)
      BY <1>1, BaseFile DEF Logging
    <3>2. written[p] < RecordLimit
      BY <1>1 DEF Core, Fits
    <3> QED
      BY <1>1, <3>1, <3>2, Limits
  <2>3. PICK t \in Seq(1 .. RecordLimit) : t = Append(s, r)
    BY Appended
  <2>4. files'[p][0] = t /\ \A n \in 1 .. MaxArchives + 1 : files'[p][n] = files[p][n]
    <3>1. files' = [files EXCEPT ![p][0] = t]
      BY <1>4, <2>2, <2>3 DEF Put
    <3> QED
      BY <1>1, <3>1, NumbersAre DEF Typed
  <2>5. Text(files'[p][0]) = Append(Text(files[p][0]), written[p] + 1)
    BY <2>2, <2>3, <2>4, Records DEF Text
  <2>6. Straight(files'[p], b, written[p] + 1)
    BY <1>1, <1>2, <2>4, <2>5, WriteStraight DEF Resting
  <2>7. Resting(files'[p], b, written[p] + 1, k)
    BY <1>2, <2>4, <2>6, NumbersAre DEF Resting, Archived
  <2>8. Sound(files'[p], b, written[p] + 1)
    <3>1. Lost(b) => Full1(files'[p])
      BY <1>2, <2>4, NumbersAre DEF Whole, Sound, Full1
    <3> QED
      BY <2>6, <3>1 DEF Sound
  <2> QED
    BY <2>1, <2>7, <2>8 DEF Whole, Before, Pruning
<1> QED
  BY <1>1, <1>3, <1>4 DEF WriteAll, Goto, Typed

LEMMA DropWhole ==
  ASSUME Core, NEW p \in Process, DropOldest(p),
         NEW b, Whole(pc[p], files[p], b, written[p], archive[p])
  PROVE  \E c : Whole(pc'[p], files'[p], c, written'[p], archive'[p])
<1>1. /\ Typed /\ pc[p] = "dropping" /\ written[p] \in Nat /\ pc'[p] = "renaming"
      /\ written' = written /\ archive'[p] = MaxArchives - 1
  BY TypesAre DEF Core, Typed, DropOldest, Goto
<1>2. PICK k \in 0 .. MaxArchives : Resting(files[p], b, written[p], k)
  BY <1>1 DEF Whole
<1>3. files[p][MaxArchives + 1] = Absent
  BY <1>1 DEF Core, Fresh, Exists
<1>4. \A n \in Number : files'[p][n] = IF n = MaxArchives THEN Absent ELSE files[p][n]
  <2>1. files' = [files EXCEPT ![p][MaxArchives] = Absent]
    BY DEF DropOldest, Put
  <2> QED
    BY <1>1, <2>1, NumbersAre DEF Typed
<1>5. PICK c, j : j \in 0 .. MaxArchives - 1 /\ Moving(files'[p], c, written[p], j, MaxArchives - 1)
  BY <1>1, <1>2, <1>3, <1>4, DropMoves
<1>6. Sound(files'[p], c, written[p])
  <2>1. MaxArchives - 1 \in 0 .. MaxArchives - 1
    BY Limits
  <2> QED
    BY <1>5, <2>1, MovingSound
<1> QED
  BY <1>1, <1>5, <1>6 DEF Whole, Before, Pruning

LEMMA RenameWhole ==
  ASSUME Core, NEW p \in Process, Rename(p),
         NEW b, Whole(pc[p], files[p], b, written[p], archive[p])
  PROVE  \E c : Whole(pc'[p], files'[p], c, written'[p], archive'[p])
<1>1. /\ Typed /\ pc[p] = "renaming" /\ written[p] \in Nat /\ written' = written
      /\ archive[p] \in 1 .. MaxArchives - 1
  <2>1. Typed /\ pc[p] = "renaming" /\ archive[p] >= 1 /\ written' = written
    BY TypesAre DEF Core, Rename
  <2>2. archive[p] < MaxArchives
    BY <2>1 DEF Core, Fits
  <2>3. archive[p] \in 0 .. MaxArchives /\ written[p] \in Nat
    BY <2>1 DEF Typed
  <2> QED
    BY <2>1, <2>2, <2>3, Limits
<1>2. PICK a \in 1 .. MaxArchives - 1 : a = archive[p]
  BY <1>1
<1>3. PICK k \in 0 .. MaxArchives - 1 : Moving(files[p], b, written[p], k, a)
  BY <1>1, <1>2 DEF Whole
<1>4. CASE pc'[p] = "silent" /\ files' = files
  BY <1>1, <1>4, WholeOver DEF Over, Whole
<1>5. CASE /\ files' = IF Exists(<<p, a>>)
                         THEN [files EXCEPT ![p][a + 1] = files[p][a], ![p][a] = Absent]
                         ELSE files
           /\ archive' = [archive EXCEPT ![p] = a - 1]
           /\ pc' = pc
  <2>1. archive'[p] = a - 1
    BY <1>1, <1>5 DEF Typed
  <2>2. \/ files[p][a] = Absent /\ files'[p] = files[p]
        \/ /\ files[p][a] # Absent
           /\ \A n \in Number : files'[p][n] = IF n = a THEN Absent
                                               ELSE IF n = a + 1 THEN files[p][a] ELSE files[p][n]
    <3>1. a \in Number /\ a + 1 \in Number
      BY Limits DEF Number
    <3>2. CASE files[p][a] = Absent
      BY <1>5, <3>2 DEF Exists
    <3>3. CASE files[p][a] # Absent
      <4>1. files' = [files EXCEPT ![p][a + 1] = files[p][a], ![p][a] = Absent]
        BY <1>5, <3>3 DEF Exists
      <4> QED
        BY <1>1, <3>1, <3>3, <4>1 DEF Typed
    <3> QED
      BY <3>2, <3>3
  <2>3. PICK c : Moving(files'[p], c, written[p], k, a - 1)
    BY <1>1, <1>3, <2>2, RenameMoves
  <2>4. Sound(files'[p], c, written[p])
    <3>1. a - 1 \in 0 .. MaxArchives - 1
      BY Limits
    <3> QED
      BY <2>3, <3>1, MovingSound
  <2> QED
    BY <1>1, <1>5, <2>1, <2>3, <2>4 DEF Whole, Before, Pruning
<1> QED
  BY <1>1, <1>2, <1>4, <1>5 DEF Rename, Goto, Typed

LEMMA CreateWhole ==
  ASSUME Core, NEW p \in Process, CreateFirst(p),
         NEW b, Whole(pc[p], files[p], b, written[p], archive[p])
  PROVE  Whole(pc'[p], files'[p], b, written'[p], archive'[p])
<1>1. /\ Typed /\ pc[p] = "renaming" /\ written[p] \in Nat /\ written' = written
      /\ archive[p] = 0
  BY TypesAre DEF Core, Typed, CreateFirst
<1>2. PICK k \in 0 .. MaxArchives - 1 : Moving(files[p], b, written[p], k, 0)
  BY <1>1 DEF Whole
<1>3. CASE pc'[p] = "silent" /\ files' = files
  BY <1>1, <1>3, WholeOver DEF Over, Whole
<1>4. CASE files' = [files EXCEPT ![p][1] = << >>] /\ pc'[p] = "copying"
  <2>1. files'[p][1] = << >> /\ \A n \in Number \ {1} : files'[p][n] = files[p][n]
    BY <1>1, <1>4, NumbersAre DEF Typed
  <2>2. Doubled(files'[p], b, written[p], k)
    BY <1>1, <1>2, <2>1, CreateDoubles
  <2>3. Sound(files'[p], b, written[p])
    BY <1>2, <2>2, MovingSound
  <2> QED
    BY <1>1, <1>4, <2>2, <2>3 DEF Whole, Before, Pruning
<1> QED
  BY <1>1, <1>3, <1>4 DEF CreateFirst, Put, Goto, Typed

LEMMA CopyWhole ==
  ASSUME Core, NEW p \in Process, Copy(p), p \notin nameless,
         NEW b, Whole(pc[p], files[p], b, written[p], archive[p])
  PROVE  Whole(pc'[p], files'[p], b, written'[p], archive'[p])
<1>1. Typed /\ pc[p] = "copying" /\ written' = written
  BY TypesAre DEF Core, Copy
<1>2. PICK k \in 0 .. MaxArchives - 1 : Doubled(files[p], b, written[p], k)
  BY <1>1 DEF Whole
<1>3. files[p][0] \in Seq(1 .. RecordLimit) /\ files[p][1] # Absent
  BY <1>1, BaseFile DEF Logging, Rotating, Core, Fits, Exists
<1>4. \A n \in Number \ {1} : files'[p][n] = files[p][n]
  BY OwnFilesAre, <1>1 DEF OwnFiles, Core
<1>5. CASE pc'[p] # "silent"
  <2>1. /\ files'[p][1] \in Seq(1 .. RecordLimit)
        /\ IsPrefix(files'[p][1], files[p][0])
        /\ pc'[p] \in {"copying", "truncating"}
        /\ pc'[p] = "truncating" => files'[p][1] = files'[p][0]
    <3>1. IsPrefix(files[p][0], files[p][0])
      <4>1. \A s \in Seq(1 .. RecordLimit) : IsPrefix(s, s)
        BY PrefixMeans, Records
      <4> QED
        BY <1>3, <4>1
    <3> QED
      BY <1>1, <1>3, <1>5, <3>1, CopyGoes DEF Exists
  <2>2. files'[p][1] # Absent /\ files[p][0] # Absent
    BY <1>3, <2>1, Records
  <2>3. Repeated(files'[p], b, written[p])
    BY <1>2, <1>4, <2>1, <2>2, CopyRepeats DEF Doubled, Text
  <2>4. Archived(files'[p], k + 1)
    BY <1>2, <1>3, <1>4, <2>2, NumbersAre DEF Doubled, Archived
  <2>5. Doubled(files'[p], b, written[p], k)
    BY <1>2, <2>3, <2>4 DEF Doubled
  <2>6. Sound(files'[p], b, written[p])
    BY <1>2, <2>5, MovingSound
  <2> QED
    BY <1>1, <2>1, <2>5, <2>6 DEF Whole, Before, Pruning
<1>6. CASE pc'[p] = "silent"
  <2>1. files'[p][1] = Absent
    BY <1>1, <1>6, NumbersAre DEF Copy, Put, Goto, Typed
  <2>2. IsPrefix(<< >>, files[p][0])
    <3>1. PICK s \in Seq(1 .. RecordLimit) : s = << >>
      BY NoRecords
    <3>2. PICK t \in Seq(1 .. RecordLimit) : t = files[p][0]
      BY <1>3
    <3>3. Len(s) = 0 /\ Len(s) <= Len(t)
      <4>1. Len(t) \in Nat /\ Len(<< >>) = 0
        BY Records
      <4> QED
        BY <3>1, <4>1
    <3>4. 1 .. Len(s) = {}
      BY <3>3
    <3>5. IsPrefix(s, t)
      BY <3>3, <3>4, PrefixMeans
    <3> QED
      BY <3>1, <3>2, <3>5
  <2>3. Repeated(files'[p], b, written[p])
    <3>1. files[p][0] # Absent
      BY <1>3, Records
    <3> QED
      BY <1>2, <1>4, <2>1, <2>2, <3>1, CopyRepeats DEF Doubled, Text
  <2>4. Lost(b) => Full1(files'[p])
    <3> SUFFICES ASSUME Lost(b)
                 PROVE  Full1(files'[p])
      OBVIOUS
    <3>1. \A n \in 1 .. MaxArchives : files[p][n] # Absent
      BY <1>2, Limits DEF Doubled, Archived
    <3>2. \A n \in 1 .. MaxArchives : n # 1 => files'[p][n] # Absent
      BY <1>4, <3>1, NumbersAre
    <3> QED
      BY <3>2 DEF Full1
  <2>5. Sound(files'[p], b, written[p])
    BY <2>3, <2>4 DEF Sound
  <2> QED
    BY <1>1, <1>6, <2>5, WholeOver DEF Over
<1> QED
  BY <1>5, <1>6

LEMMA TruncateWhole ==
  ASSUME Core, NEW p \in Process, Truncate(p),
         NEW b, Whole(pc[p], files[p], b, written[p], archive[p])
  PROVE  \E c : Whole(pc'[p], files'[p], c, written'[p], archive'[p])
<1>1. /\ Typed /\ pc[p] = "truncating" /\ written[p] \in Nat /\ written' = written
      /\ files[p][1] = files[p][0]
  BY TypesAre DEF Core, Typed, Truncate, Whole
<1>2. PICK k \in 0 .. MaxArchives - 1 : Doubled(files[p], b, written[p], k)
  BY <1>1 DEF Whole
<1>3. CASE pc'[p] = "silent" /\ files' = files
  BY <1>1, <1>3, WholeOver DEF Over, Whole
<1>4. CASE files' = [files EXCEPT ![p][0] = << >>] /\ pc'[p] = "appending"
  <2>1. files'[p][0] = << >> /\ \A n \in 1 .. MaxArchives + 1 : files'[p][n] = files[p][n]
    BY <1>1, <1>4, NumbersAre DEF Typed
  <2>2. PICK c : Resting(files'[p], c, written[p], k + 1)
    BY <1>1, <1>2, <2>1, TruncateRests
  <2>3. Sound(files'[p], c, written[p])
    <3>1. 0 \in 0 .. MaxArchives - 1
      BY Limits
    <3> QED
      BY <2>2, <3>1, MovingSound
  <2>4. k + 1 \in 0 .. MaxArchives
    BY Limits
  <2> QED
    BY <1>1, <1>4, <2>2, <2>3, <2>4 DEF Whole, Before, Pruning
<1> QED
  BY <1>1, <1>3, <1>4 DEF Truncate, Put, Goto, Typed

LEMMA OwnUnbroken ==
  ASSUME Core, NEW p \in Process, Step(p), p \notin pruned',
         NEW b, Whole(pc[p], files[p], b, written[p], archive[p])
  PROVE  \E c : Whole(pc'[p], files'[p], c, written'[p], archive'[p])
<1>0. p \notin nameless
  BY PrunedGrows DEF Core, Adrift
<1>1. Typed /\ Goes(p)
  BY TypesAre, ItGoes DEF Core
<1>2. CASE Removes(p)
  <2>1. files'[p] = files[p] /\ written' = written
    <3>1. written' = written
      BY <1>1, <1>2, FamilyChecked DEF Removes, List, Choose, Unlink, FinishPruning, Checked
    <3> QED
      BY <1>2, <3>1, Spared
  <2>2. pc[p] \in Before /\ pc'[p] \in Before \cup {"silent"}
    <3>1. /\ List(p) => pc[p] = "unborn" /\ pc'[p] = "locking"
          /\ Choose(p) => pc[p] = "locking" /\ pc'[p] = "removing"
          /\ Unlink(p) => pc[p] = "removing" /\ pc'[p] \in {"removing", "silent"}
          /\ FinishPruning(p) => pc[p] = "removing" /\ pc'[p] = "opening"
      BY <1>1 DEF List, Choose, Unlink, FinishPruning, Goto, Typed
    <3> QED
      BY <1>1, <1>2, <3>1, CheckGoes DEF Removes, Before, Pruning
  <2>3. CASE pc'[p] \in Before
    BY <2>1, <2>2, <2>3 DEF Whole, Before, Pruning
  <2>4. CASE pc'[p] = "silent"
    BY <2>1, <2>4, WholeOver DEF Over, Whole
  <2> QED
    BY <2>2, <2>3, <2>4
<1>3. CASE Record(p)
  <2>1. /\ files' = files /\ written' = written
        /\ pc[p] = "logging" /\ pc'[p] \in {"dropping", "appending"}
    BY <1>1, <1>3 DEF Record, Goto, Typed
  <2> QED
    BY <2>1 DEF Whole, Before, Pruning
<1>4. CASE End(p)
  <2>1. files' = files /\ written' = written /\ pc'[p] = "ended"
    BY <1>1, <1>0, <1>4 DEF End, Goto, Typed
  <2> QED
    BY <2>1, WholeOver DEF Over, Whole
<1>5. CASE Open(p) \/ LockOwn(p) \/ WriteAll(p)
  BY <1>5, OpenWhole, LockWhole, WriteWhole
<1>6. CASE DropOldest(p) \/ Rename(p) \/ CreateFirst(p) \/ Copy(p) \/ Truncate(p)
  BY <1>0, <1>6, DropWhole, RenameWhole, CreateWhole, CopyWhole, TruncateWhole
<1> QED
  BY <1>2, <1>3, <1>4, <1>5, <1>6 DEF Step, Removes

LEMMA UnbrokenStep ==
  ASSUME Core, Unbroken, [Next]_vars
  PROVE  Unbroken'
<1>1. CASE UNCHANGED vars
  BY <1>1 DEF vars, Unbroken
<1>2. ASSUME NEW p \in Process, Step(p), NEW f \in Process \ pruned'
      PROVE  \E c : Whole(pc'[f], files'[f], c, written'[f], archive'[f])
  <2>1. f \notin pruned
    BY <1>2, PrunedGrows
  <2>2. PICK b : Whole(pc[f], files[f], b, written[f], archive[f])
    BY <2>1 DEF Unbroken
  <2>3. CASE f = p
    BY <1>2, <2>2, <2>3, OwnUnbroken
  <2>4. CASE f # p
    <3>1. files'[f] = files[f]
      BY <1>2, <2>4, Spared
    <3>2. pc'[f] = pc[f] /\ written'[f] = written[f] /\ archive'[f] = archive[f]
      BY <1>2, <2>4, OthersStay, TypesAre DEF Core, Stays
    <3> QED
      BY <2>2, <3>1, <3>2
  <2> QED
    BY <2>3, <2>4
<1> QED
  BY <1>1, <1>2, NextSteps DEF Unbroken

\* The files of a family nobody pruned have marks, at each place of a rotation.
THEOREM UnbrokenInvariant == Spec => []Unbroken
<1>1. Core /\ Unbroken /\ [Next]_vars => Unbroken'
  BY UnbrokenStep
<1> QED
  BY <1>1, UnbrokenInit, CoreInvariant, PTL DEF Spec

-----------------------------------------------------------------------------
(* What is read of a family.                                                *)

\* The archives but the first, from the oldest on.
LEMMA OlderRecords ==
  ASSUME NEW d, NEW b, NEW w \in Nat, Straight(d, b, w) \/ Repeated(d, b, w),
         NEW older, older = [i \in 1 .. MaxArchives |-> Text(d[MaxArchives + 2 - i])]
  PROVE  FlattenSeq(older) = Run(b[MaxArchives + 1], b[1])
<1>1. PICK m \in Nat : m = MaxArchives /\ m >= 1
  BY Limits
<1>2. /\ b \in [Number -> Nat] /\ \A n \in 1 .. m + 1 : b[n] <= b[n - 1]
      /\ \A n \in 2 .. m + 1 : Text(d[n]) = Run(b[n], b[n - 1])
  <2>1. 2 .. m + 1 \subseteq 1 .. m + 1
    OBVIOUS
  <2>2. /\ Marks(b, w)
        /\ \A n \in 2 .. m + 1 : Text(d[n]) = Run(b[n], b[n - 1])
    <3>1. CASE Straight(d, b, w)
      BY <1>1, <2>1, <3>1 DEF Straight
    <3>2. CASE Repeated(d, b, w)
      BY <1>1, <3>2 DEF Repeated
    <3> QED
      BY <3>1, <3>2
  <2> QED
    BY <1>1, <2>2 DEF Marks
<1>3. PICK y : y = [i \in 0 .. m |-> b[m + 1 - i]]
  OBVIOUS
<1>4. \A i \in 0 .. m : m + 1 - i \in Number /\ m + 1 - i \in 1 .. m + 1
  BY <1>1 DEF Number
<1>5. y \in [0 .. m -> Nat]
  BY <1>2, <1>3, <1>4
<1>6. ASSUME NEW i \in 1 .. m
      PROVE  /\ y[i - 1] <= y[i] /\ y[i - 1] = b[m + 2 - i] /\ y[i] = b[m + 1 - i]
             /\ Text(d[m + 2 - i]) = Run(y[i - 1], y[i])
  <2>1. /\ i - 1 \in 0 .. m /\ i \in 0 .. m /\ m + 1 - (i - 1) = m + 2 - i
        /\ m + 2 - i \in 2 .. m + 1 /\ m + 2 - i \in 1 .. m + 1 /\ m + 2 - i - 1 = m + 1 - i
    OBVIOUS
  <2>2. y[i - 1] = b[m + 2 - i] /\ y[i] = b[m + 1 - i]
    BY <1>3, <2>1
  <2>3. b[m + 2 - i] <= b[m + 2 - i - 1] /\ Text(d[m + 2 - i]) = Run(b[m + 2 - i], b[m + 2 - i - 1])
    BY <1>2, <2>1
  <2> QED
    BY <2>1, <2>2, <2>3
<1>7. older = [i \in 1 .. m |-> Run(y[i - 1], y[i])]
  BY <1>1, <1>6
<1>8. FlattenSeq(older) = Run(y[0], y[m])
  BY <1>1, <1>5, <1>6, <1>7, RunsFlatten
<1>9. y[0] = b[m + 1] /\ y[m] = b[1]
  <2>1. m + 1 - 0 = m + 1 /\ m + 1 - m = 1
    BY <1>1
  <2> QED
    BY <1>1, <1>3, <2>1
<1> QED
  BY <1>1, <1>8, <1>9

LEMMA MarksDescend ==
  ASSUME NEW b, NEW w, Marks(b, w)
  PROVE  \A n \in Number : b[n] \in Nat /\ b[MaxArchives + 1] <= b[n]
<1> SUFFICES ASSUME {n \in Number : ~(b[MaxArchives + 1] <= b[n])} # {}
             PROVE  FALSE
  BY DEF Marks
<1>1. PICK m \in Nat : m = MaxArchives + 1 /\ Number = 0 .. m
  BY Limits DEF Number
<1>2. PICK y : y = [i \in 0 .. m |-> b[m - i]]
  OBVIOUS
<1>3. {i \in 0 .. m : ~(b[m] <= y[i])} # {}
  <2>1. PICK n \in 0 .. m : ~(b[m] <= b[n])
    BY <1>1
  <2>2. m - n \in 0 .. m /\ m - (m - n) = n
    BY <1>1
  <2>3. y[m - n] = b[n]
    BY <1>2, <2>2
  <2> QED
    BY <2>1, <2>2, <2>3
<1>4. PICK i \in 0 .. m : ~(b[m] <= y[i]) /\ \A j \in 0 .. m : ~(b[m] <= y[j]) => i <= j
  <2>1. {j \in 0 .. m : ~(b[m] <= y[j])} \in SUBSET Nat
    OBVIOUS
  <2> QED
    BY <1>3, <2>1, Least
<1>5. \A n \in 0 .. m : b[n] \in Nat
  BY <1>1 DEF Marks
<1>6. i # 0
  BY <1>1, <1>2, <1>4, <1>5
<1>7. i - 1 \in 0 .. m /\ m - i \in 0 .. m /\ m - i + 1 \in 1 .. m /\ m - (i - 1) = m - i + 1
  BY <1>6
<1>8. b[m] <= y[i - 1] /\ y[i - 1] = b[m - i + 1] /\ y[i] = b[m - i]
  BY <1>2, <1>4, <1>7
<1>9. b[m - i + 1] <= b[m - i]
  <2>1. b[m - i + 1] <= b[m - i + 1 - 1] /\ m - i + 1 - 1 = m - i
    BY <1>1, <1>7 DEF Marks
  <2> QED
    BY <2>1
<1>10. b[m] \in Nat /\ b[m - i] \in Nat /\ b[m - i + 1] \in Nat
  BY <1>1, <1>5, <1>7
<1> QED
  BY <1>4, <1>8, <1>9, <1>10

\* Archives whose first record is in the base file too.
LEMMA RepeatedFromStart ==
  ASSUME NEW a \in Nat, NEW y \in Nat, NEW w \in 0 .. RecordLimit, a <= y, y <= w,
         IsPrefix(Run(a, y), Run(y, w))
  PROVE  a = y
<1>1. y \in 0 .. RecordLimit
  BY Limits
<1>2. PICK s \in Seq(1 .. RecordLimit), t \in Seq(1 .. RecordLimit) : s = Run(a, y) /\ t = Run(y, w)
  BY <1>1, RunRecords
<1>3. Len(s) <= Len(t) /\ \A i \in 1 .. Len(s) : s[i] = t[i]
  BY <1>2, PrefixMeans
<1>4. PICK n \in Nat, m \in Nat :
        /\ n = y - a /\ m = w - y /\ Len(s) = n /\ Len(t) = m
        /\ \A i \in 1 .. n : s[i] = a + i
        /\ \A i \in 1 .. m : t[i] = y + i
  <2>1. y - a \in Nat /\ w - y \in Nat /\ w \in Nat
    BY Limits
  <2> QED
    BY <1>2, <2>1, RunIs
<1> SUFFICES ASSUME a # y
             PROVE  FALSE
  OBVIOUS
<1>5. 1 \in 1 .. n /\ 1 \in 1 .. m
  BY <1>3, <1>4
<1>6. a + 1 = y + 1
  BY <1>3, <1>4, <1>5
<1> QED
  BY <1>6

LEMMA FullHouse ==
  ASSUME NEW d, Full1(d), NEW A, A = {n \in 1 .. MaxArchives : d[n] # Absent}
  PROVE  Cardinality(A) >= MaxArchives - 1
<1>1. PICK m \in Nat : m = MaxArchives /\ m >= 1
  BY Limits
<1>2. IsFiniteSet(1 .. m) /\ Cardinality(1 .. m) = m
  <2>1. IsFiniteSet(1 .. m) /\ Cardinality(1 .. m) = IF 1 > m THEN 0 ELSE m - 1 + 1
    BY FS_Interval
  <2> QED
    BY <1>1, <2>1
<1>3. A \subseteq 1 .. m
  BY <1>1
<1>4. CASE A = 1 .. m
  <2>1. Cardinality(A) = m
    BY ONLY <1>2, <1>4
  <2> QED
    BY <1>1, <2>1
<1>5. CASE A # 1 .. m
  <2>1. PICK x \in 1 .. m : d[x] = Absent
    BY <1>1, <1>5
  <2>2. (1 .. m) \ {x} \subseteq A
    BY <1>1, <2>1 DEF Full1
  <2>3. IsFiniteSet((1 .. m) \ {x}) /\ Cardinality((1 .. m) \ {x}) = m - 1
    BY <1>2, FS_RemoveElement
  <2>4. IsFiniteSet(A)
    BY <1>2, <1>3, FS_Subset
  <2>5. Cardinality((1 .. m) \ {x}) <= Cardinality(A)
    BY <2>2, <2>4, FS_Subset
  <2> QED
    BY <1>1, <2>3, <2>5
<1> QED
  BY <1>4, <1>5

LEMMA RunLast ==
  ASSUME NEW a \in Nat, NEW w \in Nat, a <= w, NEW h, h = Run(a, w)
  PROVE  Len(h) = w - a /\ h = [i \in DOMAIN h |-> w - Len(h) + i]
<1>1. PICK n \in Nat : n = w - a
  OBVIOUS
<1>2. Len(h) = n /\ DOMAIN h = 1 .. n
  BY <1>1, RunIs
<1>3. h = [i \in 1 .. n |-> a + i]
  BY <1>1 DEF Run
<1>4. \A i \in 1 .. n : a + i = w - n + i
  BY <1>1
<1> QED
  BY <1>1, <1>2, <1>3, <1>4

LEMMA UnbrokenKept ==
  ASSUME Core, Unbroken
  PROVE  HistoryKept
<1> SUFFICES ASSUME NEW f \in Process \ pruned
             PROVE  LET h == History(f)
                        archives == {n \in 1 .. MaxArchives : Exists(<<f, n>>)}
                    IN  /\ h = [i \in DOMAIN h |-> written[f] - Len(h) + i]
                        /\ Len(h) < written[f] => Cardinality(archives) >= MaxArchives - 1
  BY DEF HistoryKept
<1>1. PICK d, w, b : /\ d = files[f] /\ w = written[f]
                     /\ Sound(d, b, w) /\ w \in 0 .. RecordLimit
  BY TypesAre DEF Core, Typed, Unbroken, Whole
<1>2. w \in Nat /\ Marks(b, w) /\ (Straight(d, b, w) \/ Repeated(d, b, w))
  BY <1>1, Limits DEF Sound, Straight, Repeated
<1>3. /\ b[MaxArchives + 1] \in Nat /\ b[1] \in Nat /\ b[0] \in Nat
      /\ b[MaxArchives + 1] <= b[1] /\ b[1] <= b[0] /\ b[0] <= w
      /\ b[MaxArchives + 1] <= b[0] /\ b[MaxArchives + 1] <= w
  <2>1. b[0] <= w /\ b[MaxArchives + 1] <= w
    BY <1>2, NumbersAre DEF Marks
  <2>2. b[1] <= b[1 - 1] /\ 1 - 1 = 0
    BY <1>2, NumbersAre DEF Marks
  <2>3. \A n \in Number : b[n] \in Nat /\ b[MaxArchives + 1] <= b[n]
    BY <1>2, MarksDescend
  <2> QED
    BY <2>1, <2>2, <2>3, NumbersAre
<1>4. PICK older : older = [i \in 1 .. MaxArchives |-> Text(d[MaxArchives + 2 - i])]
  OBVIOUS
<1>5. FlattenSeq(older) = Run(b[MaxArchives + 1], b[1])
  BY <1>2, <1>4, OlderRecords
<1>6. History(f) = FlattenSeq(older) \o (IF IsPrefix(Text(d[1]), Text(d[0])) THEN << >> ELSE Text(d[1]))
                     \o Text(d[0])
  BY <1>1, <1>4 DEF History, Exists, Text
<1>7. Text(d[0]) = Run(b[0], w)
  BY <1>2 DEF Straight, Repeated
<1>8. History(f) = Run(b[MaxArchives + 1], w)
  <2>1. CASE IsPrefix(Text(d[1]), Text(d[0]))
    <3>1. b[1] = b[0]
      <4>1. CASE Straight(d, b, w)
        <5>1. Text(d[1]) = Run(b[1], b[0])
          <6>1. Text(d[1]) = Run(b[1], b[1 - 1]) /\ 1 - 1 = 0
            BY <4>1, NumbersAre DEF Straight
          <6> QED
            BY <6>1
        <5> QED
          BY <1>1, <1>3, <1>7, <2>1, <5>1, RepeatedFromStart
      <4>2. CASE Repeated(d, b, w)
        BY <4>2 DEF Repeated
      <4> QED
        BY <1>2, <4>1, <4>2
    <3>2. Run(b[MaxArchives + 1], b[0]) \o << >> = Run(b[MaxArchives + 1], b[0])
      BY <1>3, RunIs, ConcatEmptySeq
    <3>3. Run(b[MaxArchives + 1], b[0]) \o Run(b[0], w) = Run(b[MaxArchives + 1], w)
      BY <1>2, <1>3, RunConcat
    <3> QED
      BY <1>5, <1>6, <1>7, <2>1, <3>1, <3>2, <3>3
  <2>2. CASE ~IsPrefix(Text(d[1]), Text(d[0]))
    <3>1. Straight(d, b, w)
      BY <1>2, <2>2 DEF Repeated
    <3>2. Text(d[1]) = Run(b[1], b[0])
      <4>1. Text(d[1]) = Run(b[1], b[1 - 1]) /\ 1 - 1 = 0
        BY <3>1, NumbersAre DEF Straight
      <4> QED
        BY <4>1
    <3>3. Run(b[MaxArchives + 1], b[1]) \o Run(b[1], b[0]) = Run(b[MaxArchives + 1], b[0])
      BY <1>3, RunConcat
    <3>4. Run(b[MaxArchives + 1], b[0]) \o Run(b[0], w) = Run(b[MaxArchives + 1], w)
      BY <1>2, <1>3, RunConcat
    <3> QED
      BY <1>5, <1>6, <1>7, <2>2, <3>2, <3>3, <3>4
  <2> QED
    BY <2>1, <2>2
<1>9. PICK h : h = History(f)
  OBVIOUS
<1>10. Len(h) = w - b[MaxArchives + 1] /\ h = [i \in DOMAIN h |-> w - Len(h) + i]
  BY <1>2, <1>3, <1>8, <1>9, RunLast
<1>11. ASSUME Len(h) < w
       PROVE  Cardinality({n \in 1 .. MaxArchives : Exists(<<f, n>>)}) >= MaxArchives - 1
  <2>1. Lost(b)
    BY <1>2, <1>3, <1>10, <1>11 DEF Lost
  <2>2. Full1(d)
    BY <1>1, <2>1 DEF Sound
  <2>3. {n \in 1 .. MaxArchives : Exists(<<f, n>>)} = {n \in 1 .. MaxArchives : d[n] # Absent}
    BY <1>1 DEF Exists
  <2> QED
    BY <2>2, <2>3, FullHouse
<1> QED
  BY <1>1, <1>9, <1>10, <1>11

\* Whatever step a process was killed in or failed at, the files of a family nobody
\* pruned hold its last records without a gap, in order and once, and when records are
\* missing at most one archive is.
THEOREM HistoryKeptAlways == Spec => []HistoryKept
<1>1. Core /\ Unbroken => HistoryKept
  BY UnbrokenKept
<1> QED
  BY <1>1, CoreInvariant, UnbrokenInvariant, PTL
=============================================================================
