--------------------------- MODULE GzipCacheProofs ---------------------------
(***************************************************************************)
(* Proofs about GzipCache, for any requests, texts and inodes.             *)
(*                                                                         *)
(* The argument: as long as nothing is spoilt, everybody who is at work    *)
(* copies the text that the file has.  So whatever a writer lacks in the   *)
(* inode it has opened, itself or another writer of that inode is still    *)
(* to write, and with the same text.  The path of a finished writer may    *)
(* name another's inode by now, but that one is looked after as well.      *)
(***************************************************************************)
EXTENDS GzipCache, FiniteSetTheorems, TLAPS

WritesHead(i) == \E w \in Writers : job[w].at = "head" /\ job[w].inode = i
WritesTail(i) == \E w \in Writers : job[w].at \in {"head", "tail"} /\ job[w].inode = i

(* Each piece of the inode has the file's text, or somebody is to write it. *)
LookedAfter(i) ==
    /\ inode[i].head = file \/ WritesHead(i)
    /\ inode[i].tail = file \/ WritesTail(i)

(* Whoever is at work copies the text of the file. *)
SameText == \A w \in Writers : job[w].at # "idle" => file # None /\ job[w].text = file

WritersInv ==
    \A w \in Writers : job[w].at \in {"head", "tail"} => LookedAfter(job[w].inode)

(* Nobody publishes what was left by somebody who gave up. *)
TmpInv ==
    (\E w \in Writers : job[w].at \in {"head", "tail", "publish"}) /\ tmp # None
        => LookedAfter(tmp)

(* What is served, even while it is being written. *)
GzInv == gz # None /\ inode[gz].fresh => LookedAfter(gz)

(* A writer has an inode from when it creates one until it is idle again. *)
JobInv ==
    \A w \in Writers : /\ job[w].at \in {"idle", "read"} => job[w].inode = None
                       /\ job[w].at \in {"head", "tail"} => job[w].inode \in Inodes

GzipInv ==
    /\ TypeOK /\ JobInv
    /\ ~spoilt => SameText /\ WritersInv /\ TmpInv /\ GzInv

-----------------------------------------------------------------------------
(* Inodes and types.                                                        *)

LEMMA OneMore ==
  ASSUME NEW S, IsFiniteSet(S), NEW x
  PROVE  /\ IsFiniteSet(S \cup {x}) /\ Cardinality(S \cup {x}) <= Cardinality(S) + 1
         /\ Cardinality(S) \in Nat /\ Cardinality(S \cup {x}) \in Nat
<1>1. /\ IsFiniteSet(S \cup {x})
      /\ Cardinality(S \cup {x}) = IF x \in S THEN Cardinality(S) ELSE Cardinality(S) + 1
  BY FS_AddElement
<1>2. Cardinality(S) \in Nat /\ Cardinality(S \cup {x}) \in Nat
  BY <1>1, FS_CardinalityType
<1> QED
  BY <1>1, <1>2

(* With two more inodes than writers there is always one to create a file in. *)
LEMMA UnusedThere ==
  ASSUME GzipAssumption, TypeOK, JobInv, NEW w \in Writers, job[w].at = "read", tmp = None
  PROVE  (CHOOSE u \in Unused : TRUE) \in Inodes
<1> DEFINE Others == Writers \ {w}
           f == [v \in Others |-> job[v].inode]
           Opened == {job[v].inode : v \in Others}
           All == (Opened \cup {gz}) \cup {None}
<1>1. /\ IsFiniteSet(Writers) /\ Cardinality(Writers) \in Nat
      /\ IsFiniteSet(Inodes) /\ Cardinality(Inodes) \in Nat
      /\ Cardinality(Inodes) >= Cardinality(Writers) + 2
  BY FS_CardinalityType DEF GzipAssumption
<1>2. IsFiniteSet(Others) /\ Cardinality(Others) = Cardinality(Writers) - 1
  BY <1>1, FS_RemoveElement
<1>3. f \in Surjection(Others, Opened)
  BY DEF Surjection
<1>4. IsFiniteSet(Opened) /\ Cardinality(Opened) <= Cardinality(Others)
  BY <1>2, <1>3, FS_Surjection
<1>5. /\ IsFiniteSet(Opened \cup {gz}) /\ Cardinality(Opened \cup {gz}) <= Cardinality(Opened) + 1
      /\ Cardinality(Opened) \in Nat /\ Cardinality(Opened \cup {gz}) \in Nat
  BY <1>4, OneMore
<1>6. IsFiniteSet(All) /\ Cardinality(All) <= Cardinality(Opened \cup {gz}) + 1
      /\ Cardinality(All) \in Nat
  BY <1>5, OneMore
<1>7. Cardinality(All) < Cardinality(Inodes)
  <2> HIDE DEF Others, Opened, All
  <2> QED
    BY <1>1, <1>2, <1>4, <1>5, <1>6
<1>8. job[w].inode = None
  BY DEF JobInv
<1>9. {gz, tmp} \cup {job[v].inode : v \in Writers} \subseteq All
  BY <1>8
<1>10. Unused # {}
  <2> SUFFICES ASSUME Unused = {} PROVE FALSE
    OBVIOUS
  <2>1. Inodes \in SUBSET All
    BY <1>9 DEF Unused
  <2>2. Cardinality(Inodes) <= Cardinality(All)
    BY <1>6, <2>1, FS_Subset
  <2> HIDE DEF All
  <2> QED
    BY <1>1, <1>6, <1>7, <2>2
<1> QED
  BY <1>10 DEF Unused

LEMMA GzipInit == ASSUME GzipAssumption PROVE Init => GzipInv
<1> SUFFICES ASSUME Init PROVE GzipInv
  OBVIOUS
<1>1. /\ file \in Texts /\ gz = None /\ tmp = None /\ edits = 0 /\ spoilt = FALSE
      /\ inode = [i \in Inodes |-> Empty] /\ job = [w \in Writers |-> Idle]
  BY DEF Init
<1>2. edits \in 0..MaxEdits
  BY <1>1, GzipAssumption DEF GzipAssumption
<1>3. TypeOK
  BY <1>1, <1>2 DEF TypeOK, Empty, Idle
<1>4. JobInv
  BY <1>1 DEF JobInv, Idle
<1>5. SameText /\ WritersInv /\ TmpInv /\ GzInv
  BY <1>1 DEF SameText, WritersInv, TmpInv, GzInv, Idle
<1> QED
  BY <1>3, <1>4, <1>5 DEF GzipInv

-----------------------------------------------------------------------------
(* Making a copy.                                                           *)

(* An inode stays looked after if its pieces stay, or become the file's,    *)
(* and its writers stay, or have written.                                   *)
LEMMA StaysLookedAfter ==
  ASSUME NEW i, LookedAfter(i), file' = file,
         inode'[i].head = inode[i].head \/ inode'[i].head = file,
         inode'[i].tail = inode[i].tail \/ inode'[i].tail = file,
         \A w \in Writers : job[w].inode = i /\ job[w].at = "head" =>
            \/ job'[w].inode = i /\ job'[w].at = "head"
            \/ job'[w].inode = i /\ job'[w].at = "tail" /\ inode'[i].head = file,
         \A w \in Writers : job[w].inode = i /\ job[w].at = "tail" =>
            \/ job'[w].inode = i /\ job'[w].at = "tail"
            \/ inode'[i].tail = file
  PROVE  LookedAfter(i)'
  BY DEF LookedAfter, WritesHead, WritesTail

LEMMA ReadsStep ==
  ASSUME GzipInv, NEW r \in Requests, Reads(r)
  PROVE  GzipInv'
<1> USE DEF GzipInv
<1>0. r \in Writers
  BY DEF Writers
<1>1. /\ file # None
      /\ job' = [job EXCEPT ![r] = [at |-> "read", text |-> file, inode |-> None]]
      /\ UNCHANGED <<file, gz, tmp, inode, edits, spoilt>> /\ job[r].at = "idle"
  BY DEF Reads, Answered, Idle
<1>2. \A w \in Writers : job'[w] = IF w = r THEN [at |-> "read", text |-> file, inode |-> None]
                                   ELSE job[w]
  BY <1>1 DEF TypeOK
<1>3. TypeOK' /\ JobInv'
  BY <1>0, <1>1, <1>2 DEF TypeOK, JobInv
<1>4. \A i : LookedAfter(i) => LookedAfter(i)'
  BY <1>1, <1>2 DEF LookedAfter, WritesHead, WritesTail
<1>5. ASSUME ~spoilt PROVE SameText' /\ WritersInv' /\ TmpInv' /\ GzInv'
  <2>1. SameText'
    BY <1>1, <1>2, <1>5 DEF SameText
  <2>2. WritersInv'
    BY <1>1, <1>2, <1>4, <1>5 DEF WritersInv, LookedAfter, WritesHead, WritesTail
  <2>3. TmpInv'
    BY <1>1, <1>2, <1>4, <1>5 DEF TmpInv, LookedAfter, WritesHead, WritesTail
  <2>4. GzInv'
    BY <1>1, <1>4, <1>5 DEF GzInv, LookedAfter, WritesHead, WritesTail
  <2> QED
    BY <2>1, <2>2, <2>3, <2>4
<1> QED
  BY <1>1, <1>3, <1>5

(* A writer begins a file, or truncates the one that another is at.         *)
LEMMA CreatesStep ==
  ASSUME GzipAssumption, GzipInv, NEW w \in Writers, Creates(w)
  PROVE  GzipInv'
<1> USE DEF GzipInv
<1> DEFINE i == IF tmp = None THEN CHOOSE u \in Unused : TRUE ELSE tmp
<1>1. /\ job[w].at = "read" /\ tmp' = i /\ inode' = [inode EXCEPT ![i] = Empty]
      /\ job' = [job EXCEPT ![w].at = "head", ![w].inode = i]
      /\ UNCHANGED <<file, gz, edits, spoilt>>
  BY DEF Creates
<1>2. i \in Inodes
  BY <1>1, UnusedThere DEF TypeOK
<1> HIDE DEF i
<1>3. /\ \A v \in Writers : v # w => job'[v] = job[v]
      /\ job'[w].at = "head" /\ job'[w].inode = i /\ job'[w].text = job[w].text
      /\ \A j \in Inodes : j # i => inode'[j] = inode[j]
  BY <1>1, <1>2 DEF TypeOK
<1>4. TypeOK'
  BY <1>1, <1>2 DEF TypeOK, Empty
<1>5. JobInv'
  BY <1>2, <1>3 DEF JobInv
<1>6. ASSUME NEW j \in Inodes, j # i => LookedAfter(j)
      PROVE  LookedAfter(j)'
  <2>1. CASE j = i
    BY <1>3, <2>1 DEF LookedAfter, WritesHead, WritesTail
  <2>2. CASE j # i
    BY <1>1, <1>3, <1>6, <2>2 DEF LookedAfter, WritesHead, WritesTail
  <2> QED
    BY <2>1, <2>2
<1>7. ASSUME ~spoilt PROVE SameText' /\ WritersInv' /\ TmpInv' /\ GzInv'
  <2>1. SameText'
    BY <1>1, <1>3, <1>7 DEF SameText
  <2>2. ASSUME NEW v \in Writers, job'[v].at \in {"head", "tail"}
        PROVE  /\ job'[v].inode \in Inodes
               /\ job'[v].inode # i => LookedAfter(job'[v].inode)
    BY <1>2, <1>3, <1>7, <2>2 DEF JobInv, WritersInv
  <2>3. WritersInv'
    BY <1>6, <2>2 DEF WritersInv, LookedAfter, WritesHead, WritesTail
  <2>4. TmpInv'
    <3>1. PICK j \in Inodes : j = i
      BY <1>2
    <3>2. tmp' = j /\ LookedAfter(j)'
      BY <1>1, <1>6, <3>1
    <3> QED
      BY <3>1, <3>2 DEF TmpInv, LookedAfter, WritesHead, WritesTail
  <2>5. gz' # None /\ inode'[gz'].fresh => gz \in Inodes /\ (gz # i => LookedAfter(gz))
    <3>1. gz' = gz /\ gz \in Inodes \cup {None} /\ GzInv
      BY <1>1, <1>7 DEF TypeOK
    <3>2. \A j \in Inodes : j # i => inode'[j] = inode[j]
      BY <1>3
    <3> QED
      BY <3>1, <3>2 DEF GzInv
  <2>6. GzInv'
    <3> SUFFICES ASSUME NEW j \in Inodes, j = gz', inode'[j].fresh
                 PROVE  LookedAfter(j)'
      BY <1>4 DEF GzInv, TypeOK, LookedAfter, WritesHead, WritesTail
    <3> QED
      BY <1>1, <1>6, <2>5, GzipAssumption DEF GzipAssumption
  <2> QED
    BY <2>1, <2>3, <2>4, <2>6
<1> QED
  BY <1>1, <1>4, <1>5, <1>7

(* A writer writes a piece of the file's text into its inode, wherever that *)
(* is by now.                                                               *)
LEMMA WritesStep ==
  ASSUME GzipInv, NEW w \in Writers, Writes(w)
  PROVE  GzipInv'
<1> USE DEF GzipInv
<1> DEFINE i == job[w].inode
           x == job[w].text
<1>1. /\ i \in Inodes /\ x \in Texts \cup {None} /\ job[w].at \in {"head", "tail"}
      /\ UNCHANGED <<file, gz, tmp, edits, spoilt>>
  BY DEF Writes, TypeOK, JobInv
<1>2. /\ inode' \in [Inodes -> [head : Texts \cup {None}, tail : Texts \cup {None}, fresh : BOOLEAN]]
      /\ job' \in [Writers -> [at : {"idle", "read", "head", "tail", "publish", "clean"},
                               text : Texts \cup {None}, inode : Inodes \cup {None}]]
  BY <1>1 DEF Writes, TypeOK
<1>3. /\ \A v \in Writers : v # w => job'[v] = job[v]
      /\ job'[w].inode = i /\ job'[w].text = x
      /\ \A j \in Inodes : j # i => inode'[j] = inode[j]
      /\ \/ /\ job[w].at = "head" /\ job'[w].at = "tail"
            /\ inode'[i].head = x /\ inode'[i].tail = inode[i].tail
         \/ /\ job[w].at = "tail" /\ job'[w].at = "publish"
            /\ inode'[i].tail = x /\ inode'[i].head = inode[i].head
  BY <1>1 DEF Writes, TypeOK
<1> HIDE DEF i, x
<1>4. TypeOK' /\ JobInv'
  BY <1>1, <1>2, <1>3 DEF TypeOK, JobInv
<1>5. ASSUME ~spoilt PROVE SameText' /\ WritersInv' /\ TmpInv' /\ GzInv'
  <2>1. x = file /\ LookedAfter(i)
    BY <1>1, <1>5 DEF SameText, WritersInv, i, x
  <2>2. SameText'
    BY <1>1, <1>3, <1>5 DEF SameText, x
  <2>3. ASSUME NEW j \in Inodes, LookedAfter(j)
        PROVE  LookedAfter(j)'
    <3>1. CASE j # i
      BY <1>1, <1>3, <2>3, <3>1, StaysLookedAfter DEF i
    <3>2. CASE j = i
      BY <1>1, <1>3, <2>1, <3>2, StaysLookedAfter DEF i
    <3> QED
      BY <3>1, <3>2
  <2>4. WritersInv'
    <3>1. \A v \in Writers : job'[v].at \in {"head", "tail"} =>
            job'[v].inode \in Inodes /\ LookedAfter(job'[v].inode)
      BY <1>1, <1>3, <1>5, <2>1 DEF JobInv, WritersInv
    <3> QED
      BY <2>3, <3>1 DEF WritersInv, LookedAfter, WritesHead, WritesTail
  <2>5. TmpInv'
    <3>1. tmp # None => tmp \in Inodes /\ LookedAfter(tmp)
      BY <1>1, <1>5 DEF TypeOK, TmpInv
    <3> QED
      BY <1>1, <2>3, <3>1 DEF TmpInv, LookedAfter, WritesHead, WritesTail
  <2>6. GzInv'
    <3>1. gz # None /\ inode'[gz].fresh => gz \in Inodes /\ LookedAfter(gz)
      BY <1>1, <1>3, <1>5, <2>1 DEF TypeOK, GzInv
    <3> QED
      BY <1>1, <2>3, <3>1 DEF GzInv, LookedAfter, WritesHead, WritesTail
  <2> QED
    BY <2>2, <2>4, <2>5, <2>6
<1> QED
  BY <1>1, <1>4, <1>5

(* What the temporary path names now becomes the copy.                      *)
LEMMA PublishesStep ==
  ASSUME GzipInv, NEW w \in Writers, Publishes(w)
  PROVE  GzipInv'
<1> USE DEF GzipInv
<1>1. /\ job[w].at = "publish" /\ gz' = (IF tmp = None THEN gz ELSE tmp) /\ tmp' = None
      /\ job' = [job EXCEPT ![w].at = "clean"]
      /\ UNCHANGED <<file, inode, edits, spoilt>>
  BY DEF Publishes
<1>2. /\ \A v \in Writers : v # w => job'[v] = job[v]
      /\ job'[w].at = "clean" /\ job'[w].text = job[w].text /\ job'[w].inode = job[w].inode
  BY <1>1 DEF TypeOK
<1>3. TypeOK' /\ JobInv'
  BY <1>1, <1>2 DEF TypeOK, JobInv
<1>4. \A j : LookedAfter(j) => LookedAfter(j)'
  BY <1>1, <1>2 DEF LookedAfter, WritesHead, WritesTail
<1>5. ASSUME ~spoilt PROVE SameText' /\ WritersInv' /\ TmpInv' /\ GzInv'
  <2>1. SameText' /\ TmpInv'
    BY <1>1, <1>2, <1>5 DEF SameText, TmpInv
  <2>2. WritersInv'
    BY <1>2, <1>4, <1>5 DEF WritersInv, LookedAfter, WritesHead, WritesTail
  <2>3. gz' # None /\ inode'[gz'].fresh => LookedAfter(gz')
    BY <1>1, <1>5 DEF TmpInv, GzInv
  <2>4. GzInv'
    BY <1>4, <2>3 DEF GzInv, LookedAfter, WritesHead, WritesTail
  <2> QED
    BY <2>1, <2>2, <2>4
<1> QED
  BY <1>1, <1>3, <1>5

LEMMA CleansStep ==
  ASSUME GzipInv, NEW w \in Writers, Cleans(w)
  PROVE  GzipInv'
<1> USE DEF GzipInv
<1>1. /\ job[w].at = "clean" /\ tmp' = None /\ job' = [job EXCEPT ![w] = Idle]
      /\ UNCHANGED <<file, gz, inode, edits, spoilt>>
  BY DEF Cleans
<1>2. /\ \A v \in Writers : v # w => job'[v] = job[v]
      /\ job'[w].at = "idle" /\ job'[w].text = None /\ job'[w].inode = None
  BY <1>1 DEF TypeOK, Idle
<1>3. TypeOK' /\ JobInv'
  BY <1>1, <1>2 DEF TypeOK, JobInv, Idle
<1>4. \A j : LookedAfter(j) => LookedAfter(j)'
  BY <1>1, <1>2 DEF LookedAfter, WritesHead, WritesTail
<1>5. ASSUME ~spoilt PROVE SameText' /\ WritersInv' /\ TmpInv' /\ GzInv'
  <2>1. SameText' /\ TmpInv'
    BY <1>1, <1>2, <1>5 DEF SameText, TmpInv
  <2>2. WritersInv'
    BY <1>2, <1>4, <1>5 DEF WritersInv, LookedAfter, WritesHead, WritesTail
  <2>3. GzInv'
    BY <1>1, <1>4, <1>5 DEF GzInv, LookedAfter, WritesHead, WritesTail
  <2> QED
    BY <2>1, <2>2, <2>3
<1> QED
  BY <1>1, <1>3, <1>5

-----------------------------------------------------------------------------
(* What spoils copies, and the file manager.                                *)

(* A client that goes away leaves a piece unwritten: nothing is claimed of  *)
(* what follows.                                                            *)
LEMMA DisconnectsStep ==
  ASSUME GzipInv, NEW r \in Requests, Disconnects(r)
  PROVE  GzipInv'
<1> USE DEF GzipInv
<1>1. /\ job[r].at \in {"head", "tail"} /\ job' = [job EXCEPT ![r].at = "publish"] /\ spoilt' = TRUE
      /\ UNCHANGED <<file, gz, tmp, inode, edits>>
  BY DEF Disconnects
<1>2. TypeOK' /\ JobInv'
  BY <1>1 DEF TypeOK, JobInv, Writers
<1> QED
  BY <1>1, <1>2

(* Nor is anything claimed of what is made of a wrong answer.               *)
LEMMA WrongAnswerStep ==
  ASSUME GzipInv, NEW r \in Requests, ReadsHead(r) \/ ReadsOther(r)
  PROVE  GzipInv'
<1> USE DEF GzipInv
<1>1. PICK t \in Texts \cup {None} : Answered(r, t)
  BY DEF ReadsHead, ReadsOther
<1>2. spoilt' = TRUE
  BY DEF ReadsHead, ReadsOther
<1>3. /\ job' = [job EXCEPT ![r] = [at |-> "read", text |-> t, inode |-> None]]
      /\ UNCHANGED <<file, gz, tmp, inode, edits>>
  BY <1>1 DEF Answered
<1>4. TypeOK' /\ JobInv'
  BY <1>2, <1>3 DEF TypeOK, JobInv, Writers
<1> QED
  BY <1>2, <1>4

(* The file manager gives up: that is harmless if nobody else is at work    *)
(* and what it leaves is not what is served.                                *)
LEMMA GivesUpStep ==
  ASSUME GzipInv, GivesUp
  PROVE  GzipInv'
<1> USE DEF GzipInv
<1>1. /\ job[Saver].at \in {"head", "tail"} /\ job' = [job EXCEPT ![Saver].at = "clean"]
      /\ ~spoilt' => ~spoilt /\ gz # job[Saver].inode /\ \A r \in Requests : job[r] = Idle
      /\ UNCHANGED <<file, gz, tmp, inode, edits>>
  BY DEF GivesUp
<1>2. spoilt' \in BOOLEAN
  BY DEF GivesUp, TypeOK
<1>3. /\ \A v \in Writers : v # Saver => job'[v] = job[v]
      /\ job'[Saver].at = "clean" /\ job'[Saver].text = job[Saver].text
      /\ job'[Saver].inode = job[Saver].inode /\ Saver \in Writers
  BY <1>1 DEF TypeOK, Writers
<1>4. TypeOK' /\ JobInv'
  BY <1>1, <1>2, <1>3 DEF TypeOK, JobInv
<1>5. ASSUME ~spoilt' PROVE SameText' /\ WritersInv' /\ TmpInv' /\ GzInv'
  <2>1. SameText'
    BY <1>1, <1>3, <1>5 DEF SameText
  <2>2. \A v \in Writers : job'[v].at \notin {"head", "tail", "publish"}
    BY <1>1, <1>3, <1>5 DEF Writers, Idle
  <2>3. WritersInv' /\ TmpInv'
    BY <2>2 DEF WritersInv, TmpInv
  <2>4. \A v \in Writers : job[v].at \in {"head", "tail"} => job[v].inode # gz
    BY <1>1, <1>5 DEF Writers, Idle
  <2>5. GzInv'
    BY <1>1, <1>5, <2>4 DEF GzInv, LookedAfter, WritesHead, WritesTail
  <2> QED
    BY <2>1, <2>3, <2>5
<1> QED
  BY <1>4, <1>5

(* An operation of the file manager spoils what is being made; if nothing   *)
(* is, nobody copies an old text, and what is served is older, or gone.     *)
LEMMA FileSteps ==
  ASSUME GzipAssumption, GzipInv,
         \/ \E t \in Texts : SaveFile(t) \/ ExtractZip(t) \/ RenameFile(t)
         \/ DeleteFile
  PROVE  GzipInv'
<1> USE DEF GzipInv
<1>0. \/ \E t \in Texts : SaveFile(t) \/ ExtractZip(t) \/ RenameFile(t)
      \/ DeleteFile
  OBVIOUS
<1>1. edits' \in 0..MaxEdits /\ UNCHANGED tmp
  <2>1. edits < MaxEdits /\ edits' = edits + 1 /\ UNCHANGED tmp
    BY <1>0 DEF SaveFile, ExtractZip, RenameFile, DeleteFile, Edits
  <2> QED
    BY <2>1, GzipAssumption DEF TypeOK, GzipAssumption
<1>2. spoilt' \in BOOLEAN /\ (~spoilt' => ~spoilt /\ \A w \in Writers : job[w].at = "idle")
  <2>1. spoilt' = TRUE \/ spoilt' = (spoilt \/ ~Quiet)
    BY <1>0 DEF SaveFile, ExtractZip, RenameFile, DeleteFile
  <2>2. spoilt' \in BOOLEAN /\ (~spoilt' => ~spoilt /\ Quiet)
    BY <2>1
  <2>3. Quiet => \A w \in Writers : job[w].at = "idle"
    BY DEF Quiet, Idle
  <2> QED
    BY <2>2, <2>3
<1>3. CASE DeleteFile
  <2>1. /\ file' = None /\ gz' = None /\ UNCHANGED <<inode, job>>
    BY <1>3 DEF DeleteFile
  <2>2. TypeOK' /\ JobInv'
    BY <1>1, <1>2, <2>1 DEF TypeOK, JobInv
  <2>3. ~spoilt' => SameText' /\ WritersInv' /\ TmpInv' /\ GzInv'
    BY <1>2, <2>1 DEF SameText, WritersInv, TmpInv, GzInv
  <2> QED
    BY <2>2, <2>3
<1>4. ASSUME NEW t \in Texts, SaveFile(t) \/ ExtractZip(t) \/ RenameFile(t) PROVE GzipInv'
  <2>1. PICK b \in BOOLEAN : /\ inode' = [i \in Inodes |-> [inode[i] EXCEPT !.fresh = b]]
                             /\ b => spoilt'
    <3>1. CASE SaveFile(t) \/ ExtractZip(t)
      <4>1. CopiesFresh(FALSE)
        BY <3>1 DEF SaveFile, ExtractZip
      <4> QED
        BY <4>1 DEF CopiesFresh
    <3>2. CASE RenameFile(t)
      <4>1. spoilt' = TRUE /\ \E b \in BOOLEAN : CopiesFresh(b)
        BY <3>2 DEF RenameFile
      <4> QED
        BY <4>1 DEF CopiesFresh
    <3> QED
      BY <1>4, <3>1, <3>2
  <2>2. file' = t /\ t # None /\ UNCHANGED gz
    BY <1>4, GzipAssumption DEF SaveFile, ExtractZip, RenameFile, GzipAssumption
  <2>3. /\ job' \in [Writers -> [at : {"idle", "read", "head", "tail", "publish", "clean"},
                                 text : Texts \cup {None}, inode : Inodes \cup {None}]]
        /\ \A w \in Writers : \/ job'[w] = job[w]
                              \/ job'[w] = [at |-> "read", text |-> t, inode |-> None]
    <3>1. \/ job' = job
          \/ job' = [job EXCEPT ![Saver] = [at |-> "read", text |-> t, inode |-> None]]
      BY <1>4 DEF SaveFile, ExtractZip, RenameFile
    <3> QED
      BY <3>1 DEF TypeOK
  <2>4. TypeOK' /\ JobInv'
    <3>1. inode' \in [Inodes -> [head : Texts \cup {None}, tail : Texts \cup {None}, fresh : BOOLEAN]]
      BY <2>1 DEF TypeOK
    <3>2. TypeOK'
      BY <1>1, <1>2, <2>2, <2>3, <3>1 DEF TypeOK
    <3> QED
      BY <2>3, <3>2 DEF JobInv
  <2>5. ASSUME ~spoilt' PROVE SameText' /\ WritersInv' /\ TmpInv' /\ GzInv'
    <3>1. \A w \in Writers : job'[w].at # "idle" => job'[w].at = "read" /\ job'[w].text = t
      BY <1>2, <2>3, <2>5
    <3>2. SameText' /\ WritersInv' /\ TmpInv'
      BY <2>2, <3>1 DEF SameText, WritersInv, TmpInv
    <3>3. \A i \in Inodes : ~inode'[i].fresh
      BY <2>1, <2>5 DEF TypeOK
    <3>4. GzInv'
      BY <2>2, <3>3 DEF GzInv, TypeOK
    <3> QED
      BY <3>2, <3>4
  <2> QED
    BY <2>4, <2>5
<1> QED
  BY <1>3, <1>4

-----------------------------------------------------------------------------
(* The theorems.                                                            *)

LEMMA GzipStep ==
  ASSUME GzipAssumption, GzipInv, [Next]_vars
  PROVE  GzipInv'
<1>1. CASE UNCHANGED vars
  BY <1>1 DEF vars, GzipInv, TypeOK, JobInv, SameText, WritersInv, TmpInv, GzInv, LookedAfter,
              WritesHead, WritesTail
<1>2. CASE Next
  BY <1>2, ReadsStep, CreatesStep, WritesStep, PublishesStep, CleansStep, DisconnectsStep,
     WrongAnswerStep, GivesUpStep, FileSteps DEF Next
<1> QED
  BY <1>1, <1>2

LEMMA GzipInvariant == ASSUME GzipAssumption PROVE Spec => []GzipInv
<1>1. Init => GzipInv
  BY GzipInit
<1>2. GzipInv /\ [Next]_vars => GzipInv'
  BY GzipStep
<1> QED
  BY <1>1, <1>2, PTL DEF Spec

(* Once nobody writes, a copy that is served is the whole file.             *)
LEMMA GzipInvIsTrue == GzipInv => CopyIsTrueUnlessSpoilt
<1> SUFFICES ASSUME GzipInv, ~spoilt, Quiet, isGzValid
             PROVE  inode[gz].head = file /\ inode[gz].tail = file
  BY DEF CopyIsTrueUnlessSpoilt, CopyIsTrue
<1>1. \A w \in Writers : job[w].at = "idle"
  BY DEF Quiet, Idle
<1>2. LookedAfter(gz)
  BY DEF GzipInv, GzInv, isGzValid
<1> QED
  BY <1>1, <1>2 DEF LookedAfter, WritesHead, WritesTail

(* For any requests beside the file manager and any texts: whatever writers *)
(* do to each other through <file>.gz.tmp, what the proxy serves once they  *)
(* are done is the whole file, unless a copy was spoilt.                    *)
THEOREM CopyIsWhole == ASSUME GzipAssumption PROVE Spec => []CopyIsTrueUnlessSpoilt
  BY GzipInvariant, GzipInvIsTrue, PTL
=============================================================================
