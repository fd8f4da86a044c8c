---------------------------- MODULE ServerProofs -----------------------------
(***************************************************************************)
(* The host key, for every set of process ids and any number of starts:    *)
(* Server implements HostKey, and KeyInv is an invariant of it.  Then the  *)
(* message log, for any authors, any length of the log and of the room and *)
(* any number of crashes: AuthorOrder, AckedSaved and ReadersAgree are     *)
(* invariants of Server, and its steps satisfy RestartShowsAcked.          *)
(***************************************************************************)
EXTENDS Server, FiniteSetTheorems, SequenceTheorems, WellFoundedInduction, TLAPS

(* An absent file is a file.                                               *)
LEMMA NoFileType == NoFile \in Files /\ NoFile.what = "none" /\ NoFile.open = FALSE
  BY HostKeyAssumption DEF NoFile, Files

(* A step that ends a process, and leaves host_key and the other files.    *)
LEMMA GoneStep ==
    ASSUME KeyInv, NEW p \in Proc, Gone(p), UNCHANGED <<alone, keyFile, starts, served>>,
           temp' = temp \/ temp' = [temp EXCEPT ![TempName(p)] = NoFile]
    PROVE  KeyInv'
<1> USE DEF KeyInv, KeyTypeOK, TempName
<1>1. /\ step'[p] = "off"
      /\ \A q \in Proc : q # p => step'[q] = step[q]
  BY DEF Gone
<1>2. temp' \in [Proc -> Files] /\ \A q \in Proc : temp'[q] \in {temp[q], NoFile}
                                 /\ (q # p => temp'[q] = temp[q])
  BY NoFileType
<1>3. KeyTypeOK'
  <2>1. 0 \in 0 .. MaxStarts
    BY HostKeyAssumption
  <2>2. born' \in [Proc -> 0 .. MaxStarts]
    BY <2>1 DEF Gone
  <2>3. step' \in [Proc -> {"off", "load", "stat", "unlink", "fix", "generate", "write",
                           "rename", "listen", "serving"}]
    BY DEF Gone
  <2> QED BY <1>2, <2>2, <2>3
<1>4. FilesInv'
  BY <1>1, <1>2, NoFileType DEF FilesInv
<1>5. LoneInv'
  BY <1>1 DEF LoneInv
<1> QED BY <1>3, <1>4, <1>5

(* The initial files.                                                      *)
LEMMA KeyInitInv == KeyInit => KeyInv
<1> SUFFICES ASSUME KeyInit PROVE KeyInv
  OBVIOUS
<1>1. ASSUME NEW f \in FoundFiles
      PROVE  f \in Files /\ f.what # "partial" /\ f.id = 0
  <2>1. CASE f = NoFile
    BY <2>1, NoFileType DEF NoFile
  <2>2. 0 \in 0 .. MaxStarts
    BY HostKeyAssumption
  <2>3. CASE f \in [what : {"empty", "huge"}, id : {0}, open : {FALSE}]
    BY <2>2, <2>3 DEF Files
  <2>4. CASE f \in [what : {"key"}, id : {0}, open : BOOLEAN]
    BY <2>2, <2>4 DEF Files
  <2> QED BY <2>1, <2>3, <2>4 DEF FoundFiles
<1>2. KeyTypeOK
  BY <1>1, NoFileType, HostKeyAssumption DEF KeyInit, KeyTypeOK
<1>3. FilesInv
  BY <1>1, NoFileType DEF KeyInit, FilesInv
<1>4. LoneInv
  BY DEF KeyInit, LoneInv
<1> QED BY <1>2, <1>3, <1>4 DEF KeyInv

(* Every system call of setup_host_key keeps the invariant.                *)
LEMMA SetupInv ==
    ASSUME KeyInv, NEW p \in Proc, Setup(p)
    PROVE  KeyInv'
<1> USE DEF KeyInv
<1>1. CASE Stat(p)
  <2>1. /\ step'[p] \in {"generate", "unlink", "fix", "listen"}
        /\ keyFile.what = "key" => step'[p] \in {"fix", "listen"}
        /\ step[p] = "stat"
        /\ \A q \in Proc : q # p => step'[q] = step[q]
        /\ step' \in [Proc -> {"off", "load", "stat", "unlink", "fix", "generate", "write",
                               "rename", "listen", "serving"}]
    BY <1>1 DEF Stat, At, KeyTypeOK
  <2>2. UNCHANGED <<alone, keyFile, temp, born, starts, served>>
    BY <1>1 DEF Stat
  <2>3. KeyTypeOK'
    BY <2>1, <2>2 DEF KeyTypeOK
  <2>4. FilesInv'
    BY <2>1, <2>2 DEF FilesInv
  <2>5. LoneInv'
    BY <2>1, <2>2 DEF LoneInv
  <2> QED BY <2>3, <2>4, <2>5
<1>2. CASE Unlink(p)
  <2>1. KeyTypeOK'
    BY <1>2, NoFileType DEF Unlink, At, KeyTypeOK
  <2>2. FilesInv'
    BY <1>2, NoFileType DEF Unlink, At, KeyTypeOK, FilesInv
  <2>3. LoneInv'
    BY <1>2 DEF Unlink, At, KeyTypeOK, LoneInv
  <2> QED BY <2>1, <2>2, <2>3
<1>3. CASE FixMode(p)
  <2>1. PICK b \in {keyFile.open, FALSE} : keyFile' = [keyFile EXCEPT !.open = b]
    BY <1>3 DEF FixMode
  <2>2. /\ keyFile' \in Files /\ keyFile'.what = keyFile.what
        /\ keyFile'.id = keyFile.id /\ (keyFile'.open => keyFile.open)
    BY <2>1 DEF KeyTypeOK, Files
  <2>3. KeyTypeOK'
    BY <1>3, <2>2 DEF FixMode, At, KeyTypeOK
  <2>4. FilesInv'
    BY <1>3, <2>2 DEF FixMode, At, KeyTypeOK, FilesInv
  <2>5. LoneInv'
    BY <1>3, <2>2 DEF FixMode, At, KeyTypeOK, LoneInv
  <2> QED BY <2>3, <2>4, <2>5
<1>4. CASE ExportOpen(p)
  <2>1. KeyTypeOK'
    BY <1>4 DEF ExportOpen, At, KeyTypeOK, Files, TempName
  <2>2. FilesInv'
    BY <1>4 DEF ExportOpen, At, KeyTypeOK, FilesInv, TempName
  <2>3. LoneInv'
    BY <1>4 DEF ExportOpen, At, KeyTypeOK, LoneInv
  <2> QED BY <2>1, <2>2, <2>3
<1>5. CASE ExportWrite(p)
  <2>1. /\ temp' \in [Proc -> Files] /\ temp'[p].what = "key" /\ temp'[p].open = temp[p].open
        /\ \A q \in Proc : q # p => temp'[q] = temp[q]
    BY <1>5 DEF ExportWrite, KeyTypeOK, Files, TempName
  <2>2. KeyTypeOK'
    BY <1>5, <2>1 DEF ExportWrite, At, KeyTypeOK
  <2>3. FilesInv'
    BY <1>5, <2>1 DEF ExportWrite, At, KeyTypeOK, FilesInv
  <2>4. LoneInv'
    BY <1>5 DEF ExportWrite, At, KeyTypeOK, LoneInv
  <2> QED BY <2>2, <2>3, <2>4
<1>6. CASE Rename(p)
  <2>1. /\ keyFile' \in Files /\ keyFile'.what = "key" /\ keyFile'.open = FALSE
    BY <1>6 DEF Rename, At, KeyTypeOK, Files, FilesInv, TempName
  <2>2. temp' \in [Proc -> Files] /\ temp'[p].open = FALSE
        /\ \A q \in Proc : q # p => temp'[q] = temp[q]
    BY <1>6, NoFileType DEF Rename, KeyTypeOK, TempName
  <2>3. KeyTypeOK'
    BY <1>6, <2>1, <2>2 DEF Rename, At, KeyTypeOK
  <2>4. FilesInv'
    BY <1>6, <2>1, <2>2 DEF Rename, At, KeyTypeOK, FilesInv
  <2>5. LoneInv'
    BY <1>6 DEF Rename, At, KeyTypeOK, LoneInv
  <2> QED BY <2>3, <2>4, <2>5
<1>7. CASE RenameFails(p)
  BY <1>7, GoneStep DEF RenameFails
<1>8. CASE GiveUp(p)
  BY <1>8, GoneStep DEF GiveUp
<1> QED BY <1>1, <1>2, <1>3, <1>4, <1>5, <1>6, <1>7, <1>8 DEF Setup

(* Starting, serving and ending keep the invariant.                        *)
LEMMA KeyNextInv == KeyInv /\ [KeyNext]_keyVars => KeyInv'
<1> SUFFICES ASSUME KeyInv, [KeyNext]_keyVars PROVE KeyInv'
  OBVIOUS
<1> USE DEF KeyInv
<1>1. ASSUME NEW p \in Proc, Start(p) PROVE KeyInv'
  <2>1. KeyTypeOK'
    BY <1>1, HostKeyAssumption DEF Start, At, KeyTypeOK
  <2>2. FilesInv'
    BY <1>1 DEF Start, At, KeyTypeOK, FilesInv
  <2>3. LoneInv'
    BY <1>1 DEF Start, At, KeyTypeOK, LoneInv
  <2> QED BY <2>1, <2>2, <2>3
<1>2. ASSUME NEW p \in Proc, LogLoaded(p) PROVE KeyInv'
  <2>1. KeyTypeOK' /\ FilesInv'
    BY <1>2 DEF LogLoaded, At, KeyTypeOK, FilesInv
  <2>2. LoneInv'
    BY <1>2 DEF LogLoaded, At, KeyTypeOK, LoneInv
  <2> QED BY <2>1, <2>2
<1>3. ASSUME NEW p \in Proc, Listen(p) PROVE KeyInv'
  <2>1. keyFile.id \in 0 .. MaxStarts
    BY DEF KeyTypeOK, Files
  <2>2. KeyTypeOK' /\ FilesInv'
    BY <1>3, <2>1 DEF Listen, At, KeyTypeOK, FilesInv
  <2>3. LoneInv'
    BY <1>3 DEF Listen, At, KeyTypeOK, LoneInv
  <2> QED BY <2>2, <2>3
<1>4. ASSUME NEW p \in Proc, Stop(p) PROVE KeyInv'
  BY <1>4, GoneStep DEF Stop
<1>5. CASE UNCHANGED keyVars
  BY <1>5 DEF keyVars, KeyTypeOK, FilesInv, LoneInv
<1> QED BY <1>1, <1>2, <1>3, <1>4, <1>5, SetupInv DEF KeyNext

(* KeyInv is enough.                                                       *)
LEMMA KeyInvSuffices == KeyInv => HostKeyWhole /\ KeyKept
<1> SUFFICES ASSUME KeyInv PROVE HostKeyWhole /\ KeyKept
  OBVIOUS
<1>1. HostKeyWhole
  BY DEF KeyInv, FilesInv, HostKeyWhole
<1>2. ASSUME alone PROVE Cardinality(served) <= 1
  <2>1. CASE served = {}
    BY <2>1, FS_EmptySet
  <2>2. CASE served # {}
    <3>1. served = {keyFile.id}
      BY <1>2, <2>2 DEF KeyInv, LoneInv
    <3> QED BY <3>1, FS_Singleton
  <2> QED BY <2>1, <2>2
<1> QED BY <1>1, <1>2 DEF KeyKept

-----------------------------------------------------------------------------

(* What a step of Server does with the key is a step of HostKey.           *)
LEMMA ServerStepsKey == [ServerNext]_serverVars => [KeyNext]_keyVars
<1> SUFFICES ASSUME [ServerNext]_serverVars PROVE [KeyNext]_keyVars
  OBVIOUS
<1>1. ASSUME NEW p \in Proc, StartProcess(p) PROVE KeyNext
  BY <1>1 DEF StartProcess, KeyNext
<1>2. ASSUME NEW p \in Proc, RoomCreate(p) PROVE KeyNext
  BY <1>2 DEF RoomCreate, KeyNext
<1>3. ASSUME NEW p \in Proc, SetupHostKey(p) PROVE KeyNext
  BY <1>3 DEF SetupHostKey, KeyNext
<1>4. ASSUME NEW p \in Proc, Serve(p) PROVE KeyNext
  BY <1>4 DEF Serve, KeyNext
<1>5. ASSUME NEW p \in Proc, EndServer(p) PROVE KeyNext
  BY <1>5 DEF EndServer, KeyNext
<1>6. ASSUME NEW a \in Author, PublishMessage(a) PROVE UNCHANGED keyVars
  BY <1>6 DEF PublishMessage
<1>7. CASE UNCHANGED serverVars
  BY <1>7 DEF serverVars
<1> QED BY <1>1, <1>2, <1>3, <1>4, <1>5, <1>6, <1>7 DEF ServerNext

(* The whole server sets up its key as HostKey says: loading the log,      *)
(* serving and publishing messages are steps of HostKey or none of its.    *)
THEOREM ServerImplementsHostKey == ServerSpec => KeySpec
<1>1. ServerInit => KeyInit
  BY DEF ServerInit
<1> QED BY <1>1, ServerStepsKey, PTL DEF ServerSpec, KeySpec

(* host_key is never half a key or a new key that others can read, however *)
(* many servers start at once and wherever they end.                       *)
THEOREM HostKeyWholeAlways == ServerSpec => []HostKeyWhole
<1>1. KeySpec => []KeyInv
  BY KeyInitInv, KeyNextInv, PTL DEF KeySpec
<1> QED BY <1>1, ServerImplementsHostKey, KeyInvSuffices, PTL

(* Servers started one after the other show their clients one host key.    *)
THEOREM KeyKeptAlways == ServerSpec => []KeyKept
<1>1. KeySpec => []KeyInv
  BY KeyInitInv, KeyNextInv, PTL DEF KeySpec
<1> QED BY <1>1, ServerImplementsHostKey, KeyInvSuffices, PTL

-----------------------------------------------------------------------------
(* Induction, for the scan of a file.                                      *)

LEMMA LeastNatural ==
    ASSUME NEW U \in SUBSET Nat, U # {}
    PROVE  \E k \in U : \A j \in U : k <= j
<1> DEFINE R == OpToRel(<, Nat)
<1>1. IsWellFoundedOn(R, Nat)
  BY NatLessThanWellFounded
<1>2. \A i, j \in Nat : i < j => <<i, j>> \in R
  BY DEF OpToRel
<1> HIDE DEF R
<1>3. \E k \in U : \A j \in U : ~(<<j, k>> \in R)
  BY <1>1, WFMin
<1>4. PICK k \in U : \A j \in U : ~(<<j, k>> \in R)
  BY <1>3
<1>5. ASSUME NEW j \in U
      PROVE  k <= j
  <2>1. k \in Nat /\ j \in Nat /\ ~(j < k)
    BY <1>2, <1>4, <1>5
  <2> QED BY <2>1
<1> QED BY <1>5

(* What holds at 0 and passes on from i to i + 1 holds up to n.            *)
LEMMA IndexInduction ==
    ASSUME NEW n \in Nat, NEW T \in SUBSET (0 .. n), 0 \in T,
           \A i \in T : i < n => i + 1 \in T
    PROVE  \A i \in 0 .. n : i \in T
<1>1. SUFFICES ASSUME NEW m \in 0 .. n, m \notin T
               PROVE  FALSE
  OBVIOUS
<1> DEFINE U == {i \in Nat : i <= n /\ i \notin T}
<1>2. U \in SUBSET Nat /\ U # {}
  BY <1>1
<1>3. PICK k \in U : \A j \in U : k <= j
  BY <1>2, LeastNatural
<1>4. k # 0 /\ k - 1 \in 0 .. n /\ k - 1 \in T
  BY <1>3
<1> QED BY <1>3, <1>4

-----------------------------------------------------------------------------
(* Without, the line by line scan, and Valid.                              *)

ScanStep(s, K, f, i) ==
    IF i = 0 THEN <<>> ELSE IF s[i] \in K THEN f[i - 1] ELSE Append(f[i - 1], s[i])

Scan(s, K) == CHOOSE f : f = [i \in 0 .. Len(s) |-> ScanStep(s, K, f, i)]

LEMMA WithoutIsScan ==
    ASSUME NEW s, NEW K
    PROVE  Without(s, K) = Scan(s, K)[Len(s)]
  BY DEF Without, Scan, ScanStep

(* The recursive function of Without exists: its values up to n + 1 follow *)
(* from those up to n.                                                     *)
LEMMA ScanExists ==
    ASSUME NEW s, NEW K, Len(s) \in Nat
    PROVE  Scan(s, K) = [i \in 0 .. Len(s) |-> ScanStep(s, K, Scan(s, K), i)]
<1> DEFINE T == {n \in 0 .. Len(s) : \E f : f = [i \in 0 .. n |-> ScanStep(s, K, f, i)]}
<1>1. 0 \in T
  <2> DEFINE f == [i \in 0 .. 0 |-> <<>>]
  <2>1. f = [i \in 0 .. 0 |-> ScanStep(s, K, f, i)]
    BY DEF ScanStep
  <2>2. 0 \in 0 .. Len(s)
    OBVIOUS
  <2> QED BY <2>1, <2>2
<1>2. ASSUME NEW n \in T, n < Len(s)
      PROVE  n + 1 \in T
  <2>1. n \in 0 .. Len(s) /\ n + 1 \in 0 .. Len(s)
    BY <1>2
  <2>2. PICK f : f = [i \in 0 .. n |-> ScanStep(s, K, f, i)]
    BY <1>2
  <2> DEFINE g == [i \in 0 .. n + 1 |-> IF i = n + 1 THEN ScanStep(s, K, f, i) ELSE f[i]]
  <2>3. ASSUME NEW i \in 0 .. n + 1
        PROVE  g[i] = ScanStep(s, K, g, i)
    <3>1. g[i] = ScanStep(s, K, f, i)
      BY <2>1, <2>2, <2>3
    <3>2. CASE i = 0
      BY <3>1, <3>2 DEF ScanStep
    <3>3. CASE i # 0
      <4>1. i - 1 \in 0 .. n + 1 /\ i - 1 # n + 1
        BY <2>1, <2>3, <3>3
      <4>2. g[i - 1] = f[i - 1]
        BY <4>1
      <4> HIDE DEF g
      <4> QED BY <3>1, <3>3, <4>2 DEF ScanStep
    <3> QED BY <3>2, <3>3
  <2>4. g = [i \in 0 .. n + 1 |-> g[i]]
    OBVIOUS
  <2> HIDE DEF g
  <2>5. g = [i \in 0 .. n + 1 |-> ScanStep(s, K, g, i)]
    BY <2>3, <2>4
  <2> QED BY <2>1, <2>5
<1> HIDE DEF T
<1>3. T \in SUBSET (0 .. Len(s))
  BY DEF T
<1>4. Len(s) \in T
  <2>1. \A i \in 0 .. Len(s) : i \in T
    BY <1>1, <1>2, <1>3, IndexInduction
  <2> QED BY <2>1
<1>5. \E f : f = [i \in 0 .. Len(s) |-> ScanStep(s, K, f, i)]
  BY <1>4 DEF T
<1> QED BY <1>5 DEF Scan

LEMMA ScanSteps ==
    ASSUME NEW s, NEW K, Len(s) \in Nat
    PROVE  /\ Scan(s, K)[0] = <<>>
           /\ \A i \in 1 .. Len(s) :
                 /\ s[i] \in K => Scan(s, K)[i] = Scan(s, K)[i - 1]
                 /\ s[i] \notin K => Scan(s, K)[i] = Append(Scan(s, K)[i - 1], s[i])
<1>1. \A i \in 0 .. Len(s) : Scan(s, K)[i] = ScanStep(s, K, Scan(s, K), i)
  BY ScanExists
<1>2. ScanStep(s, K, Scan(s, K), 0) = <<>>
  BY DEF ScanStep
<1>3. ASSUME NEW i \in 1 .. Len(s)
      PROVE  /\ i \in 0 .. Len(s) /\ i # 0
             /\ s[i] \in K => ScanStep(s, K, Scan(s, K), i) = Scan(s, K)[i - 1]
             /\ s[i] \notin K => ScanStep(s, K, Scan(s, K), i) = Append(Scan(s, K)[i - 1], s[i])
  BY DEF ScanStep
<1> QED BY <1>1, <1>2, <1>3

(* A scan depends on what it has read only.                                *)
LEMMA ScanPrefix ==
    ASSUME NEW s, NEW t, NEW K, Len(s) \in Nat, Len(t) \in Nat, Len(s) <= Len(t),
           \A i \in 1 .. Len(s) : t[i] = s[i]
    PROVE  \A i \in 0 .. Len(s) : Scan(t, K)[i] = Scan(s, K)[i]
<1> DEFINE T == {i \in 0 .. Len(s) : Scan(t, K)[i] = Scan(s, K)[i]}
<1>1. 0 \in T
  BY ScanSteps
<1>2. ASSUME NEW i \in T, i < Len(s)
      PROVE  i + 1 \in T
  <2>1. /\ i + 1 \in 1 .. Len(s) /\ i + 1 \in 1 .. Len(t) /\ i + 1 \in 0 .. Len(s)
        /\ (i + 1) - 1 = i
    BY <1>2
  <2>2. Scan(t, K)[i] = Scan(s, K)[i] /\ t[i + 1] = s[i + 1]
    BY <1>2, <2>1
  <2>3. Scan(t, K)[i + 1] = Scan(s, K)[i + 1]
    <3>1. CASE s[i + 1] \in K
      BY <2>1, <2>2, <3>1, ScanSteps
    <3>2. CASE s[i + 1] \notin K
      <4>1. Scan(s, K)[i + 1] = Append(Scan(s, K)[(i + 1) - 1], s[i + 1])
        BY <2>1, <3>2, ScanSteps
      <4>2. Scan(t, K)[i + 1] = Append(Scan(t, K)[(i + 1) - 1], t[i + 1])
        BY <2>1, <2>2, <3>2, ScanSteps
      <4>3. Scan(t, K)[(i + 1) - 1] = Scan(s, K)[(i + 1) - 1]
        BY <2>1, <2>2
      <4> QED BY <2>2, <4>1, <4>2, <4>3
    <3> QED BY <3>1, <3>2
  <2> QED BY <2>1, <2>3
<1> HIDE DEF T
<1>3. T \in SUBSET (0 .. Len(s))
  BY DEF T
<1>4. \A i \in 0 .. Len(s) : i \in T
  BY <1>1, <1>2, <1>3, IndexInduction
<1> QED BY <1>4 DEF T

(* What a scan keeps are lines of the file, and none of those it skips.    *)
ReadFrom(r, s) ==
    /\ Len(r) \in Nat /\ Len(r) <= Len(s)
    /\ \A k \in 1 .. Len(r) : \E i \in 1 .. Len(s) : r[k] = s[i]

LEMMA WithoutType ==
    ASSUME NEW E, NEW K, NEW s \in Seq(E)
    PROVE  Without(s, K) \in Seq(E \ K) /\ ReadFrom(Without(s, K), s)
<1>1. Len(s) \in Nat /\ \A i \in 1 .. Len(s) : s[i] \in E
  BY LenProperties, ElementOfSeq
<1> DEFINE Kept(i) ==
              /\ Scan(s, K)[i] \in Seq(E \ K)
              /\ Len(Scan(s, K)[i]) \in Nat /\ Len(Scan(s, K)[i]) <= i
              /\ \A k \in 1 .. Len(Scan(s, K)[i]) : \E j \in 1 .. Len(s) : Scan(s, K)[i][k] = s[j]
           T == {i \in 0 .. Len(s) : Kept(i)}
<1>2. 0 \in T
  <2>1. Scan(s, K)[0] = <<>> /\ <<>> \in Seq(E \ K) /\ Len(<<>>) = 0
    BY <1>1, ScanSteps, EmptySeq
  <2>2. Scan(s, K)[0] \in Seq(E \ K) /\ Len(Scan(s, K)[0]) = 0
    BY <2>1
  <2>3. Kept(0)
    BY <2>2
  <2> QED BY <1>1, <2>3
<1>3. ASSUME NEW i \in T, i < Len(s)
      PROVE  i + 1 \in T
  <2>1. i + 1 \in 1 .. Len(s) /\ i + 1 \in 0 .. Len(s) /\ (i + 1) - 1 = i /\ i \in Nat
    BY <1>1, <1>3
  <2>2. Kept(i)
    BY <1>3
  <2> HIDE DEF T
  <2> DEFINE u == Scan(s, K)[i]
             v == Scan(s, K)[i + 1]
             m == s[i + 1]
  <2>3. /\ m \in K => v = u
        /\ m \notin K => v = Append(u, m)
    BY <1>1, <2>1, ScanSteps
  <2>4. /\ u \in Seq(E \ K) /\ Len(u) \in Nat /\ Len(u) <= i
        /\ \A k \in 1 .. Len(u) : \E j \in 1 .. Len(s) : u[k] = s[j]
    BY <2>2
  <2> HIDE DEF u, v
  <2>5. /\ v \in Seq(E \ K) /\ Len(v) \in Nat /\ Len(v) <= i + 1
        /\ \A k \in 1 .. Len(v) : \E j \in 1 .. Len(s) : v[k] = s[j]
    <3>1. CASE m \in K
      BY <2>1, <2>3, <2>4, <3>1
    <3>2. CASE m \notin K
      <4>1. m \in E \ K
        BY <1>1, <2>1, <3>2
      <4> HIDE DEF m
      <4>2. /\ v \in Seq(E \ K) /\ Len(v) = Len(u) + 1 /\ v[Len(u) + 1] = m
            /\ \A k \in 1 .. Len(u) : v[k] = u[k]
        <5>1. u \in Seq(E \ K) /\ v = Append(u, m)
          BY <2>3, <2>4, <3>2
        <5> QED BY <4>1, <5>1, AppendProperties
      <4>3. \A k \in 1 .. Len(v) : k \in 1 .. Len(u) \/ k = Len(u) + 1
        BY <2>4, <4>2
      <4>4. \A k \in 1 .. Len(v) : \E j \in 1 .. Len(s) : v[k] = s[j]
        BY <2>1, <2>4, <4>2, <4>3 DEF m
      <4> QED BY <2>1, <2>4, <4>2, <4>4
    <3> QED BY <3>1, <3>2
  <2>6. Kept(i + 1)
    BY <2>5 DEF v
  <2> QED BY <2>1, <2>6 DEF T
<1>4. T \in SUBSET (0 .. Len(s))
  OBVIOUS
<1> HIDE DEF T
<1>5. \A i \in 0 .. Len(s) : i \in T
  BY <1>1, <1>2, <1>3, <1>4, IndexInduction
<1>6. Kept(Len(s))
  BY <1>1, <1>5 DEF T
<1> QED BY <1>6, WithoutIsScan DEF ReadFrom

LEMMA WithoutEmpty == ASSUME NEW K PROVE Without(<<>>, K) = <<>>
<1>1. Len(<<>>) = 0
  BY EmptySeq
<1> QED BY <1>1, WithoutIsScan, ScanSteps

(* One more line.                                                          *)
LEMMA WithoutAppend ==
    ASSUME NEW E, NEW K, NEW s \in Seq(E), NEW m \in E
    PROVE  /\ m \in K => Without(Append(s, m), K) = Without(s, K)
           /\ m \notin K => Without(Append(s, m), K) = Append(Without(s, K), m)
<1> DEFINE t == Append(s, m)
           n == Len(s)
<1>1. /\ n \in Nat /\ Len(t) = n + 1 /\ t[n + 1] = m
      /\ \A i \in 1 .. n : t[i] = s[i]
  BY LenProperties, AppendProperties
<1> HIDE DEF t
<1>2. Scan(t, K)[n] = Scan(s, K)[n]
  <2>1. \A i \in 0 .. Len(s) : Scan(t, K)[i] = Scan(s, K)[i]
    BY <1>1, ScanPrefix
  <2> QED BY <1>1, <2>1
<1>3. n + 1 \in 1 .. Len(t) /\ (n + 1) - 1 = n
  BY <1>1
<1>4. /\ m \in K => Scan(t, K)[n + 1] = Scan(t, K)[n]
      /\ m \notin K => Scan(t, K)[n + 1] = Append(Scan(t, K)[n], m)
  <2>1. Len(t) \in Nat
    BY <1>1
  <2>2. \A i \in 1 .. Len(t) :
           /\ t[i] \in K => Scan(t, K)[i] = Scan(t, K)[i - 1]
           /\ t[i] \notin K => Scan(t, K)[i] = Append(Scan(t, K)[i - 1], t[i])
    BY <2>1, ScanSteps
  <2> QED BY <1>1, <1>3, <2>2
<1>5. Without(t, K) = Scan(t, K)[n + 1] /\ Without(s, K) = Scan(s, K)[n]
  BY <1>1, WithoutIsScan
<1> QED BY <1>2, <1>4, <1>5 DEF t

(* A file without bad lines.                                               *)
LEMMA WithoutWhole ==
    ASSUME NEW E, NEW K, NEW s \in Seq(E \ K)
    PROVE  Without(s, K) = s
<1>1. Len(s) \in Nat /\ \A i \in 1 .. Len(s) : s[i] \in E \ K /\ s[i] \notin K
  <2>1. Len(s) \in Nat /\ \A i \in 1 .. Len(s) : s[i] \in E \ K
    BY LenProperties, ElementOfSeq
  <2> QED BY <2>1
<1> DEFINE Whole(i) ==
              /\ Scan(s, K)[i] \in Seq(E \ K) /\ Len(Scan(s, K)[i]) = i
              /\ \A k \in 1 .. i : Scan(s, K)[i][k] = s[k]
           T == {i \in 0 .. Len(s) : Whole(i)}
<1>2. 0 \in T
  <2>1. Scan(s, K)[0] = <<>> /\ <<>> \in Seq(E \ K) /\ Len(<<>>) = 0
    BY <1>1, ScanSteps, EmptySeq
  <2>2. Scan(s, K)[0] \in Seq(E \ K) /\ Len(Scan(s, K)[0]) = 0
    BY <2>1
  <2>3. Whole(0)
    BY <2>2
  <2> QED BY <1>1, <2>3
<1>3. ASSUME NEW i \in T, i < Len(s)
      PROVE  i + 1 \in T
  <2>1. i + 1 \in 1 .. Len(s) /\ i + 1 \in 0 .. Len(s) /\ (i + 1) - 1 = i /\ i \in Nat
    BY <1>1, <1>3
  <2>2. Whole(i)
    BY <1>3
  <2> HIDE DEF T
  <2> DEFINE u == Scan(s, K)[i]
             v == Scan(s, K)[i + 1]
  <2>3. v = Append(u, s[i + 1]) /\ s[i + 1] \in E \ K
    BY <1>1, <2>1, ScanSteps
  <2>4. u \in Seq(E \ K) /\ Len(u) = i /\ \A k \in 1 .. i : u[k] = s[k]
    BY <2>2
  <2> HIDE DEF u, v
  <2>5. /\ v \in Seq(E \ K) /\ Len(v) = i + 1 /\ v[i + 1] = s[i + 1]
        /\ \A k \in 1 .. i : v[k] = u[k]
    BY <2>3, <2>4, AppendProperties
  <2>6. \A k \in 1 .. i + 1 : k \in 1 .. i \/ k = i + 1
    BY <2>1
  <2>7. \A k \in 1 .. i + 1 : v[k] = s[k]
    BY <2>4, <2>5, <2>6
  <2> QED BY <2>1, <2>5, <2>7 DEF v, T
<1>4. T \in SUBSET (0 .. Len(s))
  OBVIOUS
<1> HIDE DEF T
<1>5. \A i \in 0 .. Len(s) : i \in T
  BY <1>1, <1>2, <1>3, <1>4, IndexInduction
<1>6. Whole(Len(s))
  BY <1>1, <1>5 DEF T
<1>7. /\ Without(s, K) \in Seq(E \ K) /\ Len(Without(s, K)) = Len(s)
      /\ \A k \in 1 .. Len(s) : Without(s, K)[k] = s[k]
  BY <1>6, WithoutIsScan
<1> QED BY <1>7, SeqEqual

(* A file in two parts.                                                    *)
LEMMA WithoutConcat ==
    ASSUME NEW E, NEW K, NEW s \in Seq(E), NEW t \in Seq(E)
    PROVE  Without(s \o t, K) = Without(s, K) \o Without(t, K)
<1> DEFINE w == s \o t
           n == Len(s)
<1>1. /\ n \in Nat /\ Len(t) \in Nat /\ Len(w) = n + Len(t)
      /\ \A i \in 1 .. n : w[i] = s[i]
      /\ \A i \in 1 .. Len(t) : w[n + i] = t[i] /\ t[i] \in E
  <2>1. n \in Nat /\ Len(t) \in Nat /\ \A i \in 1 .. Len(t) : t[i] \in E
    BY LenProperties, ElementOfSeq
  <2>2. /\ Len(w) = n + Len(t)
        /\ \A i \in 1 .. n + Len(t) : w[i] = IF i <= n THEN s[i] ELSE t[i - n]
    BY ConcatProperties
  <2> HIDE DEF w, n
  <2>3. \A i \in 1 .. n : w[i] = s[i]
    BY <2>1, <2>2
  <2>4. ASSUME NEW i \in 1 .. Len(t)
        PROVE  w[n + i] = t[i]
    <3>1. n + i \in 1 .. n + Len(t) /\ ~(n + i <= n) /\ (n + i) - n = i
      BY <2>1, <2>4
    <3> QED BY <2>2, <3>1
  <2> QED BY <2>1, <2>2, <2>3, <2>4
<1> HIDE DEF w
<1>2. Without(s, K) \in Seq(E \ K) /\ Without(s, K) = Scan(s, K)[n]
  BY WithoutType, WithoutIsScan
<1>3. Scan(w, K)[n] = Scan(s, K)[n]
  <2>1. /\ Len(s) \in Nat /\ Len(w) \in Nat /\ Len(s) <= Len(w)
        /\ \A i \in 1 .. Len(s) : w[i] = s[i]
    BY <1>1
  <2>2. \A i \in 0 .. Len(s) : Scan(w, K)[i] = Scan(s, K)[i]
    BY <2>1, ScanPrefix
  <2> QED BY <1>1, <2>2
<1> HIDE DEF n
<1> DEFINE Split(i) == /\ Scan(t, K)[i] \in Seq(E \ K)
                       /\ Scan(w, K)[n + i] = Without(s, K) \o Scan(t, K)[i]
           T == {i \in 0 .. Len(t) : Split(i)}
<1>4. 0 \in T
  <2>1. Scan(t, K)[0] = <<>> /\ <<>> \in Seq(E \ K) /\ n + 0 = n
    BY <1>1, ScanSteps, EmptySeq
  <2>2. Without(s, K) \o <<>> = Without(s, K)
    BY <1>2, ConcatEmptySeq
  <2>3. Split(0)
    BY <1>2, <1>3, <2>1, <2>2
  <2> QED BY <1>1, <2>3
<1>5. ASSUME NEW i \in T, i < Len(t)
      PROVE  i + 1 \in T
  <2>1. /\ i \in Nat /\ i + 1 \in 1 .. Len(t) /\ i + 1 \in 0 .. Len(t) /\ (i + 1) - 1 = i
        /\ n + (i + 1) \in 1 .. Len(w) /\ (n + (i + 1)) - 1 = n + i
    BY <1>1, <1>5
  <2>2. Split(i)
    BY <1>5
  <2> HIDE DEF T
  <2> DEFINE u == Scan(t, K)[i]
             m == t[i + 1]
  <2>3. w[n + (i + 1)] = m /\ m \in E
    BY <1>1, <2>1
  <2>4. /\ m \in K => /\ Scan(t, K)[i + 1] = u
                       /\ Scan(w, K)[n + (i + 1)] = Scan(w, K)[n + i]
        /\ m \notin K => /\ Scan(t, K)[i + 1] = Append(u, m)
                          /\ Scan(w, K)[n + (i + 1)] = Append(Scan(w, K)[n + i], m)
    <3>1. /\ m \in K => Scan(t, K)[i + 1] = u
          /\ m \notin K => Scan(t, K)[i + 1] = Append(u, m)
      <4>1. \A j \in 1 .. Len(t) :
               /\ t[j] \in K => Scan(t, K)[j] = Scan(t, K)[j - 1]
               /\ t[j] \notin K => Scan(t, K)[j] = Append(Scan(t, K)[j - 1], t[j])
        BY <1>1, ScanSteps
      <4> QED BY <2>1, <4>1
    <3>2. /\ m \in K => Scan(w, K)[n + (i + 1)] = Scan(w, K)[n + i]
          /\ m \notin K => Scan(w, K)[n + (i + 1)] = Append(Scan(w, K)[n + i], m)
      <4>1. Len(w) \in Nat
        BY <1>1
      <4>2. \A j \in 1 .. Len(w) :
               /\ w[j] \in K => Scan(w, K)[j] = Scan(w, K)[j - 1]
               /\ w[j] \notin K => Scan(w, K)[j] = Append(Scan(w, K)[j - 1], w[j])
        BY <4>1, ScanSteps
      <4> QED BY <2>1, <2>3, <4>2
    <3> QED BY <3>1, <3>2
  <2>5. u \in Seq(E \ K) /\ Scan(w, K)[n + i] = Without(s, K) \o u
    BY <2>2
  <2> HIDE DEF u, m
  <2>6. CASE m \in K
    <3>1. Split(i + 1)
      BY <2>4, <2>5, <2>6
    <3> QED BY <2>1, <3>1 DEF T
  <2>7. CASE m \notin K
    <3>1. m \in E \ K
      BY <2>3, <2>7
    <3>2. Append(u, m) \in Seq(E \ K)
      BY <2>5, <3>1, AppendProperties
    <3>3. Append(Without(s, K) \o u, m) = Without(s, K) \o Append(u, m)
      <4> DEFINE F == E \ K
                 r == Without(s, K)
      <4>1. r \in Seq(F) /\ u \in Seq(F) /\ m \in F
        BY <1>2, <2>5, <3>1
      <4> HIDE DEF F, r
      <4> DEFINE e == <<m>>
      <4>2. e \in Seq(F) /\ r \o u \in Seq(F)
        BY <4>1, ConcatProperties
      <4>3. Append(u, m) = u \o e
        BY <4>1, AppendIsConcat
      <4>4. Append(r \o u, m) = (r \o u) \o e
        BY <4>1, <4>2, AppendIsConcat
      <4> HIDE DEF e
      <4>5. (r \o u) \o e = r \o (u \o e)
        BY <4>1, <4>2, ConcatAssociative, SMTT(30)
      <4>6. Append(r \o u, m) = r \o Append(u, m)
        BY <4>3, <4>4, <4>5
      <4> QED BY <4>6 DEF r
    <3>4. Split(i + 1)
      BY <2>4, <2>5, <2>7, <3>2, <3>3
    <3> QED BY <2>1, <3>4 DEF T
  <2> QED BY <2>6, <2>7
<1>6. T \in SUBSET (0 .. Len(t))
  OBVIOUS
<1> HIDE DEF T
<1>7. \A i \in 0 .. Len(t) : i \in T
  BY <1>1, <1>4, <1>5, <1>6, IndexInduction
<1>8. Split(Len(t))
  BY <1>1, <1>7 DEF T
<1>9. Without(w, K) = Scan(w, K)[n + Len(t)] /\ Without(t, K) = Scan(t, K)[Len(t)]
  BY <1>1, WithoutIsScan
<1> QED BY <1>8, <1>9 DEF w

-----------------------------------------------------------------------------
(* Valid: the lines without the bad ones.                                  *)

LEMMA BadLine == /\ Bad \in Line /\ Bad \notin Message /\ Message \subseteq Line
                 /\ Line \ {Bad} = Message
<1>1. Bad \notin Message
  BY DEF Bad, Message
<1> QED BY <1>1 DEF Line

(* Every record that the scan keeps is one of the lines, and no bad one.   *)
LEMMA ValidType ==
    ASSUME NEW s \in Seq(Line)
    PROVE  /\ Valid(s) \in Seq(Message)
           /\ Len(Valid(s)) \in Nat /\ Len(Valid(s)) <= Len(s)
           /\ \A k \in 1 .. Len(Valid(s)) : \E i \in 1 .. Len(s) : Valid(s)[k] = s[i]
<1> DEFINE K == {Bad}
           v == Without(s, K)
<1> HIDE DEF K
<1>1. v \in Seq(Line \ K) /\ ReadFrom(v, s)
  BY WithoutType
<1>2. Valid(s) = v /\ Line \ {Bad} = Message
  BY BadLine DEF Valid, K
<1> HIDE DEF v
<1> QED BY <1>1, <1>2 DEF K, ReadFrom

LEMMA ValidEmpty == Valid(<<>>) = <<>>
  BY WithoutEmpty DEF Valid

(* One more line.                                                          *)
LEMMA ValidAppend ==
    ASSUME NEW s \in Seq(Line), NEW m \in Line
    PROVE  /\ m = Bad => Valid(Append(s, m)) = Valid(s)
           /\ m # Bad => Valid(Append(s, m)) = Append(Valid(s), m)
<1> m \in {Bad} <=> m = Bad
  OBVIOUS
<1> QED BY WithoutAppend DEF Valid

(* A file without bad lines.                                               *)
LEMMA ValidWhole ==
    ASSUME NEW s \in Seq(Message)
    PROVE  Valid(s) = s
<1> s \in Seq(Line \ {Bad})
  BY BadLine
<1> QED BY WithoutWhole DEF Valid

(* A file in two parts.                                                    *)
LEMMA ValidConcat ==
    ASSUME NEW s \in Seq(Line), NEW t \in Seq(Line)
    PROVE  Valid(s \o t) = Valid(s) \o Valid(t)
  BY WithoutConcat DEF Valid

-----------------------------------------------------------------------------
(* The inductive invariant of the message log.                             *)

BackupRecords == Valid(backup)
LogRecords    == Valid(log)

(* Where a message still has to go.  User messages are saved, then         *)
(* broadcast; system messages the other way round.                         *)
ToSave(a) == pc[a] = "save" \/ (pc[a] = "broadcast" /\ ~IsUser(a))
ToShow(a) == pc[a] = "broadcast" \/ (pc[a] = "save" /\ IsUser(a))

(* The messages of a in s are older than number k; all of s is, or is k.   *)
Before(s, a, k) == \A i \in 1 .. Len(s) : s[i].by = a => s[i].n < k
UpTo(s, k) == \A i \in 1 .. Len(s) : s[i].n <= k

Authors ==
    \A a \in Author : pc[a] # "idle" =>
        up /\ msg[a] \in Message /\ msg[a].by = a /\ msg[a].n <= posts

ServerTypes ==
    /\ ServerTypeOK /\ KeyInv
    /\ \A p, q \in Serving : p = q
    /\ \A p \in Proc : Len(loaded[p]) <= MaxMessages
    /\ Authors

(* The records of the backup come before those of the log.                 *)
DiskOrder ==
    /\ InOrder(BackupRecords) /\ InOrder(LogRecords)
    /\ \A i \in 1 .. Len(BackupRecords), j \in 1 .. Len(LogRecords) :
          BackupRecords[i].by = LogRecords[j].by => BackupRecords[i].n < LogRecords[j].n
    /\ UpTo(BackupRecords, posts) /\ UpTo(LogRecords, posts)
    /\ \A a \in Author : ToSave(a) => /\ Before(BackupRecords, a, msg[a].n)
                                      /\ Before(LogRecords, a, msg[a].n)

RoomOrder ==
    /\ InOrder(room) /\ UpTo(room, posts)
    /\ \A p \in Proc : InOrder(loaded[p]) /\ UpTo(loaded[p], posts)
    /\ \A a \in Author : ToShow(a) => Before(room, a, msg[a].n)

(* On a disk that does not cut appends no line is bad.                     *)
Whole == ~faulty => torn = FALSE /\ log \in Seq(Message)

(* User messages that are saved and not yet broadcast.                     *)
Pending == {msg[a] : a \in {b \in Author : pc[b] = "broadcast" /\ IsUser(b)}}

PendingSaved ==
    ~faulty => acked \cup Pending
                  \subseteq ToSet(BackupRecords) \cup ToSet(LogRecords) \cup replaced

(* Processes that have loaded the log and do not serve yet.                *)
Loading == {p \in Proc : step[p] \in {"stat", "unlink", "fix", "generate", "write",
                                      "rename", "listen"}}

(* While processes start one after the other, no server is there to add to *)
(* the log between its loading and its showing.                            *)
Filled == ~faulty /\ alone => \A p \in Loading : loaded[p] = Loaded

LogInv == ServerTypes /\ DiskOrder /\ RoomOrder /\ Whole /\ PendingSaved /\ Filled

-----------------------------------------------------------------------------
(* Sequences of messages.                                                  *)

LEMMA OrderEmpty ==
    /\ <<>> \in Seq(Message) /\ Len(<<>>) = 0 /\ ToSet(<<>>) = {}
    /\ InOrder(<<>>) /\ \A k : UpTo(<<>>, k) /\ \A a : Before(<<>>, a, k)
<1>1. <<>> \in Seq(Message) /\ Len(<<>>) = 0
  BY EmptySeq
<1> QED BY <1>1 DEF InOrder, UpTo, Before, ToSet

(* One more message, the newest of its author.                             *)
LEMMA OrderAppend ==
    ASSUME NEW s \in Seq(Message), NEW m \in Message
    PROVE  LET t == Append(s, m)
           IN  /\ t \in Seq(Message) /\ Len(t) = Len(s) + 1
               /\ ToSet(t) = ToSet(s) \cup {m}
               /\ InOrder(s) /\ Before(s, m.by, m.n) => InOrder(t)
               /\ \A k \in Nat : UpTo(s, k) /\ m.n <= k => UpTo(t, k)
               /\ \A a, k : Before(s, a, k) /\ (m.by = a => m.n < k) => Before(t, a, k)
<1> DEFINE t == Append(s, m)
           n == Len(s)
<1>1. /\ t \in Seq(Message) /\ Len(t) = n + 1 /\ n \in Nat /\ t[n + 1] = m
      /\ \A i \in 1 .. n : t[i] = s[i]
  BY AppendProperties, LenProperties
<1> HIDE DEF t
<1>2. \A i \in 1 .. n + 1 : i \in 1 .. n \/ i = n + 1
  BY <1>1
<1>3. ToSet(t) = ToSet(s) \cup {m}
  <2>1. ToSet(t) = {t[i] : i \in 1 .. n + 1} /\ ToSet(s) = {s[i] : i \in 1 .. n}
    BY <1>1, LenProperties DEF ToSet
  <2>2. n + 1 \in 1 .. n + 1 /\ \A i \in 1 .. n : i \in 1 .. n + 1
    BY <1>1
  <2> HIDE DEF n
  <2> QED BY <1>1, <1>2, <2>1, <2>2
<1>4. ASSUME InOrder(s), Before(s, m.by, m.n)
      PROVE  InOrder(t)
  <2>1. SUFFICES ASSUME NEW i \in 1 .. n + 1, NEW j \in 1 .. n + 1, i < j, t[i].by = t[j].by
                 PROVE  t[i].n < t[j].n
    BY <1>1 DEF InOrder
  <2>2. i \in 1 .. n
    BY <1>1, <2>1
  <2>3. CASE j \in 1 .. n
    BY <1>1, <1>4, <2>1, <2>2, <2>3 DEF InOrder
  <2>4. CASE j = n + 1
    BY <1>1, <1>4, <2>1, <2>2, <2>4 DEF Before
  <2> QED BY <1>2, <2>3, <2>4
<1>5. \A k \in Nat : UpTo(s, k) /\ m.n <= k => UpTo(t, k)
  BY <1>1, <1>2 DEF UpTo
<1>6. \A a, k : Before(s, a, k) /\ (m.by = a => m.n < k) => Before(t, a, k)
  BY <1>1, <1>2 DEF Before
<1> QED BY <1>1, <1>3, <1>4, <1>5, <1>6 DEF t

(* The oldest message goes.                                                *)
LEMMA OrderTail ==
    ASSUME NEW s \in Seq(Message), s # <<>>
    PROVE  /\ Tail(s) \in Seq(Message) /\ Len(Tail(s)) = Len(s) - 1
           /\ InOrder(s) => InOrder(Tail(s))
           /\ \A k : UpTo(s, k) => UpTo(Tail(s), k)
           /\ \A a, k : Before(s, a, k) => Before(Tail(s), a, k)
<1> DEFINE t == Tail(s)
           n == Len(s)
<1>1. /\ t \in Seq(Message) /\ Len(t) = n - 1 /\ n \in Nat \ {0}
      /\ \A i \in 1 .. Len(t) : t[i] = s[i + 1]
  BY HeadTailProperties, EmptySeq, LenProperties
<1> HIDE DEF t
<1>2. \A i \in 1 .. Len(t) : i + 1 \in 1 .. n
  BY <1>1
<1>3. InOrder(s) => InOrder(t)
  <2>1. \A i, j \in 1 .. Len(t) : i < j => i + 1 < j + 1
    BY <1>1
  <2> QED BY <1>1, <1>2, <2>1 DEF InOrder
<1>4. /\ \A k : UpTo(s, k) => UpTo(t, k)
      /\ \A a, k : Before(s, a, k) => Before(t, a, k)
  BY <1>1, <1>2 DEF UpTo, Before
<1> QED BY <1>1, <1>3, <1>4 DEF t

(* The end of a sequence.                                                  *)
LEMMA OrderSuffix ==
    ASSUME NEW s \in Seq(Message), NEW t \in Seq(Message)
    PROVE  /\ InOrder(s \o t) => InOrder(t)
           /\ \A k : UpTo(s \o t, k) => UpTo(t, k)
<1> DEFINE w == s \o t
           n == Len(s)
<1>1. /\ n \in Nat /\ Len(t) \in Nat /\ Len(w) = n + Len(t)
      /\ \A i \in 1 .. n + Len(t) : w[i] = IF i <= n THEN s[i] ELSE t[i - n]
  BY ConcatProperties, LenProperties
<1> HIDE DEF w, n
<1>2. ASSUME NEW i \in 1 .. Len(t)
      PROVE  n + i \in 1 .. Len(w) /\ w[n + i] = t[i]
  <2>1. n + i \in 1 .. n + Len(t) /\ ~(n + i <= n) /\ (n + i) - n = i
    BY <1>1, <1>2
  <2> QED BY <1>1, <2>1
<1>3. InOrder(w) => InOrder(t)
  <2>1. \A i, j \in 1 .. Len(t) : i < j => n + i < n + j
    BY <1>1
  <2> QED BY <1>2, <2>1 DEF InOrder
<1>4. \A k : UpTo(w, k) => UpTo(t, k)
  BY <1>2 DEF UpTo
<1> QED BY <1>3, <1>4 DEF w

(* Two parts, the first before the second.                                 *)
LEMMA OrderConcat ==
    ASSUME NEW s \in Seq(Message), NEW t \in Seq(Message), InOrder(s), InOrder(t),
           \A i \in 1 .. Len(s), j \in 1 .. Len(t) : s[i].by = t[j].by => s[i].n < t[j].n
    PROVE  InOrder(s \o t)
<1> DEFINE w == s \o t
           n == Len(s)
<1>1. /\ n \in Nat /\ Len(t) \in Nat /\ Len(w) = n + Len(t)
      /\ \A i \in 1 .. n + Len(t) : w[i] = IF i <= n THEN s[i] ELSE t[i - n]
  BY ConcatProperties, LenProperties
<1> HIDE DEF w
<1>2. ASSUME NEW i \in 1 .. n + Len(t)
      PROVE  \/ i <= n /\ i \in 1 .. n /\ w[i] = s[i]
             \/ n < i /\ i - n \in 1 .. Len(t) /\ w[i] = t[i - n]
  <2>1. CASE i <= n
    BY <1>1, <1>2, <2>1
  <2>2. CASE ~(i <= n)
    BY <1>1, <1>2, <2>2
  <2> QED BY <2>1, <2>2
<1>3. SUFFICES ASSUME NEW i \in 1 .. n + Len(t), NEW j \in 1 .. n + Len(t), i < j,
                      w[i].by = w[j].by
               PROVE  w[i].n < w[j].n
  BY <1>1 DEF InOrder, w
<1>4. CASE j <= n
  BY <1>1, <1>2, <1>3, <1>4 DEF InOrder
<1>5. CASE i <= n /\ n < j
  <2>1. i \in 1 .. n /\ w[i] = s[i] /\ j - n \in 1 .. Len(t) /\ w[j] = t[j - n]
    BY <1>1, <1>2, <1>3, <1>5
  <2> QED BY <1>3, <2>1
<1>6. CASE n < i
  <2>1. /\ i - n \in 1 .. Len(t) /\ w[i] = t[i - n]
        /\ j - n \in 1 .. Len(t) /\ w[j] = t[j - n] /\ i - n < j - n
    BY <1>1, <1>2, <1>3, <1>6
  <2> QED BY <1>3, <2>1 DEF InOrder
<1> QED BY <1>1, <1>3, <1>4, <1>5, <1>6

-----------------------------------------------------------------------------
(* The room and the file.                                                  *)

(* room_add_message.                                                       *)
LEMMA RoomAdded ==
    ASSUME NEW m \in Message, room \in Seq(Message), Len(room) <= MaxMessages, RoomAdd(m)
    PROVE  /\ room' \in Seq(Message) /\ Len(room') <= MaxMessages
           /\ InOrder(room) /\ Before(room, m.by, m.n) => InOrder(room')
           /\ \A k \in Nat : UpTo(room, k) /\ m.n <= k => UpTo(room', k)
           /\ \A a, k : Before(room, a, k) /\ (m.by = a => m.n < k) => Before(room', a, k)
           /\ Len(room') < MaxMessages =>
                 Len(room) < MaxMessages /\ ToSet(room') = ToSet(room) \cup {m}
<1>1. MaxMessages \in Nat \ {0} /\ Len(room) \in Nat
  BY PublicationAssumption, LenProperties
<1>2. CASE Len(room) >= MaxMessages
  <2> DEFINE u == Tail(room)
  <2>1. room # <<>>
    BY <1>1, <1>2, EmptySeq
  <2>2. /\ u \in Seq(Message) /\ Len(u) = Len(room) - 1
        /\ InOrder(room) => InOrder(u)
        /\ \A k : UpTo(room, k) => UpTo(u, k)
        /\ \A a, k : Before(room, a, k) => Before(u, a, k)
    BY <2>1, OrderTail
  <2>3. room' = Append(u, m)
    BY <1>2 DEF RoomAdd
  <2> HIDE DEF u
  <2>4. /\ room' \in Seq(Message) /\ Len(room') = Len(u) + 1
        /\ InOrder(u) /\ Before(u, m.by, m.n) => InOrder(room')
        /\ \A k \in Nat : UpTo(u, k) /\ m.n <= k => UpTo(room', k)
        /\ \A a, k : Before(u, a, k) /\ (m.by = a => m.n < k) => Before(room', a, k)
    <3>1. u \in Seq(Message)
      BY <2>2
    <3> QED BY <2>3, <3>1, OrderAppend
  <2>5. Len(room') = MaxMessages
    BY <1>1, <1>2, <2>2, <2>4
  <2> QED BY <1>1, <2>2, <2>4, <2>5
<1>3. CASE ~(Len(room) >= MaxMessages)
  <2>1. room' = Append(room, m)
    BY <1>3 DEF RoomAdd
  <2>2. /\ room' \in Seq(Message) /\ Len(room') = Len(room) + 1
        /\ ToSet(room') = ToSet(room) \cup {m}
        /\ InOrder(room) /\ Before(room, m.by, m.n) => InOrder(room')
        /\ \A k \in Nat : UpTo(room, k) /\ m.n <= k => UpTo(room', k)
        /\ \A a, k : Before(room, a, k) /\ (m.by = a => m.n < k) => Before(room', a, k)
    BY <2>1, OrderAppend
  <2>3. Len(room') <= MaxMessages /\ Len(room) < MaxMessages
    BY <1>1, <1>3, <2>2
  <2> QED BY <2>2, <2>3
<1> QED BY <1>2, <1>3

(* A partial line adds no record.                                          *)
LEMMA LinesValid ==
    ASSUME log \in Seq(Line)
    PROVE  Lines \in Seq(Line) /\ Valid(Lines) = LogRecords
<1>1. CASE torn
  <2>1. Lines = Append(log, Bad)
    BY <1>1 DEF Lines
  <2> QED BY <2>1, BadLine, ValidAppend, AppendProperties DEF LogRecords
<1>2. CASE ~torn
  BY <1>2 DEF Lines, LogRecords
<1> QED BY <1>1, <1>2

LEMMA DumpedAll ==
    ASSUME log \in Seq(Line)
    PROVE  Dumped(0) = LogRecords
<1>1. Dumped(0) = Valid(Lines)
  BY DEF Dumped
<1> QED BY <1>1, LinesValid

(* message_load returns the last records of the log, at most MaxMessages.  *)
(* If no line is bad, it returns the end of the log from some record on,   *)
(* and if that is not the first one, as many as fit.                       *)
LEMMA LoadedRecords ==
    ASSUME log \in Seq(Line)
    PROVE  /\ Loaded \in Seq(Message) /\ Len(Loaded) <= MaxMessages
           /\ InOrder(LogRecords) => InOrder(Loaded)
           /\ \A k : UpTo(LogRecords, k) => UpTo(Loaded, k)
           /\ log \in Seq(Message) /\ torn = FALSE =>
                 \E first \in 1 .. Len(log) + 1 :
                    /\ first = 1 \/ Len(Loaded) = MaxMessages
                    /\ Len(Loaded) = Len(log) - first + 1
                    /\ \A i \in 1 .. Len(Loaded) : Loaded[i] = log[first + i - 1]
<1> DEFINE n    == Len(Lines)
           from == IF n - MaxMessages + 1 < 1 THEN 1 ELSE n - MaxMessages + 1
           s    == SubSeq(Lines, 1, from - 1)
           t    == SubSeq(Lines, from, n)
<1>1. /\ Lines \in Seq(Line) /\ n \in Nat /\ MaxMessages \in Nat \ {0}
      /\ \A i \in 1 .. n : Lines[i] \in Line
  BY LinesValid, LenProperties, ElementOfSeq, PublicationAssumption
<1>2. Loaded = Valid(t)
  BY DEF Loaded
<1> HIDE DEF n
<1>3. /\ from \in 1 .. n + 1 /\ from \in Int /\ n - from + 1 <= MaxMessages
      /\ n - from + 1 < MaxMessages => from = 1
  BY <1>1
<1> HIDE DEF from
<1>4. s \in Seq(Line)
  <2>1. \A i \in 1 .. from - 1 : Lines[i] \in Line
    BY <1>1, <1>3
  <2> QED BY <1>3, <2>1, SubSeqProperties
<1>5. t \in Seq(Line) /\ Len(t) = IF from <= n THEN n - from + 1 ELSE 0
  <2>1. \A i \in from .. n : Lines[i] \in Line
    BY <1>1, <1>3
  <2> QED BY <1>1, <1>3, <2>1, SubSeqProperties
<1>6. Len(t) = n - from + 1
  BY <1>1, <1>3, <1>5
<1>7. s \o t = Lines
  <2>1. /\ 1 \in 1 .. Len(Lines) + 1 /\ from - 1 \in 1 - 1 .. Len(Lines)
        /\ n \in from - 1 .. Len(Lines) /\ (from - 1) + 1 = from
    BY <1>1, <1>3 DEF n
  <2>2. s \o SubSeq(Lines, (from - 1) + 1, n) = SubSeq(Lines, 1, n)
    BY <1>1, <2>1, ConcatAdjacentSubSeq
  <2>3. SubSeq(Lines, 1, n) = Lines
    BY <1>1, SubSeqFull DEF n
  <2> QED BY <2>1, <2>2, <2>3
<1> HIDE DEF s, t
<1>8. /\ Valid(s) \in Seq(Message) /\ Valid(t) \in Seq(Message)
      /\ Len(Valid(t)) \in Nat /\ Len(Valid(t)) <= Len(t)
  BY <1>4, <1>5, ValidType
<1>9. LogRecords = Valid(s) \o Valid(t)
  BY <1>4, <1>5, <1>7, LinesValid, ValidConcat
<1>10. Len(Loaded) <= MaxMessages
  BY <1>1, <1>2, <1>3, <1>6, <1>8
<1>11. ASSUME log \in Seq(Message), torn = FALSE
       PROVE  /\ from \in 1 .. Len(log) + 1
              /\ from = 1 \/ Len(Loaded) = MaxMessages
              /\ Len(Loaded) = Len(log) - from + 1
              /\ \A i \in 1 .. Len(Loaded) : Loaded[i] = log[from + i - 1]
  <2>1. Lines = log /\ n = Len(log)
    BY <1>11 DEF Lines, n
  <2>2. \A i \in from .. n : Lines[i] \in Message
    <3>1. \A i \in 1 .. n : Lines[i] \in Message
      BY <1>11, <2>1, ElementOfSeq
    <3> QED BY <1>1, <1>3, <3>1
  <2>3. t \in Seq(Message)
    BY <1>1, <1>3, <2>2, SubSeqProperties DEF t
  <2>4. Loaded = t
    BY <1>2, <2>3, ValidWhole
  <2>5. \A i \in 1 .. Len(t) : t[i] = Lines[from + i - 1]
    BY <1>1, <1>3, <1>6, SubSeqProperties DEF t
  <2>6. Len(Loaded) = n - from + 1
    BY <1>6, <2>4
  <2>7. from = 1 \/ Len(Loaded) = MaxMessages
    BY <1>1, <1>3, <2>6
  <2> QED BY <1>3, <2>1, <2>4, <2>5, <2>6, <2>7
<1> QED BY <1>2, <1>8, <1>9, <1>10, <1>11, OrderSuffix

(* What message_save does to the records: one more or none, and they may   *)
(* become the backup.  Only a cut append leaves a partial line.            *)
LEMMA RotatedRecords ==
    ASSUME NEW lines \in Seq(Line), NEW cut \in BOOLEAN, log \in Seq(Line),
           backup \in Seq(Line), replaced \subseteq Line, Rotated(lines, cut)
    PROVE  /\ log' \in Seq(Line) /\ backup' \in Seq(Line)
           /\ torn' \in {cut, FALSE} /\ replaced' \subseteq Line
           /\ \/ /\ BackupRecords' = Valid(lines) /\ LogRecords' = <<>> /\ log' = <<>>
                 /\ replaced' = replaced \cup ToSet(backup)
              \/ /\ BackupRecords' = BackupRecords /\ LogRecords' = Valid(lines)
                 /\ log' = lines /\ replaced' = replaced
<1>1. CASE Len(lines) > MaxLines
  <2>1. /\ backup' = lines /\ log' = <<>> /\ torn' = FALSE
        /\ replaced' = replaced \cup ToSet(backup)
    BY <1>1 DEF Rotated
  <2>2. ToSet(backup) \subseteq Line
    BY ElementOfSeq, LenProperties DEF ToSet
  <2>3. <<>> \in Seq(Line)
    BY EmptySeq
  <2> QED BY <2>1, <2>2, <2>3, ValidEmpty DEF BackupRecords, LogRecords
<1>2. CASE ~(Len(lines) > MaxLines)
  BY <1>2 DEF Rotated, BackupRecords, LogRecords
<1> QED BY <1>1, <1>2

-----------------------------------------------------------------------------
(* Types.                                                                  *)

LEMMA AppendedType ==
    ASSUME LogInv, NEW m \in Message
    PROVE  /\ Appended(m) \in Seq(Line)
           /\ \/ Valid(Appended(m)) = LogRecords
              \/ Valid(Appended(m)) = Append(LogRecords, m)
           /\ torn = FALSE => Appended(m) = Append(log, m)
                              /\ Valid(Appended(m)) = Append(LogRecords, m)
<1>1. log \in Seq(Line) /\ torn \in BOOLEAN
  BY DEF LogInv, ServerTypes, ServerTypeOK, TypeOK
<1>2. CASE torn
  <2>1. Appended(m) = Append(log, Bad)
    BY <1>2 DEF Appended
  <2> QED BY <1>1, <1>2, <2>1, BadLine, ValidAppend, AppendProperties DEF LogRecords
<1>3. CASE ~torn
  <2>1. Appended(m) = Append(log, m) /\ m \in Line /\ m # Bad
    BY <1>3, BadLine DEF Appended
  <2> QED BY <1>1, <1>3, <2>1, ValidAppend, AppendProperties DEF LogRecords
<1> QED BY <1>1, <1>2, <1>3

LEMMA FinishTypes ==
    ASSUME LogInv, NEW a \in Author, Finish(a)
    PROVE  /\ pc' \in [Author -> {"idle", "save", "broadcast"}]
           /\ msg' \in [Author -> Line]
           /\ pc'[a] = "idle"
           /\ \A b \in Author : b # a => pc'[b] = pc[b] /\ msg'[b] = msg[b]
<1>1. /\ pc \in [Author -> {"idle", "save", "broadcast"}] /\ msg \in [Author -> Line]
  BY DEF LogInv, ServerTypes, ServerTypeOK, TypeOK
<1>2. NoMsg \in Line
  BY BadLine DEF NoMsg
<1> QED BY <1>1, <1>2 DEF Finish

(* message_save, whatever becomes of it.                                   *)
LEMMA SavedTypes ==
    ASSUME LogInv, NEW a \in Author, up, pc[a] = "save",
           Rotated(log, TRUE) \/ Rotated(Appended(msg[a]), FALSE)
    PROVE  /\ msg[a] \in Message
           /\ log' \in Seq(Line) /\ backup' \in Seq(Line)
           /\ torn' \in BOOLEAN /\ replaced' \subseteq Line
           /\ \E r \in {LogRecords, Append(LogRecords, msg[a])} :
                 \/ BackupRecords' = r /\ LogRecords' = <<>>
                 \/ BackupRecords' = BackupRecords /\ LogRecords' = r
<1>1. msg[a] \in Message
  BY DEF LogInv, ServerTypes, Authors
<1>2. log \in Seq(Line) /\ backup \in Seq(Line) /\ replaced \subseteq Line
  BY DEF LogInv, ServerTypes, ServerTypeOK, TypeOK
<1>3. CASE Rotated(log, TRUE)
  BY <1>1, <1>2, <1>3, RotatedRecords DEF LogRecords
<1>4. CASE Rotated(Appended(msg[a]), FALSE)
  <2>1. /\ Appended(msg[a]) \in Seq(Line)
        /\ \/ Valid(Appended(msg[a])) = LogRecords
           \/ Valid(Appended(msg[a])) = Append(LogRecords, msg[a])
    BY <1>1, AppendedType
  <2> QED BY <1>1, <1>2, <1>4, <2>1, RotatedRecords
<1> QED BY <1>3, <1>4

LEMMA PublishTypes ==
    ASSUME LogInv, NEW a \in Author, Publish(a), UNCHANGED <<keyVars, loaded>>, KeyInv'
    PROVE  ServerTypes'
<1>1. /\ TypeOK /\ KeyTypeOK /\ Authors
      /\ pc \in [Author -> {"idle", "save", "broadcast"}] /\ msg \in [Author -> Line]
  BY DEF LogInv, ServerTypes, ServerTypeOK, TypeOK
<1>2. SUFFICES TypeOK' /\ Authors' /\ up' = up
  <2>1. step' = step /\ Serving' = Serving /\ loaded' = loaded /\ KeyTypeOK'
    BY DEF keyVars, Serving, KeyInv
  <2> QED BY <1>2, <2>1 DEF LogInv, ServerTypes, ServerTypeOK
<1>3. ASSUME NEW kind \in {"user", "system"}, NEW to \in {"save", "broadcast"},
             Begin(a, kind, to)
      PROVE  TypeOK' /\ Authors' /\ up' = up
  <2> DEFINE m == [by |-> a, kind |-> kind, n |-> posts + 1]
  <2>1. posts \in 0 .. MaxPosts /\ posts + 1 \in 1 .. MaxPosts /\ posts' = posts + 1
    BY <1>1, <1>3, PublicationAssumption DEF TypeOK, Begin
  <2>2. m \in Message /\ m.by = a /\ m.n = posts + 1 /\ m \in Line
    BY <2>1 DEF Message, Line
  <2>3. msg' = [msg EXCEPT ![a] = m] /\ pc' = [pc EXCEPT ![a] = to]
    BY <1>3 DEF Begin
  <2> HIDE DEF m
  <2>4. /\ msg' \in [Author -> Line] /\ pc' \in [Author -> {"idle", "save", "broadcast"}]
        /\ msg'[a] = m /\ \A b \in Author : b # a => msg'[b] = msg[b] /\ pc'[b] = pc[b]
    BY <1>1, <2>2, <2>3
  <2>5. UNCHANGED <<faulty, log, torn, backup, replaced, room, crashes, up, acked>> /\ up
    BY <1>3 DEF Begin, disk
  <2>6. TypeOK'
    BY <1>1, <2>1, <2>4, <2>5 DEF TypeOK
  <2>7. Authors'
    BY <1>1, <2>1, <2>2, <2>4, <2>5 DEF Authors, Message
  <2> QED BY <2>5, <2>6, <2>7
<1>4. ASSUME up, Finish(a), UNCHANGED <<faulty, room, posts, crashes, up>>,
             log' \in Seq(Line), backup' \in Seq(Line), torn' \in BOOLEAN,
             replaced' \subseteq Line, acked' \subseteq Message
      PROVE  TypeOK' /\ Authors' /\ up' = up
  BY <1>1, <1>4, FinishTypes DEF TypeOK, Authors
<1>5. CASE Save(a)
  <2>1. up /\ pc[a] = "save" /\ UNCHANGED <<faulty, room, posts, crashes, up, acked>>
    BY <1>5 DEF Save
  <2>2. /\ log' \in Seq(Line) /\ backup' \in Seq(Line)
        /\ torn' \in BOOLEAN /\ replaced' \subseteq Line
    BY <1>5, <2>1, SavedTypes DEF Save
  <2>3. CASE IsUser(a)
    <3>1. pc' = [pc EXCEPT ![a] = "broadcast"] /\ msg' = msg
      BY <1>5, <2>3 DEF Save
    <3>2. TypeOK'
      BY <1>1, <2>1, <2>2, <3>1 DEF TypeOK
    <3>3. Authors'
      BY <1>1, <2>1, <3>1 DEF Authors
    <3> QED BY <2>1, <3>2, <3>3
  <2>4. CASE ~IsUser(a)
    <3>1. Finish(a)
      BY <1>5, <2>4 DEF Save
    <3> QED BY <1>1, <1>4, <2>1, <2>2, <3>1 DEF TypeOK
  <2> QED BY <2>3, <2>4
<1>6. CASE SaveFail(a)
  BY <1>1, <1>4, <1>6 DEF SaveFail, disk, TypeOK
<1>7. CASE SaveCut(a)
  <2>1. /\ log' \in Seq(Line) /\ backup' \in Seq(Line)
        /\ torn' \in BOOLEAN /\ replaced' \subseteq Line
    BY <1>7, SavedTypes DEF SaveCut
  <2> QED BY <1>1, <1>4, <1>7, <2>1 DEF SaveCut, TypeOK
<1>8. CASE Broadcast(a)
  <2>1. /\ up /\ pc[a] = "broadcast" /\ RoomAdd(msg[a]) /\ msg[a] \in Message
        /\ UNCHANGED <<faulty, log, torn, backup, replaced, posts, crashes, up>>
    BY <1>1, <1>8 DEF Broadcast, disk, Authors
  <2>2. room' \in Seq(Message) /\ Len(room') <= MaxMessages
    BY <1>1, <2>1, RoomAdded DEF TypeOK
  <2>3. CASE IsUser(a)
    <3>1. Finish(a) /\ acked' = acked \cup {msg[a]}
      BY <1>8, <2>3 DEF Broadcast
    <3>2. TypeOK'
      BY <1>1, <2>1, <2>2, <3>1, FinishTypes DEF TypeOK
    <3>3. Authors'
      BY <1>1, <2>1, <3>1, FinishTypes DEF Authors
    <3> QED BY <2>1, <3>2, <3>3
  <2>4. CASE ~IsUser(a)
    <3>1. pc' = [pc EXCEPT ![a] = "save"] /\ msg' = msg /\ acked' = acked
      BY <1>8, <2>4 DEF Broadcast
    <3>2. TypeOK'
      BY <1>1, <2>1, <2>2, <3>1 DEF TypeOK
    <3>3. Authors'
      BY <1>1, <2>1, <3>1 DEF Authors
    <3> QED BY <2>1, <3>2, <3>3
  <2> QED BY <2>3, <2>4
<1> QED BY <1>3, <1>5, <1>6, <1>7, <1>8 DEF Publish, Post, Announce

(* The steps of a process that is not the server, or not yet.              *)
LEMMA NotServing ==
    ASSUME KeyInv, NEW p \in Proc, Start(p) \/ LogLoaded(p) \/ Setup(p)
    PROVE  /\ Serving' = Serving
           /\ step'[p] # "serving" /\ step[p] # "serving"
           /\ \A q \in Proc : q # p => step'[q] = step[q]
<1>1. step \in [Proc -> {"off", "load", "stat", "unlink", "fix", "generate", "write",
                         "rename", "listen", "serving"}]
  BY DEF KeyInv, KeyTypeOK
<1>2. /\ step[p] # "serving" /\ step'[p] # "serving"
      /\ \A q \in Proc : q # p => step'[q] = step[q]
  <2>1. CASE Start(p) \/ LogLoaded(p)
    BY <1>1, <2>1 DEF Start, LogLoaded, At
  <2>2. CASE Stat(p)
    BY <1>1, <2>2 DEF Stat, At
  <2>3. CASE Unlink(p) \/ FixMode(p) \/ ExportOpen(p) \/ ExportWrite(p) \/ Rename(p)
    BY <1>1, <2>3 DEF Unlink, FixMode, ExportOpen, ExportWrite, Rename, At
  <2>4. CASE RenameFails(p) \/ GiveUp(p)
    BY <1>1, <2>4 DEF RenameFails, GiveUp, Gone
  <2> QED BY <2>1, <2>2, <2>3, <2>4 DEF Setup
<1> QED BY <1>1, <1>2 DEF Serving

LEMMA ProcessTypes ==
    ASSUME LogInv, NEW p \in Proc, KeyInv',
           StartProcess(p) \/ RoomCreate(p) \/ SetupHostKey(p) \/ Serve(p) \/ EndServer(p)
    PROVE  ServerTypes'
<1>1. /\ TypeOK /\ KeyInv /\ Authors /\ loaded \in [Proc -> Seq(Message)]
      /\ up = (Serving # {}) /\ \A q, r \in Serving : q = r
      /\ \A q \in Proc : Len(loaded[q]) <= MaxMessages
      /\ step \in [Proc -> {"off", "load", "stat", "unlink", "fix", "generate", "write",
                            "rename", "listen", "serving"}]
  BY DEF LogInv, ServerTypes, ServerTypeOK, KeyInv, KeyTypeOK
<1>2. MaxMessages \in Nat \ {0} /\ KeyTypeOK'
  BY PublicationAssumption DEF KeyInv
<1>3. ASSUME UNCHANGED vars, Serving' = Serving, loaded' \in [Proc -> Seq(Message)],
             \A q \in Proc : Len(loaded'[q]) <= MaxMessages
      PROVE  ServerTypes'
  <2>1. TypeOK' /\ Authors'
    BY <1>1, <1>3 DEF vars, disk, TypeOK, Authors
  <2> QED BY <1>1, <1>2, <1>3, <2>1 DEF vars, ServerTypes, ServerTypeOK
<1>4. CASE StartProcess(p)
  BY <1>1, <1>3, <1>4, NotServing DEF StartProcess
<1>5. CASE RoomCreate(p)
  <2>1. Loaded \in Seq(Message) /\ Len(Loaded) <= MaxMessages
    BY <1>1, LoadedRecords DEF TypeOK
  <2>2. loaded' = [loaded EXCEPT ![p] = Loaded] /\ UNCHANGED vars /\ LogLoaded(p)
    BY <1>5 DEF RoomCreate
  <2>3. /\ loaded' \in [Proc -> Seq(Message)]
        /\ \A q \in Proc : Len(loaded'[q]) <= MaxMessages
    BY <1>1, <2>1, <2>2
  <2> QED BY <1>1, <1>3, <2>2, <2>3, NotServing
<1>6. loaded' = [loaded EXCEPT ![p] = <<>>] =>
         /\ loaded' \in [Proc -> Seq(Message)]
         /\ \A q \in Proc : Len(loaded'[q]) <= MaxMessages
  BY <1>1, <1>2, OrderEmpty
<1>7. CASE SetupHostKey(p)
  <2>1. /\ loaded' = [loaded EXCEPT ![p] = <<>>] \/ loaded' = loaded
        /\ UNCHANGED vars /\ Setup(p)
    BY <1>7 DEF SetupHostKey
  <2> QED BY <1>1, <1>3, <1>6, <2>1, NotServing
<1>8. CASE Serve(p)
  <2>1. /\ up' = TRUE /\ room' = loaded[p]
        /\ loaded' = [loaded EXCEPT ![p] = <<>>]
        /\ UNCHANGED <<faulty, log, torn, backup, replaced, pc, msg, posts, crashes, acked>>
        /\ Serving = {} /\ step' = [step EXCEPT ![p] = "serving"]
    BY <1>8 DEF Serve, Listen, At, disk
  <2>2. Serving' = {p}
    BY <1>1, <2>1 DEF Serving
  <2>3. TypeOK'
    BY <1>1, <2>1 DEF TypeOK
  <2>4. Authors'
    BY <1>1, <2>1 DEF Authors
  <2> QED BY <1>2, <1>6, <2>1, <2>2, <2>3, <2>4 DEF ServerTypes, ServerTypeOK
<1>9. CASE EndServer(p)
  <2>1. /\ up' = FALSE /\ crashes < MaxCrashes /\ crashes' = crashes + 1 /\ room' = <<>>
        /\ pc' = [a \in Author |-> "idle"] /\ msg' = [a \in Author |-> NoMsg]
        /\ UNCHANGED <<faulty, log, backup, replaced, posts, acked, loaded>>
        /\ p \in Serving /\ step' = [step EXCEPT ![p] = "off"]
    BY <1>9 DEF EndServer, Crash, Stop, Gone
  <2>2. torn' \in BOOLEAN
    <3>1. torn' = torn \/ torn' = TRUE
      BY <1>9 DEF EndServer, Crash
    <3> QED BY <1>1, <3>1 DEF TypeOK
  <2>3. Serving' = {}
    BY <1>1, <2>1 DEF Serving
  <2>4. crashes' \in 0 .. MaxCrashes
    BY <1>1, <2>1, PublicationAssumption DEF TypeOK
  <2>5. room' \in Seq(Message) /\ Len(room') <= MaxMessages
    BY <1>2, <2>1, OrderEmpty
  <2>6. /\ pc' \in [Author -> {"idle", "save", "broadcast"}] /\ msg' \in [Author -> Line]
    BY <2>1, BadLine DEF NoMsg
  <2>7. TypeOK'
    BY <1>1, <2>1, <2>2, <2>4, <2>5, <2>6 DEF TypeOK
  <2>8. Authors'
    BY <2>1 DEF Authors
  <2> QED BY <1>1, <1>2, <2>1, <2>3, <2>7, <2>8 DEF ServerTypes, ServerTypeOK
<1> QED BY <1>4, <1>5, <1>7, <1>8, <1>9

-----------------------------------------------------------------------------
(* The order on the disk.                                                  *)

LEMMA RecordsType ==
    ASSUME LogInv
    PROVE  BackupRecords \in Seq(Message) /\ LogRecords \in Seq(Message) /\ posts \in Nat
<1>1. log \in Seq(Line) /\ backup \in Seq(Line) /\ posts \in 0 .. MaxPosts
  BY DEF LogInv, ServerTypes, ServerTypeOK, TypeOK
<1> QED BY <1>1, ValidType DEF BackupRecords, LogRecords

(* A step that writes nothing.                                             *)
LEMMA DiskUntouched ==
    ASSUME LogInv, log' = log, backup' = backup, posts' \in Nat, posts' >= posts,
           \A a \in Author : ToSave(a)' => \/ ToSave(a) /\ msg'[a] = msg[a]
                                           \/ msg'[a].n = posts + 1
    PROVE  DiskOrder'
<1>1. DiskOrder /\ posts \in Nat
  BY RecordsType DEF LogInv
<1>2. BackupRecords' = BackupRecords /\ LogRecords' = LogRecords
  BY DEF BackupRecords, LogRecords
<1>3. /\ \A i \in 1 .. Len(BackupRecords) : BackupRecords[i].n \in Nat
      /\ \A i \in 1 .. Len(LogRecords) : LogRecords[i].n \in Nat
  <2>1. \A m \in Message : m.n \in Nat
    BY DEF Message
  <2>2. /\ \A i \in 1 .. Len(BackupRecords) : BackupRecords[i] \in Message
        /\ \A i \in 1 .. Len(LogRecords) : LogRecords[i] \in Message
    BY RecordsType, ElementOfSeq
  <2> QED BY <2>1, <2>2
<1>4. UpTo(BackupRecords, posts') /\ UpTo(LogRecords, posts')
  BY <1>1, <1>3 DEF DiskOrder, UpTo
<1>5. ASSUME NEW a \in Author, ToSave(a)'
      PROVE  Before(BackupRecords, a, msg'[a].n) /\ Before(LogRecords, a, msg'[a].n)
  <2>1. CASE ToSave(a) /\ msg'[a] = msg[a]
    BY <1>1, <2>1 DEF DiskOrder
  <2>2. CASE msg'[a].n = posts + 1
    BY <1>1, <1>3, <2>2 DEF DiskOrder, UpTo, Before
  <2> QED BY <1>5, <2>1, <2>2
<1> QED BY <1>1, <1>2, <1>4, <1>5 DEF DiskOrder

(* A step that saves a's message, or fails to, or cuts it, and may rotate. *)
LEMMA DiskWritten ==
    ASSUME LogInv, NEW a \in Author, pc[a] = "save", msg[a] \in Message,
           NEW r \in {LogRecords, Append(LogRecords, msg[a])},
           \/ BackupRecords' = r /\ LogRecords' = <<>>
           \/ BackupRecords' = BackupRecords /\ LogRecords' = r,
           posts' = posts, ~ToSave(a)',
           \A b \in Author : b # a => pc'[b] = pc[b] /\ msg'[b] = msg[b]
    PROVE  DiskOrder'
<1> DEFINE m == msg[a]
<1>1. /\ BackupRecords \in Seq(Message) /\ LogRecords \in Seq(Message) /\ posts \in Nat
      /\ DiskOrder /\ m.by = a /\ m.n <= posts /\ m.n \in Nat
  BY RecordsType DEF LogInv, ServerTypes, Authors, Message
<1>2. Before(BackupRecords, a, m.n) /\ Before(LogRecords, a, m.n)
  BY <1>1 DEF DiskOrder, ToSave
<1>3. /\ r \in Seq(Message) /\ InOrder(r) /\ UpTo(r, posts)
      /\ \A b, k : Before(LogRecords, b, k) /\ b # a => Before(r, b, k)
      /\ \A i \in 1 .. Len(BackupRecords), j \in 1 .. Len(r) :
            BackupRecords[i].by = r[j].by => BackupRecords[i].n < r[j].n
  <2>1. CASE r = LogRecords
    BY <1>1, <2>1 DEF DiskOrder
  <2>2. CASE r = Append(LogRecords, m)
    <3>1. InOrder(LogRecords) /\ UpTo(LogRecords, posts)
      BY <1>1 DEF DiskOrder
    <3>2. /\ r \in Seq(Message)
          /\ InOrder(LogRecords) /\ Before(LogRecords, m.by, m.n) => InOrder(r)
          /\ \A k \in Nat : UpTo(LogRecords, k) /\ m.n <= k => UpTo(r, k)
          /\ \A b, k : Before(LogRecords, b, k) /\ (m.by = b => m.n < k) => Before(r, b, k)
      BY <1>1, <2>2, OrderAppend
    <3>3. /\ Len(r) = Len(LogRecords) + 1 /\ Len(LogRecords) \in Nat
          /\ r[Len(LogRecords) + 1] = m
          /\ \A j \in 1 .. Len(LogRecords) : r[j] = LogRecords[j]
      BY <1>1, <2>2, AppendProperties, LenProperties
    <3>4. \A j \in 1 .. Len(r) : j \in 1 .. Len(LogRecords) \/ j = Len(LogRecords) + 1
      BY <3>3
    <3>5. ASSUME NEW i \in 1 .. Len(BackupRecords), NEW j \in 1 .. Len(r),
                 BackupRecords[i].by = r[j].by
          PROVE  BackupRecords[i].n < r[j].n
      <4>1. CASE j \in 1 .. Len(LogRecords)
        BY <1>1, <3>3, <3>5, <4>1 DEF DiskOrder
      <4>2. CASE j = Len(LogRecords) + 1
        BY <1>1, <1>2, <3>3, <3>5, <4>2 DEF Before
      <4> QED BY <3>4, <4>1, <4>2
    <3> QED BY <1>1, <1>2, <3>1, <3>2, <3>5
  <2> QED BY <2>1, <2>2
<1>4. ASSUME NEW b \in Author, ToSave(b)'
      PROVE  /\ b # a /\ msg'[b] = msg[b]
             /\ Before(BackupRecords, b, msg[b].n) /\ Before(r, b, msg[b].n)
  <2>1. b # a /\ pc'[b] = pc[b] /\ msg'[b] = msg[b]
    BY <1>4
  <2>2. ToSave(b)
    BY <1>4, <2>1 DEF ToSave, IsUser
  <2> QED BY <1>1, <1>3, <2>1, <2>2 DEF DiskOrder
<1> HIDE DEF m
<1>5. CASE BackupRecords' = r /\ LogRecords' = <<>>
  BY <1>3, <1>4, <1>5, OrderEmpty DEF DiskOrder
<1>6. CASE BackupRecords' = BackupRecords /\ LogRecords' = r
  BY <1>1, <1>3, <1>4, <1>6 DEF DiskOrder
<1> QED BY <1>5, <1>6

LEMMA DiskOrderKept ==
    ASSUME LogInv, [ServerNext]_serverVars
    PROVE  DiskOrder'
<1>1. posts \in Nat /\ pc \in [Author -> {"idle", "save", "broadcast"}]
      /\ msg \in [Author -> Line]
  BY RecordsType DEF LogInv, ServerTypes, ServerTypeOK, TypeOK
<1>2. ASSUME UNCHANGED <<log, backup, posts, pc, msg>>
      PROVE  DiskOrder'
  BY <1>1, <1>2, DiskUntouched DEF ToSave, IsUser
<1>3. ASSUME NEW a \in Author, Finish(a)
      PROVE  /\ ~ToSave(a)'
             /\ \A b \in Author : b # a => pc'[b] = pc[b] /\ msg'[b] = msg[b]
  BY <1>3, FinishTypes DEF LogInv, ToSave
<1>4. ASSUME NEW a \in Author, NEW kind \in {"user", "system"},
             NEW to \in {"save", "broadcast"}, Begin(a, kind, to)
      PROVE  DiskOrder'
  <2>1. /\ log' = log /\ backup' = backup /\ posts' = posts + 1
        /\ msg'[a].n = posts + 1
        /\ \A b \in Author : b # a => pc'[b] = pc[b] /\ msg'[b] = msg[b]
    BY <1>1, <1>4 DEF Begin, disk
  <2>2. \A b \in Author : ToSave(b)' => \/ ToSave(b) /\ msg'[b] = msg[b]
                                        \/ msg'[b].n = posts + 1
    BY <2>1 DEF ToSave, IsUser
  <2>3. posts' \in Nat /\ posts' >= posts
    BY <1>1, <2>1
  <2> QED BY <2>1, <2>2, <2>3, DiskUntouched
<1>5. ASSUME NEW a \in Author, Save(a)
      PROVE  DiskOrder'
  <2>1. /\ up /\ pc[a] = "save" /\ posts' = posts
        /\ Rotated(Appended(msg[a]), FALSE)
    BY <1>5 DEF Save
  <2>2. /\ ~ToSave(a)'
        /\ \A b \in Author : b # a => pc'[b] = pc[b] /\ msg'[b] = msg[b]
    <3>1. CASE IsUser(a)
      BY <1>1, <1>5, <3>1 DEF Save, ToSave, IsUser
    <3>2. CASE ~IsUser(a)
      BY <1>3, <1>5, <3>2 DEF Save
    <3> QED BY <3>1, <3>2
  <2>3. /\ msg[a] \in Message
        /\ \E r \in {LogRecords, Append(LogRecords, msg[a])} :
              \/ BackupRecords' = r /\ LogRecords' = <<>>
              \/ BackupRecords' = BackupRecords /\ LogRecords' = r
    BY <2>1, SavedTypes
  <2> QED BY <2>1, <2>2, <2>3, DiskWritten
<1>6. ASSUME NEW a \in Author, SaveCut(a)
      PROVE  DiskOrder'
  <2>1. /\ up /\ pc[a] = "save" /\ posts' = posts /\ Finish(a)
        /\ Rotated(log, TRUE) \/ Rotated(Appended(msg[a]), FALSE)
    BY <1>6 DEF SaveCut
  <2>2. /\ ~ToSave(a)'
        /\ \A b \in Author : b # a => pc'[b] = pc[b] /\ msg'[b] = msg[b]
    BY <1>3, <2>1
  <2>3. /\ msg[a] \in Message
        /\ \E r \in {LogRecords, Append(LogRecords, msg[a])} :
              \/ BackupRecords' = r /\ LogRecords' = <<>>
              \/ BackupRecords' = BackupRecords /\ LogRecords' = r
    BY <2>1, SavedTypes
  <2> QED BY <2>1, <2>2, <2>3, DiskWritten
<1>7. ASSUME NEW a \in Author, SaveFail(a) \/ Broadcast(a)
      PROVE  DiskOrder'
  <2>1. log' = log /\ backup' = backup /\ posts' = posts
    BY <1>7 DEF SaveFail, Broadcast, disk
  <2>2. CASE Finish(a)
    <3>1. \A b \in Author : ToSave(b)' => ToSave(b) /\ msg'[b] = msg[b]
      BY <1>3, <2>2 DEF ToSave, IsUser
    <3> QED BY <1>1, <2>1, <3>1, DiskUntouched
  <2>3. CASE Broadcast(a) /\ ~IsUser(a)
    <3>1. pc[a] = "broadcast" /\ pc' = [pc EXCEPT ![a] = "save"] /\ msg' = msg
      BY <2>3 DEF Broadcast
    <3>2. \A b \in Author : ToSave(b)' => ToSave(b) /\ msg'[b] = msg[b]
      BY <1>1, <2>3, <3>1 DEF ToSave, IsUser
    <3> QED BY <1>1, <2>1, <3>2, DiskUntouched
  <2> QED BY <1>7, <2>2, <2>3 DEF SaveFail, Broadcast
<1>8. ASSUME NEW p \in Proc, EndServer(p)
      PROVE  DiskOrder'
  <2>1. log' = log /\ backup' = backup /\ posts' = posts /\ \A b \in Author : ~ToSave(b)'
    BY <1>8 DEF EndServer, Crash, ToSave
  <2> QED BY <1>1, <2>1, DiskUntouched
<1>9. ASSUME NEW p \in Proc, StartProcess(p) \/ RoomCreate(p) \/ SetupHostKey(p) \/ Serve(p)
      PROVE  DiskOrder'
  BY <1>2, <1>9 DEF StartProcess, RoomCreate, SetupHostKey, Serve, vars, disk
<1>10. CASE UNCHANGED serverVars
  BY <1>2, <1>10 DEF serverVars, vars, disk
<1> QED BY <1>4, <1>5, <1>6, <1>7, <1>8, <1>9, <1>10
        DEF ServerNext, PublishMessage, Publish, Post, Announce

-----------------------------------------------------------------------------
(* The order in the room, and in the rooms of processes that start.        *)

LEMMA UpToMore ==
    ASSUME NEW s \in Seq(Message), NEW k \in Nat, NEW l \in Nat, k <= l, UpTo(s, k)
    PROVE  UpTo(s, l) /\ \A a : Before(s, a, k + 1)
<1>1. \A i \in 1 .. Len(s) : s[i].n \in Nat
  <2>1. \A m \in Message : m.n \in Nat
    BY DEF Message
  <2> QED BY <2>1, ElementOfSeq
<1> QED BY <1>1 DEF UpTo, Before

LEMMA RoomUntouched ==
    ASSUME LogInv, room' = room, loaded' = loaded, posts' \in Nat, posts' >= posts,
           \A a \in Author : ToShow(a)' => \/ ToShow(a) /\ msg'[a] = msg[a]
                                           \/ msg'[a].n = posts + 1
    PROVE  RoomOrder'
<1>1. /\ RoomOrder /\ posts \in Nat /\ room \in Seq(Message)
      /\ loaded \in [Proc -> Seq(Message)]
  BY RecordsType DEF LogInv, ServerTypes, ServerTypeOK, TypeOK
<1>2. UpTo(room, posts') /\ \A a : Before(room, a, posts + 1)
  BY <1>1, UpToMore DEF RoomOrder
<1>3. ASSUME NEW p \in Proc
      PROVE  UpTo(loaded[p], posts')
  BY <1>1, UpToMore DEF RoomOrder
<1>4. ASSUME NEW a \in Author, ToShow(a)'
      PROVE  Before(room, a, msg'[a].n)
  BY <1>1, <1>2, <1>4 DEF RoomOrder
<1> QED BY <1>1, <1>2, <1>3, <1>4 DEF RoomOrder

LEMMA RoomOrderKept ==
    ASSUME LogInv, [ServerNext]_serverVars
    PROVE  RoomOrder'
<1>1. /\ RoomOrder /\ posts \in Nat /\ room \in Seq(Message) /\ Len(room) <= MaxMessages
      /\ pc \in [Author -> {"idle", "save", "broadcast"}] /\ msg \in [Author -> Line]
      /\ loaded \in [Proc -> Seq(Message)] /\ up = (Serving # {}) /\ Authors
  BY RecordsType DEF LogInv, ServerTypes, ServerTypeOK, TypeOK
<1>2. ASSUME NEW a \in Author, Finish(a)
      PROVE  /\ ~ToShow(a)'
             /\ \A b \in Author : b # a => pc'[b] = pc[b] /\ msg'[b] = msg[b]
             /\ \A b \in Author : ToShow(b)' => ToShow(b) /\ msg'[b] = msg[b]
  BY <1>2, FinishTypes DEF LogInv, ToShow, IsUser
<1>3. ASSUME NEW a \in Author, NEW kind \in {"user", "system"},
             NEW to \in {"save", "broadcast"}, Begin(a, kind, to), loaded' = loaded
      PROVE  RoomOrder'
  <2>1. /\ room' = room /\ posts' = posts + 1 /\ msg'[a].n = posts + 1
        /\ \A b \in Author : b # a => pc'[b] = pc[b] /\ msg'[b] = msg[b]
    BY <1>1, <1>3 DEF Begin
  <2>2. \A b \in Author : ToShow(b)' => \/ ToShow(b) /\ msg'[b] = msg[b]
                                        \/ msg'[b].n = posts + 1
    BY <2>1 DEF ToShow, IsUser
  <2>3. posts' \in Nat /\ posts' >= posts
    BY <1>1, <2>1
  <2> QED BY <1>3, <2>1, <2>2, <2>3, RoomUntouched
<1>4. ASSUME NEW a \in Author, Save(a) \/ SaveFail(a) \/ SaveCut(a), loaded' = loaded
      PROVE  RoomOrder'
  <2>1. room' = room /\ posts' = posts
    BY <1>4 DEF Save, SaveFail, SaveCut
  <2>2. CASE Finish(a)
    BY <1>1, <1>2, <1>4, <2>1, <2>2, RoomUntouched
  <2>3. CASE Save(a) /\ IsUser(a)
    <3>1. pc[a] = "save" /\ pc' = [pc EXCEPT ![a] = "broadcast"] /\ msg' = msg
      BY <2>3 DEF Save
    <3>2. \A b \in Author : ToShow(b)' => ToShow(b) /\ msg'[b] = msg[b]
      BY <1>1, <2>3, <3>1 DEF ToShow, IsUser
    <3> QED BY <1>1, <1>4, <2>1, <3>2, RoomUntouched
  <2> QED BY <1>4, <2>2, <2>3 DEF Save, SaveFail, SaveCut
<1>5. ASSUME NEW a \in Author, Broadcast(a), loaded' = loaded
      PROVE  RoomOrder'
  <2> DEFINE m == msg[a]
  <2>1. /\ pc[a] = "broadcast" /\ RoomAdd(m) /\ posts' = posts
        /\ m \in Message /\ m.by = a /\ m.n <= posts
    BY <1>1, <1>5 DEF Broadcast, Authors
  <2>2. Before(room, a, m.n)
    BY <1>1, <2>1 DEF RoomOrder, ToShow
  <2>3. /\ ~ToShow(a)'
        /\ \A b \in Author : b # a => pc'[b] = pc[b] /\ msg'[b] = msg[b]
    <3>1. CASE IsUser(a)
      BY <1>2, <1>5, <3>1 DEF Broadcast
    <3>2. CASE ~IsUser(a)
      BY <1>1, <1>5, <3>2 DEF Broadcast, ToShow, IsUser
    <3> QED BY <3>1, <3>2
  <2> HIDE DEF m
  <2>4. /\ InOrder(room) /\ Before(room, m.by, m.n) => InOrder(room')
        /\ \A k \in Nat : UpTo(room, k) /\ m.n <= k => UpTo(room', k)
        /\ \A b, k : Before(room, b, k) /\ (m.by = b => m.n < k) => Before(room', b, k)
    BY <1>1, <2>1, RoomAdded
  <2>5. ASSUME NEW b \in Author, ToShow(b)'
        PROVE  Before(room', b, msg'[b].n)
    <3>1. b # a /\ msg'[b] = msg[b] /\ ToShow(b)
      BY <2>3, <2>5 DEF ToShow, IsUser
    <3>2. Before(room, b, msg[b].n)
      BY <1>1, <3>1 DEF RoomOrder
    <3> QED BY <2>1, <2>4, <3>1, <3>2
  <2> QED BY <1>1, <1>5, <2>1, <2>2, <2>4, <2>5 DEF RoomOrder
<1>6. ASSUME NEW p \in Proc, UNCHANGED vars, NEW s \in Seq(Message), InOrder(s),
             UpTo(s, posts), loaded' = [loaded EXCEPT ![p] = s]
      PROVE  RoomOrder'
  <2>1. UNCHANGED <<room, posts, pc, msg>>
    BY <1>6 DEF vars
  <2>2. \A q \in Proc : InOrder(loaded'[q]) /\ UpTo(loaded'[q], posts)
    BY <1>1, <1>6 DEF RoomOrder
  <2> QED BY <1>1, <2>1, <2>2 DEF RoomOrder, ToShow, IsUser
<1>7. ASSUME UNCHANGED vars, loaded' = loaded
      PROVE  RoomOrder'
  BY <1>1, <1>7 DEF RoomOrder, ToShow, IsUser, vars
<1>8. ASSUME NEW p \in Proc, RoomCreate(p)
      PROVE  RoomOrder'
  <2>1. Loaded \in Seq(Message) /\ InOrder(Loaded) /\ UpTo(Loaded, posts)
    BY LoadedRecords DEF LogInv, ServerTypes, ServerTypeOK, TypeOK, DiskOrder
  <2> QED BY <1>6, <1>8, <2>1 DEF RoomCreate
<1>9. ASSUME NEW p \in Proc, SetupHostKey(p)
      PROVE  RoomOrder'
  BY <1>6, <1>7, <1>9, OrderEmpty DEF SetupHostKey
<1>10. ASSUME NEW p \in Proc, Serve(p)
       PROVE  RoomOrder'
  <2>1. /\ room' = loaded[p] /\ UNCHANGED <<posts, pc, msg>> /\ Serving = {}
        /\ loaded' = [loaded EXCEPT ![p] = <<>>]
    BY <1>10 DEF Serve, Listen
  <2>2. \A a \in Author : ~ToShow(a)'
    BY <1>1, <2>1 DEF Authors, ToShow
  <2>3. \A q \in Proc : InOrder(loaded'[q]) /\ UpTo(loaded'[q], posts)
    BY <1>1, <2>1, OrderEmpty DEF RoomOrder
  <2> QED BY <1>1, <2>1, <2>2, <2>3 DEF RoomOrder
<1>11. ASSUME NEW p \in Proc, EndServer(p)
       PROVE  RoomOrder'
  <2>1. /\ room' = <<>> /\ posts' = posts /\ loaded' = loaded
        /\ \A a \in Author : ~ToShow(a)'
    BY <1>11 DEF EndServer, Crash, ToShow
  <2> QED BY <1>1, <2>1, OrderEmpty DEF RoomOrder
<1>12. ASSUME NEW a \in Author, PublishMessage(a)
       PROVE  RoomOrder'
  BY <1>3, <1>4, <1>5, <1>12 DEF PublishMessage, Publish, Post, Announce
<1>13. CASE UNCHANGED serverVars
  BY <1>7, <1>13 DEF serverVars
<1>14. ASSUME NEW p \in Proc, StartProcess(p)
       PROVE  RoomOrder'
  BY <1>7, <1>14 DEF StartProcess
<1> QED BY <1>8, <1>9, <1>10, <1>11, <1>12, <1>13, <1>14 DEF ServerNext

-----------------------------------------------------------------------------
(* A disk that does not cut appends.                                       *)

LEMMA FaultyKept ==
    ASSUME [ServerNext]_serverVars
    PROVE  faulty' = faulty
<1>1. ASSUME NEW a \in Author, Publish(a)
      PROVE  faulty' = faulty
  BY <1>1 DEF Publish, Post, Announce, Begin, Save, SaveFail, SaveCut, Broadcast, disk
<1> QED BY <1>1 DEF ServerNext, StartProcess, RoomCreate, SetupHostKey, Serve, EndServer,
                    PublishMessage, Crash, serverVars, vars, disk

(* message_save then adds the record, and may rotate the file.             *)
LEMMA GoodSave ==
    ASSUME LogInv, ~faulty, NEW a \in Author, Save(a)
    PROVE  /\ torn' = FALSE /\ log \in Seq(Message) /\ log' \in Seq(Message)
           /\ msg[a] \in Message /\ ToSet(log') \subseteq ToSet(log) \cup {msg[a]}
           /\ ToSet(BackupRecords) \cup ToSet(LogRecords) \cup replaced \cup {msg[a]}
                 \subseteq ToSet(BackupRecords') \cup ToSet(LogRecords') \cup replaced'
<1> DEFINE m == msg[a]
<1>1. /\ torn = FALSE /\ log \in Seq(Message) /\ m \in Message
      /\ log \in Seq(Line) /\ backup \in Seq(Line) /\ replaced \subseteq Line
      /\ Rotated(Appended(m), FALSE)
  BY DEF LogInv, Whole, Save, ServerTypes, ServerTypeOK, TypeOK, Authors
<1>2. Appended(m) = Append(log, m) /\ Appended(m) \in Seq(Line)
  BY <1>1, AppendedType
<1>3. /\ Append(log, m) \in Seq(Message) /\ ToSet(Append(log, m)) = ToSet(log) \cup {m}
  BY <1>1, OrderAppend
<1>4. LogRecords = log /\ Valid(Append(log, m)) = Append(log, m)
  BY <1>1, <1>3, ValidWhole DEF LogRecords
<1>5. ToSet(BackupRecords) \subseteq ToSet(backup)
  <2>1. /\ Valid(backup) \in Seq(Message)
        /\ \A k \in 1 .. Len(Valid(backup)) :
              \E i \in 1 .. Len(backup) : Valid(backup)[k] = backup[i]
    BY <1>1, ValidType
  <2>2. /\ ToSet(BackupRecords) = {Valid(backup)[k] : k \in 1 .. Len(Valid(backup))}
        /\ ToSet(backup) = {backup[i] : i \in 1 .. Len(backup)}
    BY <1>1, <2>1, LenProperties DEF ToSet, BackupRecords
  <2> QED BY <2>1, <2>2
<1> HIDE DEF m
<1>6. /\ torn' \in {FALSE, FALSE}
      /\ \/ /\ BackupRecords' = Append(log, m) /\ LogRecords' = <<>> /\ log' = <<>>
            /\ replaced' = replaced \cup ToSet(backup)
         \/ /\ BackupRecords' = BackupRecords /\ LogRecords' = Append(log, m)
            /\ log' = Append(log, m) /\ replaced' = replaced
  BY <1>1, <1>2, <1>4, RotatedRecords
<1>7. /\ torn' = FALSE /\ log' \in Seq(Message) /\ ToSet(log') \subseteq ToSet(log) \cup {m}
      /\ ToSet(BackupRecords) \cup ToSet(LogRecords) \cup replaced \cup {m}
            \subseteq ToSet(BackupRecords') \cup ToSet(LogRecords') \cup replaced'
  BY <1>3, <1>4, <1>5, <1>6, OrderEmpty
<1> QED BY <1>1, <1>7 DEF m

LEMMA WholeKept ==
    ASSUME LogInv, [ServerNext]_serverVars
    PROVE  Whole'
<1>1. SUFFICES ASSUME ~faulty
               PROVE  torn' = FALSE /\ log' \in Seq(Message)
  BY FaultyKept DEF Whole
<1>2. torn = FALSE /\ log \in Seq(Message)
  BY <1>1 DEF LogInv, Whole
<1>3. ASSUME NEW a \in Author, Publish(a)
      PROVE  torn' = FALSE /\ log' \in Seq(Message)
  <2>1. CASE Save(a)
    BY <1>1, <2>1, GoodSave
  <2>2. CASE ~Save(a)
    BY <1>1, <1>2, <1>3, <2>2
       DEF Publish, Post, Announce, Begin, SaveFail, SaveCut, Broadcast, disk
  <2> QED BY <2>1, <2>2
<1>4. ASSUME NEW p \in Proc, EndServer(p)
      PROVE  torn' = FALSE /\ log' \in Seq(Message)
  BY <1>1, <1>2, <1>4 DEF EndServer, Crash
<1> QED BY <1>2, <1>3, <1>4 DEF ServerNext, StartProcess, RoomCreate, SetupHostKey, Serve,
                                PublishMessage, serverVars, vars, disk

(* Who is pending, as a predicate.                                         *)
IsPending(a) == pc[a] = "broadcast" /\ IsUser(a)

LEMMA PendingFinish ==
    ASSUME LogInv, NEW a \in Author, Finish(a)
    PROVE  Pending' \subseteq Pending /\ Pending \subseteq Pending' \cup {msg[a]}
<1>1. /\ ~IsPending(a)'
      /\ \A b \in Author : b # a => (IsPending(b)' <=> IsPending(b)) /\ msg'[b] = msg[b]
  BY FinishTypes DEF IsPending, IsUser
<1> QED BY <1>1 DEF Pending, IsPending

LEMMA PendingSavedKept ==
    ASSUME LogInv, [ServerNext]_serverVars
    PROVE  PendingSaved'
<1> DEFINE D == ToSet(BackupRecords) \cup ToSet(LogRecords) \cup replaced
<1>1. SUFFICES ASSUME ~faulty
               PROVE  acked' \cup Pending' \subseteq D'
  BY FaultyKept DEF PendingSaved
<1>2. /\ acked \cup Pending \subseteq D
      /\ pc \in [Author -> {"idle", "save", "broadcast"}] /\ msg \in [Author -> Line]
  BY <1>1 DEF LogInv, PendingSaved, ServerTypes, ServerTypeOK, TypeOK
<1>3. ASSUME UNCHANGED disk
      PROVE  D' = D
  BY <1>3 DEF disk, BackupRecords, LogRecords
<1> HIDE DEF D
<1>4. ASSUME UNCHANGED <<disk, acked, pc, msg>>
      PROVE  acked' \cup Pending' \subseteq D'
  BY <1>2, <1>3, <1>4 DEF Pending, IsUser
<1>5. ASSUME NEW a \in Author, NEW kind \in {"user", "system"},
             NEW to \in {"save", "broadcast"}, Begin(a, kind, to),
             kind = "user" => to = "save"
      PROVE  acked' \cup Pending' \subseteq D'
  <2>1. /\ pc'[a] = to /\ msg'[a].kind = kind /\ UNCHANGED <<disk, acked>>
        /\ \A b \in Author : b # a => pc'[b] = pc[b] /\ msg'[b] = msg[b]
    BY <1>2, <1>5 DEF Begin
  <2>2. ~IsPending(a)'
    BY <1>5, <2>1 DEF IsPending, IsUser
  <2>3. \A b \in Author : IsPending(b)' => IsPending(b) /\ msg'[b] = msg[b]
    BY <2>1, <2>2 DEF IsPending, IsUser
  <2>4. Pending' \subseteq Pending
    BY <2>3 DEF Pending, IsPending
  <2> QED BY <1>2, <1>3, <2>1, <2>4
<1>6. ASSUME NEW a \in Author, Save(a)
      PROVE  acked' \cup Pending' \subseteq D'
  <2>1. D \cup {msg[a]} \subseteq D'
    BY <1>1, <1>6, GoodSave DEF D
  <2>2. Pending' \subseteq Pending \cup {msg[a]} /\ acked' = acked
    <3>1. CASE IsUser(a)
      <4>1. pc' = [pc EXCEPT ![a] = "broadcast"] /\ msg' = msg /\ acked' = acked
        BY <1>6, <3>1 DEF Save
      <4>2. \A b \in Author : IsPending(b)' => b = a \/ IsPending(b)
        BY <1>2, <4>1 DEF IsPending, IsUser
      <4> QED BY <4>1, <4>2 DEF Pending, IsPending
    <3>2. CASE ~IsUser(a)
      BY <1>6, <3>2, PendingFinish DEF Save
    <3> QED BY <3>1, <3>2
  <2> QED BY <1>2, <2>1, <2>2
<1>7. ASSUME NEW a \in Author, SaveFail(a)
      PROVE  acked' \cup Pending' \subseteq D'
  BY <1>2, <1>3, <1>7, PendingFinish DEF SaveFail
<1>8. ASSUME NEW a \in Author, Broadcast(a)
      PROVE  acked' \cup Pending' \subseteq D'
  <2>1. D' = D
    BY <1>3, <1>8 DEF Broadcast
  <2>2. CASE IsUser(a)
    <3>1. msg[a] \in Pending
      BY <1>8, <2>2 DEF Broadcast, Pending
    <3>2. acked' = acked \cup {msg[a]} /\ Finish(a)
      BY <1>8, <2>2 DEF Broadcast
    <3> QED BY <1>2, <2>1, <3>1, <3>2, PendingFinish
  <2>3. CASE ~IsUser(a)
    <3>1. pc' = [pc EXCEPT ![a] = "save"] /\ msg' = msg /\ acked' = acked
      BY <1>8, <2>3 DEF Broadcast
    <3>2. \A b \in Author : IsPending(b)' => IsPending(b)
      BY <1>2, <3>1 DEF IsPending, IsUser
    <3>3. Pending' \subseteq Pending
      BY <3>1, <3>2 DEF Pending, IsPending
    <3> QED BY <1>2, <2>1, <3>1, <3>3
  <2> QED BY <2>2, <2>3
<1>9. ASSUME NEW p \in Proc, EndServer(p)
      PROVE  acked' \cup Pending' \subseteq D'
  <2>1. /\ UNCHANGED <<log, backup, replaced, acked>>
        /\ pc' = [a \in Author |-> "idle"]
    BY <1>9 DEF EndServer, Crash
  <2>2. Pending' = {}
    BY <2>1 DEF Pending
  <2>3. D' = D
    BY <2>1 DEF D, BackupRecords, LogRecords
  <2> QED BY <1>2, <2>1, <2>2, <2>3
<1>10. ASSUME NEW a \in Author, PublishMessage(a)
       PROVE  acked' \cup Pending' \subseteq D'
  <2>1. ~SaveCut(a)
    BY <1>1 DEF SaveCut
  <2> QED BY <1>5, <1>6, <1>7, <1>8, <1>10, <2>1 DEF PublishMessage, Publish, Post, Announce
<1>11. ASSUME NEW p \in Proc, StartProcess(p) \/ RoomCreate(p) \/ SetupHostKey(p) \/ Serve(p)
       PROVE  acked' \cup Pending' \subseteq D'
  BY <1>4, <1>11 DEF StartProcess, RoomCreate, SetupHostKey, Serve, vars
<1>12. CASE UNCHANGED serverVars
  BY <1>4, <1>12 DEF serverVars, vars
<1> QED BY <1>9, <1>10, <1>11, <1>12 DEF ServerNext

(* While a lone server serves, no process has a room loaded.               *)
LEMMA LoneServer ==
    ASSUME LogInv, alone, up
    PROVE  Loading = {}
<1>1. PICK p \in Proc : step[p] = "serving"
  BY DEF LogInv, ServerTypes, ServerTypeOK, Serving
<1>2. \A q \in Proc : step[q] # "off" => q = p
  BY <1>1 DEF LogInv, ServerTypes, KeyInv, LoneInv
<1> QED BY <1>1, <1>2 DEF Loading

(* Only loading the log makes a process one that has loaded it.            *)
LEMMA LoadingSetup ==
    ASSUME LogInv, NEW p \in Proc, Start(p) \/ Setup(p)
    PROVE  /\ Loading' \subseteq Loading
           /\ step'[p] = "off" => p \notin Loading'
<1>1. step \in [Proc -> {"off", "load", "stat", "unlink", "fix", "generate", "write",
                         "rename", "listen", "serving"}] /\ KeyInv
  BY DEF LogInv, ServerTypes, KeyInv, KeyTypeOK
<1>2. \A q \in Proc : q # p => step'[q] = step[q]
  BY <1>1, NotServing
<1>3. p \in Loading' => p \in Loading
  <2>1. CASE Start(p)
    BY <1>1, <2>1 DEF Start, At, Loading
  <2>2. CASE Stat(p)
    BY <1>1, <2>2 DEF Stat, At, Loading
  <2>3. CASE Unlink(p) \/ FixMode(p) \/ ExportOpen(p) \/ ExportWrite(p) \/ Rename(p)
    BY <1>1, <2>3 DEF Unlink, FixMode, ExportOpen, ExportWrite, Rename, At, Loading
  <2>4. CASE RenameFails(p) \/ GiveUp(p)
    BY <1>1, <2>4 DEF RenameFails, GiveUp, Gone, Loading
  <2> QED BY <2>1, <2>2, <2>3, <2>4 DEF Setup
<1> QED BY <1>2, <1>3 DEF Loading

LEMMA FilledKept ==
    ASSUME LogInv, [ServerNext]_serverVars, alone' = alone
    PROVE  Filled'
<1>1. SUFFICES ASSUME ~faulty, alone, NEW q \in Loading'
               PROVE  loaded'[q] = Loaded'
  BY FaultyKept DEF Filled
<1>2. /\ \A r \in Loading : loaded[r] = Loaded
      /\ loaded \in [Proc -> Seq(Message)] /\ q \in Proc
      /\ step \in [Proc -> {"off", "load", "stat", "unlink", "fix", "generate", "write",
                            "rename", "listen", "serving"}]
  BY <1>1 DEF LogInv, ServerTypes, ServerTypeOK, KeyTypeOK, Filled, Loading
<1>3. ASSUME UNCHANGED <<log, torn>>
      PROVE  Loaded' = Loaded
  <2>1. Lines' = Lines
    BY <1>3 DEF Lines
  <2> QED BY <2>1 DEF Loaded
<1>4. ASSUME up, Loading' \subseteq Loading
      PROVE  FALSE
  BY <1>1, <1>4, LoneServer
<1>5. ASSUME NEW a \in Author, PublishMessage(a)
      PROVE  FALSE
  <2>1. up /\ step' = step
    BY <1>5 DEF PublishMessage, Publish, Post, Announce, Begin, Save, SaveFail, SaveCut,
                Broadcast, keyVars
  <2>2. Loading' = Loading
    BY <2>1 DEF Loading
  <2> QED BY <1>4, <2>1, <2>2
<1>6. ASSUME NEW p \in Proc, StartProcess(p) \/ SetupHostKey(p)
      PROVE  loaded'[q] = Loaded'
  <2>1. UNCHANGED <<log, torn>> /\ (Start(p) \/ Setup(p))
    BY <1>6 DEF StartProcess, SetupHostKey, vars, disk
  <2>2. Loading' \subseteq Loading /\ (step'[p] = "off" => p \notin Loading')
    BY <2>1, LoadingSetup
  <2>3. q \in Loading /\ (q = p => step'[p] # "off")
    BY <1>1, <2>2
  <2>4. loaded'[q] = loaded[q]
    BY <1>2, <1>6, <2>3 DEF StartProcess, SetupHostKey
  <2> QED BY <1>2, <1>3, <2>1, <2>3, <2>4
<1>7. ASSUME NEW p \in Proc, RoomCreate(p)
      PROVE  loaded'[q] = Loaded'
  <2>1. /\ UNCHANGED <<log, torn>> /\ loaded' = [loaded EXCEPT ![p] = Loaded]
        /\ step' = [step EXCEPT ![p] = "stat"]
    BY <1>7 DEF RoomCreate, LogLoaded, At, vars, disk
  <2>2. CASE q = p
    BY <1>2, <1>3, <2>1, <2>2
  <2>3. CASE q # p
    <3>1. q \in Loading
      BY <1>1, <1>2, <2>1, <2>3 DEF Loading
    <3> QED BY <1>2, <1>3, <2>1, <2>3, <3>1
  <2> QED BY <2>2, <2>3
<1>8. ASSUME NEW p \in Proc, Serve(p)
      PROVE  loaded'[q] = Loaded'
  <2>1. /\ UNCHANGED <<log, torn>> /\ loaded' = [loaded EXCEPT ![p] = <<>>]
        /\ step' = [step EXCEPT ![p] = "serving"]
    BY <1>8 DEF Serve, Listen, At, disk
  <2>2. q \in Loading /\ q # p
    BY <1>1, <1>2, <2>1 DEF Loading
  <2> QED BY <1>2, <1>3, <2>1, <2>2
<1>9. ASSUME NEW p \in Proc, EndServer(p)
      PROVE  FALSE
  <2>1. up /\ step' = [step EXCEPT ![p] = "off"]
    BY <1>9 DEF EndServer, Crash, Stop, Gone
  <2>2. Loading' \subseteq Loading
    BY <1>2, <2>1 DEF Loading
  <2> QED BY <1>4, <2>1, <2>2
<1>10. CASE UNCHANGED serverVars
  <2>1. UNCHANGED <<log, torn>> /\ step' = step /\ loaded' = loaded
    BY <1>10 DEF serverVars, keyVars, vars, disk
  <2>2. q \in Loading
    BY <1>1, <2>1 DEF Loading
  <2> QED BY <1>2, <1>3, <2>1, <2>2
<1> QED BY <1>5, <1>6, <1>7, <1>8, <1>9, <1>10 DEF ServerNext

-----------------------------------------------------------------------------

LEMMA LogInit == ServerInit => LogInv
<1> SUFFICES ASSUME ServerInit PROVE LogInv
  OBVIOUS
<1>1. KeyInv /\ Serving = {} /\ Loading = {}
  BY KeyInitInv DEF ServerInit, KeyInit, Serving, Loading
<1>2. /\ MaxMessages \in Nat \ {0} /\ MaxPosts \in Nat /\ MaxCrashes \in Nat
      /\ <<>> \in Seq(Line) /\ BackupRecords = <<>> /\ LogRecords = <<>>
  BY PublicationAssumption, ValidEmpty, EmptySeq
     DEF ServerInit, Empty, BackupRecords, LogRecords
<1>3. TypeOK
  <2>1. room \in Seq(Message) /\ Len(room) <= MaxMessages
    BY <1>2, OrderEmpty DEF ServerInit, Empty
  <2>2. /\ pc \in [Author -> {"idle", "save", "broadcast"}] /\ msg \in [Author -> Line]
    BY BadLine DEF ServerInit, Empty, NoMsg
  <2>3. posts \in 0 .. MaxPosts /\ crashes \in 0 .. MaxCrashes
    BY <1>2 DEF ServerInit, Empty
  <2> QED BY <1>2, <2>1, <2>2, <2>3 DEF ServerInit, Empty, TypeOK
<1>4. ServerTypes
  <2>1. /\ loaded \in [Proc -> Seq(Message)]
        /\ \A p \in Proc : Len(loaded[p]) <= MaxMessages
    BY <1>2, OrderEmpty DEF ServerInit
  <2>2. Authors /\ up = FALSE
    BY DEF ServerInit, Empty, Authors
  <2> QED BY <1>1, <1>3, <2>1, <2>2 DEF ServerTypes, ServerTypeOK, KeyInv
<1>5. \A a \in Author : pc[a] = "idle"
  BY DEF ServerInit, Empty
<1>6. DiskOrder
  BY <1>2, <1>5, OrderEmpty DEF DiskOrder, ToSave
<1>7. RoomOrder
  BY <1>5, OrderEmpty DEF ServerInit, Empty, RoomOrder, ToShow
<1>8. Whole
  BY OrderEmpty DEF ServerInit, Empty, Whole
<1>9. PendingSaved
  BY <1>5 DEF ServerInit, Empty, PendingSaved, Pending
<1>10. Filled
  BY <1>1 DEF ServerInit, Filled
<1> QED BY <1>4, <1>6, <1>7, <1>8, <1>9, <1>10 DEF LogInv

(* LogInv holds in every state of Server: however authors, servers that    *)
(* start and the crash interleave.                                         *)
THEOREM LogInvariant == ServerSpec => []LogInv
<1>1. LogInv /\ [ServerNext]_serverVars => LogInv'
  <2> SUFFICES ASSUME LogInv, [ServerNext]_serverVars
               PROVE  LogInv'
    OBVIOUS
  <2>1. KeyInv'
    BY ServerStepsKey, KeyNextInv DEF LogInv, ServerTypes
  <2>2. ServerTypes'
    <3>1. CASE UNCHANGED serverVars
      BY <2>1, <3>1 DEF LogInv, ServerTypes, ServerTypeOK, TypeOK, KeyInv, Authors, Serving,
                        serverVars, vars, disk, keyVars
    <3> QED BY <2>1, <3>1, PublishTypes, ProcessTypes DEF ServerNext, PublishMessage
  <2>3. alone' = alone
    BY ServerStepsKey DEF KeyNext, Start, LogLoaded, Setup, Stat, Unlink, FixMode, ExportOpen,
       ExportWrite, Rename, RenameFails, GiveUp, Listen, Stop, keyVars
  <2> QED BY <2>2, <2>3, DiskOrderKept, RoomOrderKept, WholeKept, PendingSavedKept,
             FilledKept DEF LogInv
<1> QED BY <1>1, LogInit, PTL DEF ServerSpec

(* The types of the whole server, and that it serves exactly while one     *)
(* process does.                                                           *)
THEOREM ServerTypesAlways == ServerSpec => []ServerTypeOK
<1>1. LogInv => ServerTypeOK
  BY DEF LogInv, ServerTypes
<1> QED BY <1>1, LogInvariant, PTL

(* An author's messages stand in posting order, each once, in the room and *)
(* in what message_dump_text and the backup give back, for any number of   *)
(* authors, rotations, cut appends, crashes and restarts.                  *)
THEOREM AuthorOrderAlways == ServerSpec => []AuthorOrder
<1>1. LogInv => AuthorOrder
  <2> SUFFICES ASSUME LogInv PROVE AuthorOrder
    OBVIOUS
  <2>1. Recovered = BackupRecords \o LogRecords
    BY DumpedAll DEF LogInv, ServerTypes, ServerTypeOK, TypeOK, Recovered, BackupRecords
  <2>2. InOrder(BackupRecords \o LogRecords)
    BY RecordsType, OrderConcat DEF LogInv, DiskOrder
  <2> QED BY <2>1, <2>2 DEF LogInv, RoomOrder, AuthorOrder
<1> QED BY <1>1, LogInvariant, PTL

(* A message that was reported as posted is in the log or in a backup, if  *)
(* the disk does not cut appends, wherever the process ended.              *)
THEOREM AckedSavedAlways == ServerSpec => []AckedSaved
<1>1. LogInv => AckedSaved
  <2> SUFFICES ASSUME LogInv, ~faulty
               PROVE  acked \subseteq ToSet(Recovered) \cup replaced
    BY DEF AckedSaved
  <2>1. Recovered = BackupRecords \o LogRecords
    BY DumpedAll DEF LogInv, ServerTypes, ServerTypeOK, TypeOK, Recovered, BackupRecords
  <2>2. ToSet(BackupRecords \o LogRecords) = ToSet(BackupRecords) \cup ToSet(LogRecords)
    <3>1. \A s : ToSet(s) = Range(s)
      BY DEF ToSet, Range
    <3>2. Range(BackupRecords \o LogRecords) = Range(BackupRecords) \cup Range(LogRecords)
      BY RecordsType, RangeConcatenation
    <3> QED BY <3>1, <3>2
  <2> QED BY <2>1, <2>2 DEF LogInv, PendingSaved
<1> QED BY <1>1, LogInvariant, PTL

(* A new server shows what message_load found.                             *)
LEMMA ServeShows ==
    ASSUME LogInv, ServerNext, ~up, up', alone, ~faulty
    PROVE  room' = Loaded
<1>1. PICK p \in Proc : Serve(p)
  <2>1. \A p \in Proc : ~StartProcess(p) /\ ~RoomCreate(p) /\ ~SetupHostKey(p)
    BY DEF StartProcess, RoomCreate, SetupHostKey, vars
  <2>2. \A p \in Proc : ~EndServer(p)
    BY DEF EndServer, Crash
  <2>3. \A a \in Author : ~PublishMessage(a)
    BY DEF PublishMessage, Publish, Post, Announce, Begin, Save, SaveFail, SaveCut, Broadcast
  <2> QED BY <2>1, <2>2, <2>3 DEF ServerNext
<1>2. p \in Loading /\ room' = loaded[p]
  BY <1>1 DEF Serve, Listen, At, Loading
<1> QED BY <1>2 DEF LogInv, Filled

(* Servers that are started one after the other show every message that    *)
(* was acknowledged before, but for what rotation has moved out of the log *)
(* and what a room full of later records has no space for.                 *)
THEOREM RestartShowsAckedAlways == ServerSpec => RestartShowsAcked
<1> DEFINE Shown ==
        /\ \A i, j \in 1 .. Len(room') : i < j => SavedBefore(room'[i], room'[j])
        /\ \A m \in acked :
              \/ m \in ToSet(room') \cup ToSet(Valid(backup)) \cup replaced
              \/ Len(room') = MaxMessages /\ \A r \in ToSet(room') : SavedBefore(m, r)
<1>1. ASSUME LogInv, ServerNext, ~up, up', alone, ~faulty
      PROVE  Shown
  <2> DEFINE n == Len(log)
             k == Len(Loaded)
  <2>1. /\ room' = Loaded /\ log \in Seq(Message) /\ torn = FALSE
        /\ n \in Nat /\ k \in Nat
    <3>1. room' = Loaded /\ log \in Seq(Message) /\ torn = FALSE /\ log \in Seq(Line)
      BY <1>1, ServeShows DEF LogInv, Whole, ServerTypes, ServerTypeOK, TypeOK
    <3> QED BY <3>1, LoadedRecords, LenProperties
  <2>2. PICK first \in 1 .. n + 1 :
           /\ first = 1 \/ k = MaxMessages
           /\ k = n - first + 1
           /\ \A i \in 1 .. k : Loaded[i] = log[first + i - 1]
    BY <1>1, <2>1, LoadedRecords DEF LogInv, ServerTypes, ServerTypeOK, TypeOK
  <2>3. /\ ToSet(room') = {Loaded[i] : i \in 1 .. k}
        /\ ToSet(log) = {log[i] : i \in 1 .. n}
    BY <2>1 DEF ToSet
  <2>4. Len(room') = k
    BY <2>1
  <2> HIDE DEF n, k
  <2>5. \A i \in 1 .. k : first + i - 1 \in 1 .. n
    BY <2>1, <2>2
  <2>6. ASSUME NEW i \in 1 .. k, NEW j \in 1 .. k, i < j
        PROVE  SavedBefore(room'[i], room'[j])
    <3>1. first + i - 1 < first + j - 1
      BY <2>1, <2>2, <2>6
    <3> QED BY <2>1, <2>2, <2>5, <3>1 DEF SavedBefore, n
  <2>7. acked \subseteq ToSet(Valid(backup)) \cup ToSet(log) \cup replaced
    <3>1. LogRecords = log
      BY <2>1, ValidWhole DEF LogRecords
    <3> QED BY <1>1, <3>1 DEF LogInv, PendingSaved, BackupRecords
  <2>8. ASSUME NEW m \in ToSet(log), m \notin ToSet(room')
        PROVE  k = MaxMessages /\ \A r \in ToSet(room') : SavedBefore(m, r)
    <3>1. PICK i \in 1 .. n : log[i] = m
      BY <2>3, <2>8
    <3>2. i < first
      <4>1. SUFFICES ASSUME first <= i PROVE FALSE
        BY <2>1, <2>2
      <4>2. i - first + 1 \in 1 .. k /\ first + (i - first + 1) - 1 = i
        BY <2>1, <2>2, <4>1
      <4>3. Loaded[i - first + 1] = m
        BY <2>2, <3>1, <4>2
      <4> QED BY <2>3, <2>8, <4>2, <4>3
    <3>3. k = MaxMessages
      BY <2>2, <3>2
    <3>4. ASSUME NEW j \in 1 .. k
          PROVE  SavedBefore(m, Loaded[j])
      <4>1. i < first + j - 1
        BY <2>1, <2>2, <3>2
      <4> QED BY <2>2, <2>5, <3>1, <4>1 DEF SavedBefore, n
    <3> QED BY <2>3, <3>3, <3>4
  <2> QED BY <2>4, <2>6, <2>7, <2>8
<1>2. LogInv /\ [ServerNext]_serverVars
         => [~up /\ up' /\ alone /\ ~faulty => Shown]_serverVars
  BY <1>1
<1> QED BY <1>2, LogInvariant, PTL DEF ServerSpec, RestartShowsAcked

-----------------------------------------------------------------------------
(* The readers of the log.  What each of them returns is compared by the   *)
(* end of another sequence that it is.                                     *)

Ends(s, t) ==
    /\ Len(s) <= Len(t)
    /\ \A i \in 1 .. Len(s) : s[i] = t[Len(t) - Len(s) + i]

LEMMA ReverseProperties ==
    ASSUME NEW E, NEW s \in Seq(E)
    PROVE  /\ Reverse(s) \in Seq(E) /\ Len(Reverse(s)) = Len(s)
           /\ \A i \in 1 .. Len(s) : Reverse(s)[i] = s[Len(s) - i + 1]
<1> DEFINE n == Len(s)
           r == [i \in 1 .. n |-> s[(n - i) + 1]]
<1>1. n \in Nat /\ \A i \in 1 .. n : s[i] \in E
  BY LenProperties, ElementOfSeq
<1>2. Reverse(s) = r
  BY DEF Reverse
<1> HIDE DEF n
<1>3. \A i \in 1 .. n : (n - i) + 1 \in 1 .. n
  BY <1>1
<1>4. r \in [1 .. n -> E]
  BY <1>1, <1>3
<1>5. r \in Seq(E) /\ Len(r) = n
  BY <1>1, <1>4
<1>6. \A i \in 1 .. n : r[i] = s[n - i + 1]
  BY <1>1
<1> QED BY <1>2, <1>5, <1>6 DEF n

LEMMA EndsIsSuffix ==
    ASSUME NEW E, NEW s \in Seq(E), NEW t \in Seq(E), Ends(s, t)
    PROVE  IsSuffix(s, t)
<1> DEFINE u == Reverse(s)
           v == Reverse(t)
           m == Len(s)
           n == Len(t)
<1>1. /\ m \in Nat /\ n \in Nat /\ m <= n
      /\ \A i \in 1 .. m : s[i] = t[n - m + i]
  BY LenProperties DEF Ends
<1>2. /\ u \in Seq(E) /\ Len(u) = m /\ \A i \in 1 .. m : u[i] = s[m - i + 1]
      /\ v \in Seq(E) /\ Len(v) = n /\ \A i \in 1 .. n : v[i] = t[n - i + 1]
  BY ReverseProperties
<1> HIDE DEF u, v, m, n
<1>3. ASSUME NEW i \in 1 .. m
      PROVE  u[i] = v[i]
  <2>1. /\ m - i + 1 \in 1 .. m /\ i \in 1 .. n
        /\ n - m + (m - i + 1) = n - i + 1
    BY <1>1, <1>3
  <2>2. s[m - i + 1] = t[n - m + (m - i + 1)]
    BY <1>1, <2>1
  <2> QED BY <1>2, <2>1, <2>2
<1>4. /\ \A i \in 1 .. m : u[i] \in E /\ v[i] \in E
      /\ m \in Int /\ 1 \in Int
  BY <1>1, <1>2, <1>3, ElementOfSeq
<1> DEFINE p == SubSeq(u, 1, m)
           q == SubSeq(v, 1, m)
<1>5. /\ p \in Seq(E) /\ Len(p) = IF 1 <= m THEN m - 1 + 1 ELSE 0
      /\ \A i \in 1 .. m - 1 + 1 : p[i] = u[1 + i - 1]
  BY <1>4, SubSeqProperties
<1>6. /\ q \in Seq(E) /\ Len(q) = IF 1 <= m THEN m - 1 + 1 ELSE 0
      /\ \A i \in 1 .. m - 1 + 1 : q[i] = v[1 + i - 1]
  BY <1>4, SubSeqProperties
<1> HIDE DEF p, q
<1>7. Len(p) = m /\ Len(q) = m /\ \A i \in 1 .. m : p[i] = u[i] /\ q[i] = v[i]
  BY <1>1, <1>5, <1>6
<1>8. p = q
  <2>1. \A i \in 1 .. Len(p) : p[i] = q[i]
    BY <1>3, <1>7
  <2> QED BY <1>5, <1>6, <1>7, <2>1, SeqEqual
<1>9. IsPrefix(u, v)
  BY <1>1, <1>2, <1>8 DEF IsPrefix, p, q
<1> QED BY <1>9 DEF IsSuffix, u, v

(* Of two ends of a sequence the shorter one ends the longer one.          *)
LEMMA EndsBoth ==
    ASSUME NEW r, NEW s, NEW t, Len(r) \in Nat, Len(s) \in Nat, Len(t) \in Nat,
           Ends(r, t), Ends(s, t), Len(r) <= Len(s)
    PROVE  Ends(r, s)
<1> DEFINE l == Len(r)
           m == Len(s)
           n == Len(t)
<1>1. /\ l \in Nat /\ m \in Nat /\ n \in Nat /\ l <= m /\ m <= n
      /\ \A i \in 1 .. l : r[i] = t[n - l + i]
      /\ \A i \in 1 .. m : s[i] = t[n - m + i]
  BY DEF Ends
<1> HIDE DEF l, m, n
<1>2. ASSUME NEW i \in 1 .. l
      PROVE  r[i] = s[m - l + i]
  <2>1. m - l + i \in 1 .. m /\ n - m + (m - l + i) = n - l + i
    BY <1>1
  <2> QED BY <1>1, <2>1
<1>3. l <= m /\ \A i \in 1 .. l : r[i] = s[m - l + i]
  BY <1>1, <1>2
<1> QED BY <1>3 DEF Ends, l, m

LEMMA EndsConcat ==
    ASSUME NEW E, NEW s \in Seq(E), NEW t \in Seq(E)
    PROVE  Ends(t, s \o t)
<1> DEFINE w == s \o t
           m == Len(s)
           n == Len(t)
<1>1. /\ m \in Nat /\ n \in Nat /\ Len(w) = m + n
      /\ \A i \in 1 .. m + n : w[i] = IF i <= m THEN s[i] ELSE t[i - m]
  BY ConcatProperties, LenProperties
<1> HIDE DEF w, m, n
<1>2. ASSUME NEW i \in 1 .. n
      PROVE  t[i] = w[Len(w) - n + i]
  <2>1. /\ Len(w) - n + i = m + i /\ m + i \in 1 .. m + n
        /\ ~(m + i <= m) /\ (m + i) - m = i
    BY <1>1
  <2>2. w[m + i] = t[i]
    BY <1>1, <2>1
  <2> QED BY <2>1, <2>2
<1>3. n <= Len(w)
  BY <1>1
<1> QED BY <1>2, <1>3 DEF Ends, w, n

(* Ends of the same length are the same.                                   *)
LEMMA EndsSame ==
    ASSUME NEW E, NEW s \in Seq(E), NEW t \in Seq(E), Ends(s, t), Len(s) = Len(t)
    PROVE  s = t
<1>1. Len(s) \in Nat /\ \A i \in 1 .. Len(s) : s[i] = t[Len(t) - Len(s) + i]
  BY LenProperties DEF Ends
<1>2. \A i \in 1 .. Len(s) : Len(t) - Len(s) + i = i
  BY <1>1
<1> QED BY <1>1, <1>2, SeqEqual

(* What comes before an end.                                               *)
LEMMA EndsSplit ==
    ASSUME NEW E, NEW s \in Seq(E), NEW t \in Seq(E), Ends(s, t)
    PROVE  \E p \in Seq(E) : t = p \o s
<1> DEFINE m == Len(s)
           n == Len(t)
           p == SubSeq(t, 1, n - m)
           w == p \o s
<1>1. /\ m \in Nat /\ n \in Nat /\ m <= n
      /\ \A i \in 1 .. m : s[i] = t[n - m + i]
      /\ \A i \in 1 .. n : t[i] \in E
  BY LenProperties, ElementOfSeq DEF Ends
<1> HIDE DEF m, n
<1>2. /\ n - m \in Int /\ 1 \in Int /\ \A i \in 1 .. n - m : t[i] \in E
  BY <1>1
<1>3. /\ p \in Seq(E) /\ Len(p) = IF 1 <= n - m THEN n - m - 1 + 1 ELSE 0
      /\ \A i \in 1 .. n - m - 1 + 1 : p[i] = t[1 + i - 1]
  BY <1>2, SubSeqProperties
<1> HIDE DEF p
<1>4. Len(p) = n - m /\ \A i \in 1 .. n - m : p[i] = t[i]
  BY <1>1, <1>3
<1>5. /\ w \in Seq(E) /\ Len(w) = Len(p) + Len(s)
      /\ \A i \in 1 .. Len(p) + Len(s) : w[i] = IF i <= Len(p) THEN p[i] ELSE s[i - Len(p)]
  BY <1>3, ConcatProperties
<1> HIDE DEF w
<1>6. /\ Len(w) = n
      /\ \A i \in 1 .. n : w[i] = IF i <= n - m THEN p[i] ELSE s[i - (n - m)]
  BY <1>1, <1>4, <1>5 DEF m
<1>7. ASSUME NEW i \in 1 .. n
      PROVE  w[i] = t[i]
  <2>1. CASE i <= n - m
    BY <1>1, <1>4, <1>6, <2>1
  <2>2. CASE ~(i <= n - m)
    <3>1. i - (n - m) \in 1 .. m /\ n - m + (i - (n - m)) = i /\ i \in 1 .. n
      BY <1>1, <2>2
    <3> QED BY <1>1, <1>6, <2>2, <3>1
  <2> QED BY <2>1, <2>2
<1>8. t = w
  BY <1>5, <1>6, <1>7, SeqEqual DEF n
<1> QED BY <1>3, <1>8 DEF w

-----------------------------------------------------------------------------
(* message_search.                                                         *)

LEMMA ByType ==
    ASSUME NEW a, NEW s \in Seq(Message)
    PROVE  /\ By(a, s) \in Seq(Message)
           /\ Len(By(a, s)) \in Nat /\ Len(By(a, s)) <= Len(s)
<1> DEFINE K == {m \in Message : m.by # a}
           b == Without(s, K)
<1> HIDE DEF K
<1>1. b \in Seq(Message \ K) /\ ReadFrom(b, s)
  BY WithoutType
<1> HIDE DEF b
<1>2. b \in Seq(Message)
  <2>1. Message \ K \subseteq Message
    OBVIOUS
  <2> QED BY <1>1, <2>1, SeqMonotonic
<1>3. By(a, s) = b
  BY DEF By, K, b
<1> QED BY <1>1, <1>2, <1>3 DEF ReadFrom

(* The author's messages in the end of a sequence are the end of those in  *)
(* all of it.                                                              *)
LEMMA ByEnds ==
    ASSUME NEW a, NEW s \in Seq(Message), NEW t \in Seq(Message), Ends(s, t)
    PROVE  Ends(By(a, s), By(a, t))
<1>1. PICK p \in Seq(Message) : t = p \o s
  BY EndsSplit
<1>2. By(a, t) = By(a, p) \o By(a, s)
  <2> DEFINE K == {m \in Message : m.by # a}
  <2> HIDE DEF K
  <2>1. Without(p \o s, K) = Without(p, K) \o Without(s, K)
    BY WithoutConcat
  <2> QED BY <1>1, <2>1 DEF By, K
<1>3. By(a, p) \in Seq(Message) /\ By(a, s) \in Seq(Message)
  BY ByType
<1> QED BY <1>2, <1>3, EndsConcat

FoundStep(s, n, f, i) ==
    IF i = 0 THEN <<>>
    ELSE Append(IF Len(f[i - 1]) < n THEN f[i - 1] ELSE Tail(f[i - 1]), s[i])

Found(s, n) == CHOOSE f : f = [i \in 0 .. Len(s) |-> FoundStep(s, n, f, i)]

LEMMA SearchedIsFound ==
    ASSUME NEW a, NEW n
    PROVE  LET s == By(a, Valid(Lines)) IN Searched(a, n) = Found(s, n)[Len(s)]
  BY DEF Searched, Found, FoundStep

LEMMA FoundExists ==
    ASSUME NEW s, NEW n, Len(s) \in Nat
    PROVE  Found(s, n) = [i \in 0 .. Len(s) |-> FoundStep(s, n, Found(s, n), i)]
<1> DEFINE T == {m \in 0 .. Len(s) : \E f : f = [i \in 0 .. m |-> FoundStep(s, n, f, i)]}
<1>1. 0 \in T
  <2> DEFINE f == [i \in 0 .. 0 |-> <<>>]
  <2>1. f = [i \in 0 .. 0 |-> FoundStep(s, n, f, i)]
    BY DEF FoundStep
  <2>2. 0 \in 0 .. Len(s)
    OBVIOUS
  <2> QED BY <2>1, <2>2
<1>2. ASSUME NEW m \in T, m < Len(s)
      PROVE  m + 1 \in T
  <2>1. m \in 0 .. Len(s) /\ m + 1 \in 0 .. Len(s)
    BY <1>2
  <2>2. PICK f : f = [i \in 0 .. m |-> FoundStep(s, n, f, i)]
    BY <1>2
  <2> DEFINE g == [i \in 0 .. m + 1 |-> IF i = m + 1 THEN FoundStep(s, n, f, i) ELSE f[i]]
  <2>3. ASSUME NEW i \in 0 .. m + 1
        PROVE  g[i] = FoundStep(s, n, g, i)
    <3>1. g[i] = FoundStep(s, n, f, i)
      BY <2>1, <2>2, <2>3
    <3>2. CASE i = 0
      BY <3>1, <3>2 DEF FoundStep
    <3>3. CASE i # 0
      <4>1. i - 1 \in 0 .. m + 1 /\ i - 1 # m + 1
        BY <2>1, <2>3, <3>3
      <4>2. g[i - 1] = f[i - 1]
        BY <4>1
      <4> HIDE DEF g
      <4> QED BY <3>1, <3>3, <4>2 DEF FoundStep
    <3> QED BY <3>2, <3>3
  <2>4. g = [i \in 0 .. m + 1 |-> g[i]]
    OBVIOUS
  <2> HIDE DEF g
  <2>5. g = [i \in 0 .. m + 1 |-> FoundStep(s, n, g, i)]
    BY <2>3, <2>4
  <2> QED BY <2>1, <2>5
<1> HIDE DEF T
<1>3. T \in SUBSET (0 .. Len(s))
  BY DEF T
<1>4. Len(s) \in T
  <2>1. \A i \in 0 .. Len(s) : i \in T
    BY <1>1, <1>2, <1>3, IndexInduction
  <2> QED BY <2>1
<1>5. \E f : f = [i \in 0 .. Len(s) |-> FoundStep(s, n, f, i)]
  BY <1>4 DEF T
<1> QED BY <1>5 DEF Found

(* After i matches the last n of them are kept.                            *)
LEMMA FoundLast ==
    ASSUME NEW s \in Seq(Message), NEW n \in Nat \ {0}
    PROVE  LET r == Found(s, n)[Len(s)]
           IN  /\ r \in Seq(Message) /\ Len(r) = IF Len(s) < n THEN Len(s) ELSE n
               /\ Ends(r, s)
<1> DEFINE F == Found(s, n)
           Kept(i) == /\ F[i] \in Seq(Message) /\ Len(F[i]) = IF i < n THEN i ELSE n
                      /\ \A k \in 1 .. Len(F[i]) : F[i][k] = s[i - Len(F[i]) + k]
           T == {i \in 0 .. Len(s) : Kept(i)}
<1>1. Len(s) \in Nat /\ \A i \in 1 .. Len(s) : s[i] \in Message
  BY LenProperties, ElementOfSeq
<1>2. \A i \in 0 .. Len(s) : F[i] = FoundStep(s, n, F, i)
  BY <1>1, FoundExists
<1> HIDE DEF F
<1>3. 0 \in T
  <2>1. F[0] = <<>> /\ <<>> \in Seq(Message) /\ Len(<<>>) = 0
    BY <1>1, <1>2, EmptySeq DEF FoundStep
  <2>2. F[0] \in Seq(Message) /\ Len(F[0]) = 0
    BY <2>1
  <2>3. Kept(0)
    BY <2>2
  <2> QED BY <1>1, <2>3
<1>4. ASSUME NEW i \in T, i < Len(s)
      PROVE  i + 1 \in T
  <2>1. i + 1 \in 1 .. Len(s) /\ i + 1 \in 0 .. Len(s) /\ (i + 1) - 1 = i /\ i \in Nat
        /\ i + 1 # 0
    BY <1>1, <1>4
  <2>2. Kept(i)
    BY <1>4
  <2> HIDE DEF T
  <2> DEFINE u == F[i]
             v == IF Len(u) < n THEN u ELSE Tail(u)
             e == s[i + 1]
             w == F[i + 1]
  <2>3. w = Append(v, e) /\ e \in Message
    BY <1>1, <1>2, <2>1 DEF FoundStep
  <2>4. /\ u \in Seq(Message) /\ Len(u) = IF i < n THEN i ELSE n
        /\ \A k \in 1 .. Len(u) : u[k] = s[i - Len(u) + k]
    BY <2>2
  <2> HIDE DEF u, w, e
  <2> DEFINE m == IF i < n THEN i ELSE n - 1
  <2>5. /\ v \in Seq(Message) /\ Len(v) = m
        /\ \A k \in 1 .. m : v[k] = s[i - m + k]
    <3>1. CASE i < n
      BY <2>4, <3>1
    <3>2. CASE ~(i < n)
      <4>1. Len(u) = n /\ v = Tail(u) /\ u # <<>>
        <5>1. Len(u) = n /\ ~(Len(u) < n)
          BY <2>4, <3>2
        <5>2. u # <<>>
          BY <5>1, EmptySeq
        <5> QED BY <5>1, <5>2
      <4> HIDE DEF v
      <4>2. /\ v \in Seq(Message) /\ Len(v) = n - 1
            /\ \A k \in 1 .. Len(v) : v[k] = u[k + 1]
        BY <2>4, <4>1, HeadTailProperties
      <4>3. ASSUME NEW k \in 1 .. n - 1
            PROVE  v[k] = s[i - (n - 1) + k]
        <5>1. k + 1 \in 1 .. n /\ i - n + (k + 1) = i - (n - 1) + k
          BY <2>1, <4>3
        <5>2. u[k + 1] = s[i - n + (k + 1)]
          BY <2>4, <4>1, <5>1
        <5> QED BY <4>2, <5>1, <5>2
      <4> QED BY <3>2, <4>2, <4>3
    <3> QED BY <3>1, <3>2
  <2> HIDE DEF v
  <2>6. m \in Nat /\ m + 1 = (IF i + 1 < n THEN i + 1 ELSE n)
    BY <2>1
  <2> HIDE DEF m
  <2>7. /\ w \in Seq(Message) /\ Len(w) = m + 1 /\ w[m + 1] = e
        /\ \A k \in 1 .. m : w[k] = v[k]
    BY <2>3, <2>5, AppendProperties
  <2>8. ASSUME NEW k \in 1 .. m + 1
        PROVE  w[k] = s[(i + 1) - (m + 1) + k]
    <3>1. (i + 1) - (m + 1) + k = i - m + k
      BY <2>1, <2>6
    <3>2. CASE k \in 1 .. m
      BY <2>5, <2>7, <3>1, <3>2
    <3>3. CASE k = m + 1
      <4>1. i - m + k = i + 1
        BY <2>1, <2>6, <3>3
      <4> QED BY <2>7, <3>1, <3>3, <4>1 DEF e
    <3> QED BY <2>6, <3>2, <3>3
  <2>9. Kept(i + 1)
    BY <2>6, <2>7, <2>8 DEF w
  <2> QED BY <2>1, <2>9 DEF T
<1>5. T \in SUBSET (0 .. Len(s))
  OBVIOUS
<1> HIDE DEF T
<1>6. \A i \in 0 .. Len(s) : i \in T
  BY <1>1, <1>3, <1>4, <1>5, IndexInduction
<1>7. Kept(Len(s))
  <2>1. Len(s) \in T
    BY <1>1, <1>6
  <2> QED BY <2>1 DEF T
<1> DEFINE r == F[Len(s)]
<1>8. /\ r \in Seq(Message) /\ Len(r) = IF Len(s) < n THEN Len(s) ELSE n
      /\ \A k \in 1 .. Len(r) : r[k] = s[Len(s) - Len(r) + k]
  BY <1>7
<1> HIDE DEF r
<1>9. Len(r) <= Len(s)
  BY <1>1, <1>8
<1>10. Ends(r, s)
  BY <1>8, <1>9 DEF Ends
<1>11. r = Found(s, n)[Len(s)]
  BY DEF r, F
<1> QED BY <1>8, <1>10, <1>11

-----------------------------------------------------------------------------
(* message_dump_text and its ring.                                         *)

LEMMA Remainder ==
    ASSUME NEW a \in Nat, NEW n \in Nat \ {0}
    PROVE  /\ a % n \in 0 .. n - 1
           /\ \E q \in Int : a = n * q + (a % n)
<1>1. a % n \in 0 .. n - 1
  OBVIOUS
<1>2. a \div n \in Int /\ a = n * (a \div n) + (a % n)
  OBVIOUS
<1> QED BY <1>1, <1>2

LEMMA RemainderIs ==
    ASSUME NEW q \in Int, NEW n \in Nat \ {0}, NEW r \in 0 .. n - 1
    PROVE  (n * q + r) % n = r
  OBVIOUS

LEMMA RemainderSmall ==
    ASSUME NEW a \in Nat, NEW n \in Nat \ {0}, a < n
    PROVE  a % n = a
  OBVIOUS

(* Numbers with the same place in the ring are at least a round apart.     *)
LEMMA RoundApart ==
    ASSUME NEW a \in Nat, NEW b \in Nat, NEW n \in Nat \ {0}, a % n = b % n, a < b
    PROVE  b - a >= n
  OBVIOUS

LEMMA RemainderSum ==
    ASSUME NEW a \in Nat, NEW b \in Nat, NEW n \in Nat \ {0}
    PROVE  ((a % n) + b) % n = (a + b) % n
<1> DEFINE r == a % n
           c == r + b
           z == c % n
<1>1. PICK q \in Int : a = n * q + r
  BY Remainder
<1>2. r \in 0 .. n - 1
  BY Remainder
<1> HIDE DEF r
<1>3. c \in Nat
  BY <1>2
<1>4. PICK p \in Int : c = n * p + z
  BY <1>3, Remainder
<1>5. z \in 0 .. n - 1
  BY <1>3, Remainder
<1> HIDE DEF z
<1>6. n * q + n * p = n * (q + p) /\ q + p \in Int
  OBVIOUS
<1>7. a + b = n * (q + p) + z
  BY <1>1, <1>2, <1>4, <1>5, <1>6
<1>8. (n * (q + p) + z) % n = z
  BY <1>5, <1>6, RemainderIs
<1> QED BY <1>7, <1>8 DEF r, z

LEMMA RemainderRound ==
    ASSUME NEW a \in Nat, NEW n \in Nat \ {0}
    PROVE  (a + n) % n = a % n
<1> DEFINE r == a % n
<1>1. PICK q \in Int : a = n * q + r
  BY Remainder
<1>2. r \in 0 .. n - 1
  BY Remainder
<1> HIDE DEF r
<1>3. n * q + n = n * (q + 1) /\ q + 1 \in Int
  OBVIOUS
<1>4. a + n = n * (q + 1) + r
  BY <1>1, <1>2, <1>3
<1>5. (n * (q + 1) + r) % n = r
  BY <1>2, <1>3, RemainderIs
<1> QED BY <1>4, <1>5 DEF r

(* The records written to a place of the ring, and the last one of them.   *)
Slot(seen, n, k) == {i \in 1 .. seen : (i - 1) % n = k}

Capped(seen, n) == IF seen < n THEN seen ELSE n
Place(seen, n, j) == ((IF seen < n THEN 0 ELSE seen % n) + j - 1) % n

LEMMA LastInRing ==
    ASSUME NEW seen \in Nat, NEW n \in Nat \ {0}, NEW k,
           NEW i \in 1 .. seen, (i - 1) % n = k, seen - i < n
    PROVE  Max(Slot(seen, n, k)) = i
<1> DEFINE S == {j \in 1 .. seen : (j - 1) % n = k}
<1>1. ASSUME NEW j \in S
      PROVE  j <= i
  <2>1. j \in 1 .. seen /\ (j - 1) % n = (i - 1) % n /\ j - 1 \in Nat /\ i - 1 \in Nat
    BY <1>1
  <2>2. CASE i < j
    <3>1. i - 1 < j - 1
      BY <2>1, <2>2
    <3>2. (j - 1) - (i - 1) >= n
      BY <2>1, <3>1, RoundApart
    <3> QED BY <2>1, <3>2
  <2> QED BY <2>1, <2>2
<1>2. i \in S /\ S \subseteq Int
  OBVIOUS
<1> HIDE DEF S
<1>3. \A x \in S : (\A y \in S : x >= y) => x = i
  BY <1>1, <1>2
<1>4. \A y \in S : i >= y
  BY <1>1, <1>2
<1>5. Max(S) \in S /\ \A y \in S : Max(S) >= y
  BY <1>2, <1>4 DEF Max
<1> QED BY <1>3, <1>5 DEF S, Slot

LEMMA MinTwo ==
    ASSUME NEW a \in Nat, NEW b \in Nat
    PROVE  Min({a, b}) = IF a < b THEN a ELSE b
<1> DEFINE m == IF a < b THEN a ELSE b
<1>1. m \in {a, b} /\ \A y \in {a, b} : m =< y
  OBVIOUS
<1>2. \A x \in {a, b} : (\A y \in {a, b} : x =< y) => x = m
  OBVIOUS
<1> HIDE DEF m
<1>3. Min({a, b}) \in {a, b} /\ \A y \in {a, b} : Min({a, b}) =< y
  BY <1>1 DEF Min
<1> QED BY <1>2, <1>3 DEF m

(* The places of the ring from its oldest one on hold the last records.    *)
LEMMA RingInOrder ==
    ASSUME NEW seen \in Nat, NEW n \in Nat \ {0}, NEW j \in 1 .. Capped(seen, n)
    PROVE  /\ seen - Capped(seen, n) + j \in 1 .. seen
           /\ Max(Slot(seen, n, Place(seen, n, j))) = seen - Capped(seen, n) + j
<1> DEFINE start == IF seen < n THEN 0 ELSE seen % n
           i0 == seen - Capped(seen, n) + j
           k0 == (start + j - 1) % n
<1>1. i0 \in 1 .. seen /\ seen - i0 < n
  BY DEF Capped
<1>2. (i0 - 1) % n = k0
  <2>1. CASE seen < n
    <3>1. i0 - 1 = start + j - 1
      BY <2>1 DEF Capped
    <3> QED BY <3>1
  <2>2. CASE ~(seen < n)
    <3> DEFINE a == i0 - 1
    <3>1. start = seen % n /\ a \in Nat /\ j - 1 \in Nat /\ a + n = seen + (j - 1) /\ j \in Int
      BY <2>2 DEF Capped
    <3>2. start + j - 1 = (seen % n) + (j - 1)
      <4>1. seen % n \in Int
        BY Remainder
      <4> QED BY <3>1, <4>1
    <3> HIDE DEF a, start
    <3>3. ((seen % n) + (j - 1)) % n = (seen + (j - 1)) % n
      BY <3>1, RemainderSum
    <3>4. (a + n) % n = a % n
      BY <3>1, RemainderRound
    <3> QED BY <3>1, <3>2, <3>3, <3>4 DEF a
  <2> QED BY <2>1, <2>2
<1> HIDE DEF i0, k0
<1>3. Max(Slot(seen, n, k0)) = i0
  BY <1>1, <1>2, LastInRing
<1> QED BY <1>1, <1>3 DEF i0, k0, Place

(* A dump of n records is the end of the dump of all.                      *)
LEMMA DumpedLast ==
    ASSUME log \in Seq(Line), NEW n \in Nat \ {0}
    PROVE  /\ Dumped(n) \in Seq(Message)
           /\ Len(Dumped(n)) = Capped(Len(LogRecords), n)
           /\ Ends(Dumped(n), LogRecords)
<1> DEFINE s == LogRecords
           seen == Len(s)
           count == Capped(seen, n)
           d == [j \in 1 .. count |-> s[Max(Slot(seen, n, Place(seen, n, j)))]]
<1>1. s \in Seq(Message) /\ seen \in Nat /\ \A i \in 1 .. seen : s[i] \in Message
  BY LinesValid, ValidType, LenProperties, ElementOfSeq DEF LogRecords
<1>2. Dumped(n) = d
  <2> DEFINE ring == [k \in 0 .. n - 1 |-> {i \in 1 .. seen : (i - 1) % n = k}]
             start == IF seen < n THEN 0 ELSE seen % n
             place(j) == (start + j - 1) % n
  <2>1. Dumped(n) = [j \in 1 .. Min({seen, n}) |-> s[Max(ring[place(j)])]]
    BY LinesValid DEF Dumped
  <2>2. Min({seen, n}) = count
    BY <1>1, MinTwo DEF Capped
  <2>3. \A k \in 0 .. n - 1 : ring[k] = Slot(seen, n, k)
    BY DEF Slot
  <2> HIDE DEF s, ring
  <2>4. ASSUME NEW j \in 1 .. count
        PROVE  ring[place(j)] = Slot(seen, n, Place(seen, n, j))
    <3>1. start \in Nat
      BY <1>1, Remainder
    <3> HIDE DEF start
    <3>2. j \in Nat /\ start + j - 1 \in Nat
      BY <1>1, <2>4, <3>1 DEF Capped
    <3>3. place(j) \in 0 .. n - 1
      BY <3>2, Remainder
    <3>4. Place(seen, n, j) = place(j)
      BY DEF Place, start
    <3> HIDE DEF place
    <3> QED BY <2>3, <3>3, <3>4
  <2> HIDE DEF place, count, seen
  <2> QED BY <2>1, <2>2, <2>4
<1> HIDE DEF s, seen
<1>3. count \in Nat /\ count <= seen /\ count <= n
  BY <1>1 DEF Capped
<1>4. \A j \in 1 .. count : /\ seen - count + j \in 1 .. seen
                            /\ Max(Slot(seen, n, Place(seen, n, j))) = seen - count + j
  BY <1>1, RingInOrder
<1> HIDE DEF count
<1>5. \A j \in 1 .. count : d[j] = s[seen - count + j] /\ d[j] \in Message
  BY <1>1, <1>4
<1>6. d \in Seq(Message) /\ Len(d) = count
  <2>1. d \in [1 .. count -> Message]
    BY <1>5
  <2> HIDE DEF d
  <2> QED BY <1>3, <2>1
<1> HIDE DEF d
<1>7. Ends(d, s)
  BY <1>3, <1>5, <1>6 DEF Ends, seen
<1> QED BY <1>2, <1>6, <1>7 DEF s, seen, count

-----------------------------------------------------------------------------
(* The readers together.                                                   *)

(* What a restart loads is the end of the log, and as much as fits of a    *)
(* log without bad lines.                                                  *)
LEMMA LoadedLast ==
    ASSUME log \in Seq(Line)
    PROVE  /\ Loaded \in Seq(Message) /\ Len(Loaded) <= MaxMessages
           /\ Ends(Loaded, LogRecords)
           /\ Bad \notin ToSet(Lines) => Len(Loaded) = Capped(Len(LogRecords), MaxMessages)
<1> DEFINE n    == Len(Lines)
           from == IF n - MaxMessages + 1 < 1 THEN 1 ELSE n - MaxMessages + 1
           s    == SubSeq(Lines, 1, from - 1)
           t    == SubSeq(Lines, from, n)
<1>1. /\ Lines \in Seq(Line) /\ n \in Nat /\ MaxMessages \in Nat \ {0}
      /\ \A i \in 1 .. n : Lines[i] \in Line
  BY LinesValid, LenProperties, ElementOfSeq, PublicationAssumption
<1>2. Loaded = Valid(t)
  BY DEF Loaded
<1> HIDE DEF n
<1>3. /\ from \in 1 .. n + 1 /\ from \in Int
      /\ n - from + 1 = Capped(n, MaxMessages)
  BY <1>1 DEF Capped
<1> HIDE DEF from
<1>4. s \in Seq(Line)
  <2>1. \A i \in 1 .. from - 1 : Lines[i] \in Line
    BY <1>1, <1>3
  <2> QED BY <1>3, <2>1, SubSeqProperties
<1>5. /\ t \in Seq(Line) /\ Len(t) = IF from <= n THEN n - from + 1 ELSE 0
      /\ \A i \in 1 .. n - from + 1 : t[i] = Lines[from + i - 1]
  <2>1. \A i \in from .. n : Lines[i] \in Line
    BY <1>1, <1>3
  <2> QED BY <1>1, <1>3, <2>1, SubSeqProperties
<1>6. Len(t) = n - from + 1
  BY <1>1, <1>3, <1>5
<1>7. s \o t = Lines
  <2>1. /\ 1 \in 1 .. Len(Lines) + 1 /\ from - 1 \in 1 - 1 .. Len(Lines)
        /\ n \in from - 1 .. Len(Lines) /\ (from - 1) + 1 = from
    BY <1>1, <1>3 DEF n
  <2>2. s \o SubSeq(Lines, (from - 1) + 1, n) = SubSeq(Lines, 1, n)
    BY <1>1, <2>1, ConcatAdjacentSubSeq
  <2>3. SubSeq(Lines, 1, n) = Lines
    BY <1>1, SubSeqFull DEF n
  <2> QED BY <2>1, <2>2, <2>3
<1> HIDE DEF s, t
<1>8. LogRecords = Valid(s) \o Valid(t) /\ Valid(s) \in Seq(Message) /\ Valid(t) \in Seq(Message)
  BY <1>4, <1>5, <1>7, LinesValid, ValidConcat, ValidType
<1>9. Loaded \in Seq(Message) /\ Len(Loaded) <= MaxMessages
  BY LoadedRecords
<1>10. Ends(Loaded, LogRecords)
  BY <1>2, <1>8, EndsConcat
<1>11. ASSUME Bad \notin ToSet(Lines)
       PROVE  Len(Loaded) = Capped(Len(LogRecords), MaxMessages)
  <2>1. \A i \in 1 .. n : Lines[i] \in Message
    <3>1. \A i \in 1 .. n : Lines[i] # Bad
      BY <1>11 DEF ToSet, n
    <3> QED BY <1>1, <3>1 DEF Line
  <2>2. Lines \in Seq(Message)
    BY <1>1, <2>1, IsASeq DEF n
  <2>3. LogRecords = Lines
    BY <2>2, LinesValid, ValidWhole
  <2>4. t \in Seq(Message)
    <3>1. \A i \in from .. n : Lines[i] \in Message
      BY <1>1, <1>3, <2>1
    <3> QED BY <1>1, <1>3, <3>1, SubSeqProperties DEF t
  <2>5. Loaded = t
    BY <1>2, <2>4, ValidWhole
  <2> QED BY <1>3, <1>6, <2>3, <2>5 DEF n
<1> QED BY <1>9, <1>10, <1>11

(* Agree of ReadersAgree, for a log of any length.                         *)
LEMMA ReadersOfLog ==
    ASSUME log \in Seq(Line), NEW n \in 1 .. MaxMessages
    PROVE  /\ IsSuffix(Dumped(n), Dumped(0))
           /\ \A a \in Author : /\ IsSuffix(By(a, Dumped(n)), Searched(a, n))
                                /\ IsSuffix(Searched(a, n), By(a, Dumped(0)))
           /\ n = MaxMessages => IsSuffix(Loaded, Dumped(n))
           /\ n = MaxMessages /\ Bad \notin ToSet(Lines) => Loaded = Dumped(n)
<1> DEFINE all == LogRecords
           dump == Dumped(n)
<1>1. n \in Nat \ {0} /\ MaxMessages \in Nat
  BY PublicationAssumption
<1>2. Dumped(0) = all /\ Valid(Lines) = all
  BY DumpedAll, LinesValid
<1>3. all \in Seq(Message) /\ Len(all) \in Nat
  BY LinesValid, ValidType, LenProperties DEF LogRecords
<1>4. /\ dump \in Seq(Message) /\ Len(dump) = Capped(Len(all), n) /\ Ends(dump, all)
      /\ Len(dump) \in Nat
  BY <1>1, DumpedLast, LenProperties
<1> HIDE DEF all, dump
<1>5. IsSuffix(dump, all)
  BY <1>3, <1>4, EndsIsSuffix
<1>6. ASSUME NEW a \in Author
      PROVE  /\ IsSuffix(By(a, dump), Searched(a, n))
             /\ IsSuffix(Searched(a, n), By(a, all))
  <2> DEFINE s == By(a, all)
             r == By(a, dump)
             found == Searched(a, n)
  <2>1. /\ r \in Seq(Message) /\ Len(r) \in Nat /\ Len(r) <= Len(dump)
        /\ s \in Seq(Message) /\ Len(s) \in Nat
    BY <1>3, <1>4, ByType
  <2>2. found = Found(s, n)[Len(s)]
    BY <1>2, SearchedIsFound
  <2> HIDE DEF s, r, found
  <2>3. /\ found \in Seq(Message) /\ Len(found) = (IF Len(s) < n THEN Len(s) ELSE n)
        /\ Ends(found, s)
    BY <1>1, <2>1, <2>2, FoundLast
  <2>4. Ends(r, s)
    BY <1>3, <1>4, ByEnds DEF r, s
  <2>5. Len(r) <= Len(found) /\ Len(found) \in Nat
    <3>1. Len(r) <= Len(s)
      BY <2>4 DEF Ends
    <3>2. Len(r) <= n
      BY <1>1, <1>3, <1>4, <2>1 DEF Capped
    <3> QED BY <1>1, <2>1, <2>3, <3>1, <3>2
  <2>6. Ends(r, found)
    BY <2>1, <2>3, <2>4, <2>5, EndsBoth
  <2>7. IsSuffix(r, found) /\ IsSuffix(found, s)
    BY <2>1, <2>3, <2>6, EndsIsSuffix
  <2> QED BY <2>7 DEF r, s, found
<1>7. ASSUME n = MaxMessages
      PROVE  /\ IsSuffix(Loaded, dump)
             /\ Bad \notin ToSet(Lines) => Loaded = dump
  <2>1. /\ Loaded \in Seq(Message) /\ Len(Loaded) <= n /\ Ends(Loaded, all)
        /\ Len(Loaded) \in Nat
        /\ Bad \notin ToSet(Lines) => Len(Loaded) = Capped(Len(all), n)
    BY <1>7, LoadedLast, LenProperties DEF all
  <2>2. Len(Loaded) <= Len(dump)
    <3>1. Len(Loaded) <= Len(all)
      BY <2>1 DEF Ends
    <3> QED BY <1>1, <1>3, <1>4, <2>1, <3>1 DEF Capped
  <2>3. Ends(Loaded, dump)
    BY <1>3, <1>4, <2>1, <2>2, EndsBoth
  <2>4. Bad \notin ToSet(Lines) => Loaded = dump
    BY <1>4, <2>1, <2>3, EndsSame
  <2> QED BY <1>4, <2>1, <2>3, <2>4, EndsIsSuffix
<1> QED BY <1>2, <1>5, <1>6, <1>7 DEF dump

(* The readers of the log agree: a dump of n records ends the dump of all, *)
(* a search finds the last messages of an author, and a restart loads what *)
(* a dump of as many shows, less what bad lines take the place of, for any *)
(* number of records and of messages in memory.                            *)
THEOREM ReadersAgreeAlways == ServerSpec => []ReadersAgree
<1>1. LogInv => ReadersAgree
  <2> SUFFICES ASSUME LogInv PROVE ReadersAgree
    OBVIOUS
  <2>1. log \in Seq(Line)
    BY DEF LogInv, ServerTypes, ServerTypeOK, TypeOK
  <2> QED BY <2>1, ReadersOfLog DEF ReadersAgree
<1> QED BY <1>1, LogInvariant, PTL

=============================================================================
