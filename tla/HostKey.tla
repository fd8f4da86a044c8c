------------------------------- MODULE HostKey -------------------------------
(***************************************************************************)
(* setup_host_key and ssh_bind_listen (ssh_server.c): how a starting       *)
(* server finds or makes its host key.  One action is one system call on   *)
(* the key file or on the temporary one, so that processes started at the  *)
(* same time interleave, and a process can end between any two of them.    *)
(* Any of the calls can fail.                                              *)
(*                                                                         *)
(* Server composes this with the loading of the log, which comes before    *)
(* it, and with the serving of messages, which comes after.                *)
(***************************************************************************)
EXTENDS Integers, FiniteSets

CONSTANTS
    Proc,       \* process ids; one is free again when its process has ended
    MaxStarts   \* bound of the starts

ASSUME HostKeyAssumption ==
    /\ IsFiniteSet(Proc) /\ Proc # {}
    /\ MaxStarts \in Nat

VARIABLES
    alone,    \* whether a server is started only when none is there; it never changes
    keyFile,  \* host_key
    temp,     \* host_key.tmp.<pid>
    step,     \* where each process is
    born,     \* the number of its start, which its new key is known by
    starts,
    served    \* history: the keys that clients have been shown

keyVars == <<alone, keyFile, temp, step, born, starts, served>>

-----------------------------------------------------------------------------

(* A file holds nothing, a part of a key, a key (0 is the one found at the *)
(* first start), or far too much for one.  Others may read an open one.    *)
NoFile == [what |-> "none", id |-> 0, open |-> FALSE]
Files  == [what : {"none", "empty", "partial", "key", "huge"}, id : 0 .. MaxStarts,
           open : BOOLEAN]

(* host_key may have been put there by hand.                               *)
FoundFiles ==
    {NoFile} \cup [what : {"empty", "huge"}, id : {0}, open : {FALSE}]
             \cup [what : {"key"}, id : {0}, open : BOOLEAN]

KeyInit ==
    /\ alone \in BOOLEAN
    /\ keyFile \in FoundFiles
    /\ temp = [p \in Proc |-> NoFile]
    /\ step = [p \in Proc |-> "off"]
    /\ born = [p \in Proc |-> 0]
    /\ starts = 0
    /\ served = {}

(* One name for all processes.                                             *)
TempNameShared(p) == CHOOSE q \in Proc : TRUE

(* The pid is part of the name.                                            *)
TempName(p) == p

At(p, from, to) == step[p] = from /\ step' = [step EXCEPT ![p] = to]

(* The process ends; what it has put on the disk stays.                    *)
Gone(p) ==
    /\ step' = [step EXCEPT ![p] = "off"]
    /\ born' = [born EXCEPT ![p] = 0]

Serving == {p \in Proc : step[p] = "serving"}

-----------------------------------------------------------------------------

(* main, up to room_create.                                                *)
Start(p) ==
    /\ At(p, "off", "load")
    /\ alone => \A q \in Proc : step[q] = "off"
    /\ starts < MaxStarts
    /\ starts' = starts + 1
    /\ born' = [born EXCEPT ![p] = starts + 1]
    /\ UNCHANGED <<alone, keyFile, temp, served>>

(* The log has been loaded and ssh_server_init is called.                  *)
LogLoaded(p) ==
    /\ At(p, "load", "stat")
    /\ UNCHANGED <<alone, keyFile, temp, born, starts, served>>

(* Making a key at every start.                                            *)
StatAlways(p) ==
    /\ At(p, "stat", "generate")
    /\ UNCHANGED <<alone, keyFile, temp, born, starts, served>>

(* stat: an empty file is replaced, one that others can read is made       *)
(* private.                                                                *)
Stat(p) ==
    /\ \/ keyFile.what = "none" /\ At(p, "stat", "generate")
       \/ keyFile.what = "empty" /\ At(p, "stat", "unlink")
       \/ keyFile.what \in {"partial", "key"}
             /\ At(p, "stat", IF keyFile.open THEN "fix" ELSE "listen")
    /\ UNCHANGED <<alone, keyFile, temp, born, starts, served>>

(* unlink(host_key), whatever it is by now.                                *)
Unlink(p) ==
    /\ At(p, "unlink", "generate")
    /\ keyFile' = NoFile
    /\ UNCHANGED <<alone, temp, born, starts, served>>

(* chmod(host_key), whose result is not looked at.                         *)
FixMode(p) ==
    /\ At(p, "fix", "listen")
    /\ \E b \in {keyFile.open, FALSE} : keyFile' = [keyFile EXCEPT !.open = b]
    /\ UNCHANGED <<alone, temp, born, starts, served>>

(* generate_rsa_host_key takes its time; then                              *)
(* ssh_pki_export_privkey_file creates the file, under umask 0077, ...     *)
ExportOpen(p) ==
    /\ At(p, "generate", "write")
    /\ temp' = [temp EXCEPT ![TempName(p)] =
          [what |-> "partial", id |-> born[p], open |-> FALSE]]
    /\ UNCHANGED <<alone, keyFile, born, starts, served>>

(* ... and writes it when it is closed.                                    *)
ExportWrite(p) ==
    /\ At(p, "write", "rename")
    /\ temp' = [temp EXCEPT ![TempName(p)].what = "key", ![TempName(p)].id = born[p]]
    /\ UNCHANGED <<alone, keyFile, born, starts, served>>

(* chmod of the temporary file, then rename.                               *)
Rename(p) ==
    /\ At(p, "rename", "listen")
    /\ keyFile' = [temp[TempName(p)] EXCEPT !.open = FALSE]
    /\ temp' = [temp EXCEPT ![TempName(p)] = NoFile]
    /\ UNCHANGED <<alone, born, starts, served>>

RenameFails(p) ==
    /\ step[p] = "rename"
    /\ temp' = [temp EXCEPT ![TempName(p)] = NoFile]
    /\ Gone(p)
    /\ UNCHANGED <<alone, keyFile, starts, served>>

(* ssh_bind_listen reads the key file, then binds the port.                *)
Listen(p) ==
    /\ At(p, "listen", "serving")
    /\ keyFile.what = "key" /\ Serving = {}
    /\ served' = served \cup {keyFile.id}
    /\ UNCHANGED <<alone, keyFile, temp, born, starts>>

(* A start is given up: a huge key file, a call that fails, a key file     *)
(* that is gone or a port that is taken; or a signal ends the process.     *)
GiveUp(p) ==
    /\ step[p] \notin {"off", "serving"}
    /\ Gone(p)
    /\ UNCHANGED <<alone, keyFile, temp, starts, served>>

(* The server ends.                                                        *)
Stop(p) ==
    /\ p \in Serving
    /\ Gone(p)
    /\ UNCHANGED <<alone, keyFile, temp, starts, served>>

(* What a process does on the disk.                                        *)
Setup(p) ==
    \/ Stat(p) \/ Unlink(p) \/ FixMode(p)
    \/ ExportOpen(p) \/ ExportWrite(p) \/ Rename(p) \/ RenameFails(p) \/ GiveUp(p)

KeyNext == \E p \in Proc : Start(p) \/ LogLoaded(p) \/ Setup(p) \/ Listen(p) \/ Stop(p)

KeySpec == KeyInit /\ [][KeyNext]_keyVars

-----------------------------------------------------------------------------

KeyTypeOK ==
    /\ alone \in BOOLEAN
    /\ keyFile \in Files
    /\ temp \in [Proc -> Files]
    /\ step \in [Proc -> {"off", "load", "stat", "unlink", "fix", "generate", "write",
                         "rename", "listen", "serving"}]
    /\ born \in [Proc -> 0 .. MaxStarts]
    /\ starts \in 0 .. MaxStarts
    /\ served \subseteq 0 .. MaxStarts

(* host_key is never half a key, and no other user can read a key that was *)
(* generated, under either of its names: not when several servers start at *)
(* once, not when one of them ends while it writes, and not when a later   *)
(* process has the pid, and so the temporary file, of an earlier one.      *)
HostKeyWhole ==
    /\ keyFile.what # "partial"
    /\ \A f \in {keyFile} \cup {temp[p] : p \in Proc} : f.open => f.id = 0

(* As long as servers are started one after the other, clients are always  *)
(* shown the same host key, whichever starts were given up half-way.       *)
KeyKept == alone => Cardinality(served) <= 1

(* Why these hold: a process renames a whole and private file, because the *)
(* file is its own; and once a key has been shown, a lone process finds it *)
(* in host_key and does not get to generate another.                       *)
FilesInv ==
    /\ keyFile.what # "partial"
    /\ keyFile.open => keyFile.id = 0
    /\ \A p \in Proc : ~temp[p].open /\ (step[p] = "rename" => temp[p].what = "key")

LoneInv ==
    alone =>
        /\ \A p, q \in Proc : step[p] # "off" /\ step[q] # "off" => p = q
        /\ served # {} =>
              /\ keyFile.what = "key" /\ served = {keyFile.id}
              /\ \A p \in Proc : step[p] \notin {"unlink", "generate", "write", "rename"}

KeyInv == KeyTypeOK /\ FilesInv /\ LoneInv
=============================================================================
