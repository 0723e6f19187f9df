------------------------------ MODULE FileStore ------------------------------
(***************************************************************************)
(* The default persistence of the Paho C client, one file per record in a  *)
(* directory of the client (MQTTPersistenceDefault.c), under the crashes   *)
(* and write errors it is there for, and its restoration at the start      *)
(* (MQTTPersistence.c).  A record is written in two buffers, header and    *)
(* rest, through stdio: what has reached the file when the process dies is *)
(* some first part of what was written.                                    *)
(***************************************************************************)
EXTENDS Naturals, FiniteSets

CONSTANTS
  Ids,          \* message ids
  MaxCrashes,   \* crashes
  MaxErrors     \* writes the disk refuses

ASSUME StoreAssumption == Ids \subseteq Nat \ {0} /\ MaxCrashes \in Nat /\ MaxErrors \in Nat

VARIABLES
  files,      \* the client's directory: key -> how much of the record is there; no_dir: none
  handle,     \* the directory is open
  call,       \* the call of the store under way
  todo,       \* keys MQTTPersistence_restore has still to read
  restored,   \* the queues it builds, until they change: outboundMsgs and inboundMsgs
  promised,   \* ghost: begun: records put and not removed since; stored: those of them the client
              \* was told are stored; failed, cut: those whose rewriting was reported as failed, and
              \* those of which a crash or the unread result of fclose left a first part
  crashed, errors

storeVars == <<files, handle, call, todo, restored, promised, crashed, errors>>

WholeFile == 2
NoFileCall == [op |-> "none", key |-> <<"s", 0>>, step |-> 0]

SentKey(id) == <<"s", id>>       \* PERSISTENCE_PUBLISH_SENT
Pubrel(id) == <<"sc", id>>    \* PERSISTENCE_PUBREL
ReceivedKey(id) == <<"r", id>>   \* PERSISTENCE_PUBLISH_RECEIVED
StoreKeys == {SentKey(id) : id \in Ids} \cup {Pubrel(id) : id \in Ids} \cup {ReceivedKey(id) : id \in Ids}

NothingPromised == [stored |-> {}, begun |-> {}, failed |-> {}, cut |-> {}]
NoneRestored == [outbound |-> {}, released |-> {}, inbound |-> {}]

StoreInit ==
  /\ files = [k \in {} |-> 0] /\ handle = FALSE /\ call = NoFileCall /\ todo = {}
  /\ restored = NoneRestored
  /\ promised = NothingPromised /\ crashed = 0 /\ errors = 0

containskeyUnix(k) == k \in DOMAIN files
pstcontainskey(k) == handle /\ containskeyUnix(k)
keysUnix == DOMAIN files
pstget(k) == files[k]
With(k, n) == [x \in DOMAIN files \cup {k} |-> IF x = k THEN n ELSE files[x]]
pstremove(k) == [x \in DOMAIN files \ {k} |-> files[x]]

Ready == handle /\ call = NoFileCall /\ todo = {}
Counters == <<crashed, errors>>

-----------------------------------------------------------------------------
(* The calls.                                                              *)

\* MQTTPersistence_initialize: popen, then the keys are listed
pstopen ==
  /\ ~handle /\ handle' = TRUE /\ todo' = keysUnix /\ restored' = NoneRestored
  /\ UNCHANGED <<files, call, promised, Counters>>

\* A PUBLISH is put when it is sent and sent again until its PUBREL is put, the PUBREL when it is
\* sent and sent again, whether or not the puts before it failed; a received PUBLISH is put each
\* time it arrives.
PutDue(k) ==
  /\ k[1] = "sc" => SentKey(k[2]) \in promised.begun
  /\ k[1] = "s" => Pubrel(k[2]) \notin DOMAIN files

\* fopen("wb") empties the file that is there, or fails and leaves it
pstput(k) ==
  /\ Ready /\ PutDue(k)
  /\ promised' = [promised EXCEPT !.begun = @ \cup {k}]
  /\ restored' = NoneRestored
  /\ \/ /\ files' = With(k, 0) /\ call' = [op |-> "put", key |-> k, step |-> 0]
        /\ UNCHANGED errors
     \/ errors < MaxErrors /\ errors' = errors + 1 /\ UNCHANGED <<files, call>>
  /\ UNCHANGED <<handle, todo, crashed>>

\* fwrite of the next buffer into stdio's buffer
Fwrite ==
  /\ call.op = "put" /\ call.step < WholeFile
  /\ call' = [call EXCEPT !.step = @ + 1]
  /\ UNCHANGED <<files, handle, todo, restored, promised, Counters>>

\* a short fwrite is noticed: the file is removed, with the record it held before, and the call
\* fails
FwriteFails ==
  /\ call.op = "put" /\ call.step < WholeFile /\ errors < MaxErrors
  /\ errors' = errors + 1 /\ call' = NoFileCall /\ files' = pstremove(call.key)
  /\ promised' = [promised EXCEPT !.failed = @ \cup {call.key}]
  /\ UNCHANGED <<handle, todo, restored, crashed>>

\* fclose writes the buffer out; its result is not looked at, so a full disk goes unnoticed
Fclose ==
  /\ call.op = "put" /\ call.step = WholeFile
  /\ \/ /\ files' = With(call.key, WholeFile)
        /\ promised' = [promised EXCEPT !.stored = @ \cup {call.key},
                                         !.failed = @ \ {call.key}, !.cut = @ \ {call.key}]
        /\ UNCHANGED errors
     \/ /\ errors < MaxErrors /\ errors' = errors + 1
        /\ \E n \in 0 .. WholeFile - 1 : files' = With(call.key, n)
        /\ promised' = [promised EXCEPT !.stored = @ \cup {call.key}, !.cut = @ \cup {call.key}]
  /\ call' = NoFileCall
  /\ UNCHANGED <<handle, todo, restored, crashed>>

MutantRemoveOrder(k) == IF k[1] = "s" THEN <<"sc", k[2]>> ELSE k
FirstRemoved(k) == k

\* MQTTPersistence_remove: a sent message's record first, its PUBREL's after it
MQTTPersistence_remove(k) ==
  /\ Ready /\ k[1] # "sc" /\ k \in promised.begun
  /\ files' = pstremove(FirstRemoved(k))
  /\ LET gone == IF k[1] = "s" THEN {k, Pubrel(k[2])} ELSE {k}
     IN promised' = [stored |-> promised.stored \ gone, begun |-> promised.begun \ {k},
                     failed |-> promised.failed \ gone, cut |-> promised.cut \ gone]
  /\ call' = IF k[1] = "s" THEN [op |-> "remove", key |-> k, step |-> 1] ELSE NoFileCall
  /\ restored' = NoneRestored
  /\ UNCHANGED <<handle, todo, Counters>>

RemovePubrel ==
  /\ call.op = "remove"
  /\ files' = pstremove(IF FirstRemoved(call.key) = call.key THEN Pubrel(call.key[2]) ELSE call.key)
  /\ promised' = [promised EXCEPT !.begun = @ \ {Pubrel(call.key[2])}]
  /\ call' = NoFileCall
  /\ UNCHANGED <<handle, todo, restored, Counters>>

\* clearUnix looks for the names of the directory in the working directory, so it finds none and
\* leaves every record, to be restored at the next start
pstclear ==
  /\ Ready /\ restored' = NoneRestored
  /\ UNCHANGED <<files, handle, call, todo, promised, Counters>>

\* rmdir, which leaves a directory that is not empty
pstclose ==
  /\ Ready /\ handle' = FALSE
  /\ UNCHANGED <<files, call, todo, restored, promised, Counters>>

-----------------------------------------------------------------------------
(* Restoration.                                                            *)

\* the length the header gives is that of the file; a shorter file is a bad record
MQTTPersistence_restorePacket(k) == pstget(k) = WholeFile

\* a PUBREL whose message has no record is an orphan and goes
Orphan(k) == k[1] = "sc" /\ ~pstcontainskey(SentKey(k[2]))

RestoreOne(k) ==
  /\ handle /\ k \in todo /\ todo' = todo \ {k}
  /\ \/ /\ ~MQTTPersistence_restorePacket(k)
        /\ files' = pstremove(k) /\ UNCHANGED <<restored, promised>>
     \/ /\ MQTTPersistence_restorePacket(k) /\ Orphan(k)
        /\ files' = pstremove(k) /\ promised' = [promised EXCEPT !.stored = @ \ {k}]
        /\ UNCHANGED restored
     \/ /\ MQTTPersistence_restorePacket(k) /\ ~Orphan(k)
        /\ restored' = CASE k[1] = "s" ->
                               [restored EXCEPT !.outbound = @ \cup {k[2]},
                                  !.released = IF pstcontainskey(Pubrel(k[2])) THEN @ \cup {k[2]} ELSE @]
                         [] k[1] = "sc" -> restored
                         [] k[1] = "r" -> [restored EXCEPT !.inbound = @ \cup {k[2]}]
        /\ UNCHANGED <<files, promised>>
  /\ UNCHANGED <<handle, call, Counters>>

\* What stdio had not written out is lost; of a file being written some first part is there.
Crash ==
  /\ handle /\ crashed < MaxCrashes /\ crashed' = crashed + 1
  /\ IF call.op = "put" THEN \E n \in 0 .. call.step : files' = With(call.key, n) ELSE UNCHANGED files
  /\ promised' = [promised EXCEPT !.cut = IF call.op = "put" THEN @ \cup {call.key} ELSE @]
  /\ handle' = FALSE /\ call' = NoFileCall /\ todo' = {} /\ restored' = NoneRestored
  /\ UNCHANGED errors

StoreNext ==
  \/ pstopen \/ Fwrite \/ FwriteFails \/ Fclose \/ RemovePubrel \/ pstclear \/ pstclose \/ Crash
  \/ \E k \in StoreKeys : pstput(k) \/ MQTTPersistence_remove(k) \/ RestoreOne(k)

-----------------------------------------------------------------------------
Spoilt == promised.failed \cup promised.cut

\* A record the client was told is stored stays whole, through any crash (pstput, pstremove) and
\* any clear, until it is removed.  The exception is one whose rewriting failed or was cut: pstput
\* empties the file before it writes, and a short write removes it.  So after a put that failed
\* there is no record, neither the new one nor the one before it, whatever was promised of that
\* (MQTTClientPersistence.h, line 44, asks for the one before it).
RecordsKept ==
  /\ \A k \in promised.stored \ Spoilt : call.key = k \/ (k \in DOMAIN files /\ files[k] = WholeFile)
  /\ \A k \in promised.failed \ promised.cut : call.key = k \/ k \notin DOMAIN files

\* MQTTPersistence_restore makes a message only of a record that was begun and not removed, never
\* of the remains of one; a message is taken for released only once its PUBREL was begun; and a
\* stored PUBREL is not forgotten, so a QoS 2 message is not published a second time after its
\* release, unless the PUBREL's rewriting was cut, and its record may be removed as bad before the
\* message's own is read, or failed: then the message is always taken for one that waits for
\* PUBREC and will be published again.
RestoredSound ==
  /\ \A k \in {SentKey(id) : id \in restored.outbound} \cup {ReceivedKey(id) : id \in restored.inbound} :
       k \in promised.begun /\ k \in DOMAIN files /\ files[k] = WholeFile
  /\ \A id \in restored.released : Pubrel(id) \in promised.begun
  /\ \A id \in restored.outbound : /\ Pubrel(id) \in promised.stored \ Spoilt => id \in restored.released
                                   /\ Pubrel(id) \in promised.failed \ promised.cut => id \notin restored.released

\* The default store survives crashes and write errors: what it promised and has not rewritten in
\* vain is whole, and what is restored from it is what was stored (MQTTPersistenceDefault.c,
\* MQTTPersistence.c).
StoreSound == RecordsKept /\ RestoredSound
================================================================================
