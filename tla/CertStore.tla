----------------------------- MODULE CertStore -----------------------------
(***************************************************************************)
(* The certificates of one node: files and memory of CertStorage             *)
(* (cdn-proxy/src/ssl/storage.rs), the cache of CertManager (manager.rs) and *)
(* the TLS handshakes that read it (tls_accept.rs), while renewal.rs stores  *)
(* new ones.  A certificate is its serial number; its key is told by the     *)
(* number of the certificate it was made for.                                *)
(***************************************************************************)
EXTENDS Naturals

CONSTANTS
  Handshakes,
  MaxSerial     \* bound: certificates issued

\* Keys of the storage and the names clients ask for: "a" has a certificate of its
\* own, "b" only the wildcard's; a client without SNI gets "_default".
Stores == {"a", "*", "_default"}
Names == {"a", "b", "_default"}

None == [cert |-> 0, key |-> 0]
Absent == [cert |-> MaxSerial + 1, key |-> 0]    \* no entry in the cache

VARIABLES
  files,      \* files[s]: fullchain.pem and privkey.pem
  memory,     \* memory[s]: CertStorage.cache
  cache,      \* cache[name]: the moka cache; an entry may be a cached miss, None
  expired,    \* certificates past their notAfter
  writer,     \* the put in progress
  shake       \* shake[h]: a certificate_callback

vars == <<files, memory, cache, expired, writer, shake>>

\* saved: save_to_file has not failed so far.
NoWriter == [pc |-> "idle", store |-> "a", serial |-> 0, saved |-> TRUE]
NoShake == [pc |-> "idle", name |-> "a", cert |-> None]

\* Every store starts with certificate 1, custom or issued before.
Init ==
  /\ files = [s \in Stores |-> [cert |-> 1, key |-> 1]]
  /\ memory = files
  /\ cache = [n \in Names |-> Absent]
  /\ expired = {} /\ writer = NoWriter
  /\ shake = [h \in Handshakes |-> NoShake]

-----------------------------------------------------------------------------
(* Handshakes *)

Usable(s) == memory[s] # None /\ memory[s].cert \notin expired

\* get_cert below the cache: the exact store, the wildcard, the default.
Lookup(name) ==
  IF name # "b" /\ Usable(name) THEN memory[name]
  ELSE IF name # "_default" /\ Usable("*") THEN memory["*"]
  ELSE IF Usable("_default") THEN memory["_default"]
  ELSE None

\* A cached answer is used whatever has become of it.
Hello(h, name) ==
  /\ shake[h].pc = "idle"
  /\ shake' = [shake EXCEPT ![h] =
       IF cache[name] # Absent
       THEN [pc |-> "served", name |-> name, cert |-> cache[name]]
       ELSE [pc |-> "insert", name |-> name, cert |-> Lookup(name)]]
  /\ UNCHANGED <<files, memory, cache, expired, writer>>

\* What Lookup found, a miss too, goes into the cache.
Insert(h) ==
  LET x == shake[h] IN
  /\ x.pc = "insert"
  /\ cache' = [cache EXCEPT ![x.name] = x.cert]
  /\ shake' = [shake EXCEPT ![h].pc = "served"]
  /\ UNCHANGED <<files, memory, expired, writer>>

\* The chain and the key are set, or the handshake goes on without them.
Served(h) ==
  /\ shake[h].pc = "served"
  /\ shake' = [shake EXCEPT ![h] = NoShake]
  /\ UNCHANGED <<files, memory, cache, expired, writer>>

\* Mutant: time_to_idle, an entry in use does not lapse.
LapseIdle(name) ==
  /\ cache[name] # Absent
  /\ \A h \in Handshakes : shake[h].pc = "idle" \/ shake[h].name # name
  /\ cache' = [cache EXCEPT ![name] = Absent]
  /\ UNCHANGED <<files, memory, expired, writer, shake>>

\* time_to_live: an entry lapses however often it is used.
Lapse(name) ==
  /\ cache[name] # Absent
  /\ cache' = [cache EXCEPT ![name] = Absent]
  /\ UNCHANGED <<files, memory, expired, writer, shake>>

-----------------------------------------------------------------------------
(* Renewal *)

\* save_to_file: fullchain.pem, then privkey.pem.  A failure is only logged.  The
\* default is never renewed.
PutChain(s) ==
  /\ writer.pc = "idle"
  /\ \E serial \in 2..MaxSerial :
       /\ \A t \in Stores : memory[t].cert < serial
       /\ \E saved \in BOOLEAN :
            /\ writer' = [pc |-> "key", store |-> s, serial |-> serial, saved |-> saved]
            /\ files' = IF saved THEN [files EXCEPT ![s].cert = serial] ELSE files
  /\ UNCHANGED <<memory, cache, expired, shake>>

KeyWritten(s, serial) == [files EXCEPT ![s].key = serial]

PutKey ==
  /\ writer.pc = "key"
  /\ \E saved \in BOOLEAN :
       /\ saved => writer.saved
       /\ writer' = [writer EXCEPT !.pc = "memory", !.saved = saved]
       /\ files' = IF saved THEN KeyWritten(writer.store, writer.serial) ELSE files
  /\ UNCHANGED <<memory, cache, expired, shake>>

PutMemory ==
  LET s == writer.store IN
  /\ writer.pc = "memory"
  /\ memory' = [memory EXCEPT ![s] = [cert |-> writer.serial, key |-> writer.serial]]
  /\ writer' = [writer EXCEPT !.pc = "invalidate"]
  /\ UNCHANGED <<files, cache, expired, shake>>

\* The entry under the store's own key; a wildcard's is under no client's name.
Invalidated(s) == [n \in Names |-> IF n = s THEN Absent ELSE cache[n]]

Invalidate ==
  /\ writer.pc = "invalidate"
  /\ cache' = Invalidated(writer.store)
  /\ writer' = NoWriter
  /\ UNCHANGED <<files, memory, expired, shake>>

-----------------------------------------------------------------------------

\* A certificate passes its notAfter; cached answers may hold it.
CertExpires(c) ==
  /\ c \notin expired
  /\ expired' = expired \cup {c}
  /\ UNCHANGED <<files, memory, cache, writer, shake>>

\* load_all reads what the files hold; both must be there.
Restart ==
  /\ memory' = files
  /\ cache' = [n \in Names |-> Absent]
  /\ writer' = NoWriter /\ shake' = [h \in Handshakes |-> NoShake]
  /\ UNCHANGED <<files, expired>>

Next ==
  \/ \E h \in Handshakes : Insert(h) \/ Served(h) \/ \E name \in Names : Hello(h, name)
  \/ \E s \in Stores \ {"_default"} : PutChain(s)
  \/ PutKey \/ PutMemory \/ Invalidate \/ Restart
  \/ \E name \in Names : Lapse(name)
  \/ \E c \in 1..MaxSerial : CertExpires(c)

\* An entry lapses with time, whatever else goes on.
Fairness == \A name \in Names : WF_vars(Lapse(name))

Spec == Init /\ [][Next]_vars /\ Fairness

-----------------------------------------------------------------------------

\* Once the certificates in memory stop changing and expiring, every name answers for
\* good with what the storage has, however many handshakes go on and whatever they had
\* read before (manager.rs 19-68).  It is time_to_live that sees to it.  renewal.rs:141
\* says "Invalidate CertManager cache so TLS callbacks use the new cert", but a
\* handshake that read the storage before the put inserts the old certificate after
\* the invalidation, and the names under a wildcard have entries of their own, which
\* are not invalidated.
AnswersSettle ==
  <>[][FALSE]_<<memory, expired>> =>
    \A name \in Names : <>[](cache[name] \in {Absent, Lookup(name)})
=============================================================================
