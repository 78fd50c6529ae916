------------------------- MODULE ManagementEndpoint -------------------------
(***************************************************************************)
(* The management listener while a configuration change is pending: which   *)
(* addresses and names a request may use (management_destination_allowed),  *)
(* which ones the certificate must name (pending_sans, tlsutil), the cache  *)
(* that keeps handshakes from rebuilding it, and the resolver every         *)
(* handshake reads.  Handshakes run concurrently; the cache's mutex is held *)
(* while a certificate is ensured, not while it is stored in the resolver.  *)
(***************************************************************************)
EXTENDS Integers, FiniteSets

CONSTANTS
    Lans, Tunnels, Names,   \* addresses and names a configuration may have
    FirstEndpoint,
    Handshakes,             \* concurrent handshakes
    MaxEngineSteps,         \* bound: transactions, clock corrections, restarts
    MaxWriteFaults          \* bound: failed writes of a key or certificate

EndpointConfigs == {c \in [lan : Lans, wg : Tunnels, enabled : BOOLEAN, only : BOOLEAN, name : Names] :
              c.only => c.enabled}

ASSUME EndpointAssumption ==
    FirstEndpoint \in EndpointConfigs /\ MaxEngineSteps \in Nat /\ MaxWriteFaults \in Nat

VARIABLES
    current,     \* Engine: the configuration in force
    pendingConfig,     \* Engine: {} or the candidate awaiting confirmation
    epoch,       \* the clock: certificates of an earlier epoch are not valid
    disk,        \* server.key and server.crt
    certCache,       \* CertCache: the key it was built for, and its validity
    resolver,    \* CertResolver.current
    holder,      \* {} or the handshake that holds the cache's mutex
    hs,          \* the handshakes
    alone,       \* history: no two handshakes have overlapped since the start
    engineSteps, writeFaults

endpointVars == <<current, pendingConfig, epoch, disk, certCache, resolver, holder, hs, alone, engineSteps, writeFaults>>

requires_new_path(c, d) ==
    \/ c.lan # d.lan \/ c.only # d.only
    \/ (c.only \/ d.only) /\ <<c.wg, c.enabled>> # <<d.wg, d.enabled>>

-----------------------------------------------------------------------------
(* What the certificate names, and what a request may ask for. *)

pending_sans(active, candidates) ==
    (UNION {{p.lan, p.name} \union (IF p.enabled THEN {p.wg} ELSE {}) : p \in candidates})
        \ {active.lan, active.name, active.wg}

(* The tunnel's address is named while the service is disabled, too. *)
SansOf(c, extra) == {c.lan, c.wg, c.name} \union extra

(* Mutant: the pending addresses are not part of the key. *)
active_cache_key(c, extra) == [config |-> <<c.lan, c.wg, c.enabled, c.name>>, extra |-> {}]

certificate_cache_key(c, extra) == [config |-> <<c.lan, c.wg, c.enabled, c.name>>, extra |-> extra]

management_destinations(c, candidates) ==
    LET add(d, lan) == {d.name} \union (IF lan THEN {d.lan} ELSE {}) \union (IF d.enabled THEN {d.wg} ELSE {})
    IN  IF candidates = {} THEN add(c, ~c.only)
        ELSE UNION {IF p.only THEN add(p, FALSE) ELSE add(c, TRUE) \union add(p, TRUE) : p \in candidates}

certificate_time_valid(cert) == cert.epoch = epoch

(* load_existing and certificate_matches_config *)
certificate_matches_config(cert, c, extra) ==
    cert.paired /\ certificate_time_valid(cert) /\ SansOf(c, extra) \subseteq cert.names

generate_self_signed(c, extra) == [names |-> SansOf(c, extra), epoch |-> epoch, paired |-> TRUE]

ensure_certificate(c, extra) ==
    IF certificate_matches_config(disk, c, extra) THEN disk ELSE generate_self_signed(c, extra)

-----------------------------------------------------------------------------
NoShake == [at |-> "idle", active |-> FirstEndpoint, cert |-> generate_self_signed(FirstEndpoint, {}),
            steady |-> TRUE, failed |-> FALSE]

EndpointInit ==
    /\ current = FirstEndpoint /\ pendingConfig = {} /\ epoch = 0
    /\ disk = generate_self_signed(FirstEndpoint, {})
    /\ certCache = [key |-> certificate_cache_key(FirstEndpoint, {}), epoch |-> 0]
    /\ resolver = disk
    /\ holder = {} /\ hs = [h \in Handshakes |-> NoShake]
    /\ alone = TRUE /\ engineSteps = 0 /\ writeFaults = 0

Move(h, place) == hs' = [hs EXCEPT ![h].at = place]

(* CertResolver::resolve calls refresh, which locks the cache and reads the
   configuration in force; *)
ClientHello(h) ==
    /\ hs[h].at = "idle" /\ holder = {}
    /\ holder' = {h}
    /\ hs' = [hs EXCEPT ![h] = [NoShake EXCEPT !.at = "refresh", !.active = current]]
    /\ alone' = (alone /\ \A other \in Handshakes \ {h} : hs[other].at = "idle")
    /\ UNCHANGED <<current, pendingConfig, epoch, disk, certCache, resolver, engineSteps, writeFaults>>

(* then it reads the pending transaction.  A hit leaves the resolver as it is. *)
Hit(h, extra) ==
    certCache.key = certificate_cache_key(hs[h].active, extra) /\ certCache.epoch = epoch

(* A write that fails leaves the old pair, a new key beside the old
   certificate, or the new pair whose directory entry could not be synced. *)
write_outcomes(cert) == {disk, [disk EXCEPT !.paired = FALSE], cert}

Refresh(h) ==
    LET extra == pending_sans(hs[h].active, pendingConfig)
        cert == ensure_certificate(hs[h].active, extra)
    IN  /\ hs[h].at = "refresh" /\ holder' = {}
        /\ \/ /\ Hit(h, extra)
              /\ Move(h, "read")
              /\ UNCHANGED <<disk, certCache, writeFaults>>
           \/ /\ ~Hit(h, extra)
              /\ disk' = cert
              /\ certCache' = [key |-> certificate_cache_key(hs[h].active, extra), epoch |-> cert.epoch]
              /\ hs' = [hs EXCEPT ![h].at = "store", ![h].cert = cert]
              /\ UNCHANGED writeFaults
           \/ /\ ~Hit(h, extra) /\ cert # disk /\ writeFaults < MaxWriteFaults
              /\ disk' \in write_outcomes(cert)
              /\ hs' = [hs EXCEPT ![h].at = "read", ![h].failed = TRUE]
              /\ writeFaults' = writeFaults + 1
              /\ UNCHANGED certCache
        /\ UNCHANGED <<current, pendingConfig, epoch, resolver, alone, engineSteps>>

(* resolve: the new pair replaces the resolver's, after the mutex is released; *)
Store(h) ==
    /\ hs[h].at = "store"
    /\ resolver' = hs[h].cert /\ Move(h, "read")
    /\ UNCHANGED <<current, pendingConfig, epoch, disk, certCache, holder, alone, engineSteps, writeFaults>>

(* and the handshake uses whatever the resolver holds by then. *)
Serve(h) ==
    /\ hs[h].at = "read"
    /\ hs' = [hs EXCEPT ![h].at = "served", ![h].cert = resolver]
    /\ UNCHANGED <<current, pendingConfig, epoch, disk, certCache, resolver, holder, alone, engineSteps, writeFaults>>

Part(h) ==
    /\ hs[h].at = "served"
    /\ hs' = [hs EXCEPT ![h] = NoShake]
    /\ UNCHANGED <<current, pendingConfig, epoch, disk, certCache, resolver, holder, alone, engineSteps, writeFaults>>

-----------------------------------------------------------------------------
(* The engine, the clock and the process. *)

Disturb ==
    /\ engineSteps < MaxEngineSteps /\ engineSteps' = engineSteps + 1
    /\ hs' = [h \in Handshakes |-> [hs[h] EXCEPT !.steady = FALSE]]
    /\ UNCHANGED <<disk, certCache, resolver, holder, alone, writeFaults>>

Submit(c) ==
    /\ pendingConfig = {} /\ c # current /\ Disturb
    /\ IF requires_new_path(current, c) THEN pendingConfig' = {c} /\ UNCHANGED current
                                        ELSE current' = c /\ UNCHANGED pendingConfig
    /\ UNCHANGED epoch

Conclude(c) ==
    /\ pendingConfig = {c} /\ Disturb
    /\ pendingConfig' = {} /\ current' \in {current, c}
    /\ UNCHANGED epoch

(* A clock correction puts "now" outside the window of what was issued. *)
CorrectClock ==
    /\ Disturb /\ epoch' = epoch + 1
    /\ UNCHANGED <<current, pendingConfig>>

(* main: a new process drops the candidate and ensures its certificate. *)
RestartProcess ==
    /\ engineSteps < MaxEngineSteps /\ engineSteps' = engineSteps + 1
    /\ pendingConfig' = {}
    /\ disk' = ensure_certificate(current, {}) /\ resolver' = disk'
    /\ certCache' = [key |-> certificate_cache_key(current, {}), epoch |-> disk'.epoch]
    /\ holder' = {} /\ hs' = [h \in Handshakes |-> NoShake] /\ alone' = TRUE
    /\ UNCHANGED <<current, epoch, writeFaults>>

EndpointNext ==
    \/ \E h \in Handshakes : ClientHello(h) \/ Refresh(h) \/ Store(h) \/ Serve(h) \/ Part(h)
    \/ \E c \in EndpointConfigs : Submit(c) \/ Conclude(c)
    \/ CorrectClock \/ RestartProcess

EndpointSpec == EndpointInit /\ [][EndpointNext]_endpointVars

-----------------------------------------------------------------------------
Certificates ==
    [names : SUBSET (Lans \union Tunnels \union Names), epoch : 0..epoch, paired : BOOLEAN]

(* Every certificate at hand was issued by now (tlsutil's not_before lies in
   the past), and the cache's mutex is held exactly by the handshake between
   its two reads of the engine. *)
EndpointTypeOK ==
    /\ current \in EndpointConfigs /\ pendingConfig \subseteq EndpointConfigs /\ Cardinality(pendingConfig) <= 1
    /\ disk \in Certificates /\ resolver \in Certificates
    /\ certCache.epoch \in 0..epoch
    /\ holder = {h \in Handshakes : hs[h].at = "refresh"}
    /\ \A h \in Handshakes :
         /\ hs[h].at \in {"idle", "refresh", "store", "read", "served"}
         /\ hs[h].active \in EndpointConfigs /\ hs[h].cert \in Certificates

(* Whatever transaction is pending, each address and full name that
   management_destination_allowed admits is one that pending_sans and the
   active configuration put into the certificate. *)
AllowedAreCovered ==
    management_destinations(current, pendingConfig) \subseteq SansOf(current, pending_sans(current, pendingConfig))

(* The key is written before the certificate, so a failure or a crash between
   the two leaves a pair that does not match: it is never what the resolver
   holds or a handshake is served, before or after a restart. *)
ServedPairMatches == resolver.paired /\ \A h \in Handshakes : hs[h].cert.paired

Covers(h) ==
    /\ management_destinations(current, pendingConfig) \subseteq hs[h].cert.names
    /\ hs[h].cert.epoch = epoch

Finished(h) == hs[h].at = "served" /\ hs[h].steady /\ ~hs[h].failed

(* A handshake during which nothing changed and no write failed is served a
   certificate that is valid and names every admitted address, also the ones of
   the candidate, provided no two handshakes have overlapped since the start. *)
AloneIsCovered == \A h \in Handshakes : alone /\ Finished(h) => Covers(h)

\* The management certificate serves the addresses the administrator may be at: the
\* served key matches its certificate, every allowed destination is named in it, and
\* a handshake that overlapped no other is covered by the certificate it is given.
EndpointSound ==
  /\ EndpointTypeOK /\ AllowedAreCovered /\ ServedPairMatches
  /\ AloneIsCovered
=============================================================================
