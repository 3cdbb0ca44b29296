----------------------------- MODULE TokenAuth ------------------------------
(* API tokens: the dashboard writes rows of public.api_tokens (web_app       *)
(* lib/tokens.ts), the daemon's handshakes read them through a cache of      *)
(* validated tokens (daemon/src/auth.rs).  Time is counted in ticks.         *)
EXTENDS Integers

CONSTANTS
    Token,      \* secrets that may be drawn; a row is found by its hash
    Handshake,  \* connection threads in auth::validate
    TTL,        \* CACHE_TTL
    Lifetimes,  \* what the expiration menu offers, Never among them
    Never,      \* expires_at null
    NoRow,      \* no such row
    MaxTime,    \* bound: the clock
    MaxFetch    \* bound: ticks a PostgREST request takes.  The code sets none.

ASSUME TokenAssumption ==
    /\ TTL \in Nat \ {0} /\ MaxTime \in Nat /\ MaxFetch \in Nat
    /\ Lifetimes \subseteq Nat \cup {Never}
    /\ Never \notin Int /\ NoRow \notin Int \cup {Never}

VARIABLES
    now,
    rows,       \* token -> [created, expires], or NoRow
    drawn,      \* tokens drawn so far; no secret is drawn twice
    regenerate, \* when a token being regenerated will expire, or NoRow
    cache,      \* token -> until when lookup_cached finds it; 0 if not there
    handshake,  \* thread -> [pc, token, began, row, stale]
    lastValid   \* history: token -> when its row was last valid, -1 for never

vars == <<now, rows, drawn, regenerate, cache, handshake, lastValid>>

Ended(pc, t, stale) ==
    [pc |-> pc, token |-> t, began |-> 0, row |-> NoRow, stale |-> stale]

Asking(pc, t, began, row) ==
    [pc |-> pc, token |-> t, began |-> began, row |-> row, stale |-> 0]

Init ==
    /\ now = 0
    /\ rows = [t \in Token |-> NoRow]
    /\ drawn = {}
    /\ regenerate = NoRow
    /\ cache = [t \in Token |-> 0]
    /\ handshake \in [Handshake -> {Ended("idle", t, 0) : t \in Token}]
    /\ lastValid = [t \in Token |-> -1]

ExpiredAt(row, time) == row.expires # Never /\ row.expires <= time

-----------------------------------------------------------------------------
(* The dashboard.                                                            *)

ExpiryOf(lifetime) == IF lifetime = Never THEN Never ELSE now + lifetime

LifetimeOf(row) == IF row.expires = Never THEN Never ELSE row.expires - row.created

Insert(t, expires) ==
    LET row == [created |-> now, expires |-> expires] IN
    /\ rows' = [rows EXCEPT ![t] = row]
    /\ lastValid' = [lastValid EXCEPT ![t] = IF ExpiredAt(row, now) THEN -1 ELSE now]

(* Variant: a secret may be drawn again.                                     *)
CreateFromUsedSecret(t, expires) ==
    /\ rows[t] = NoRow
    /\ Insert(t, expires)
    /\ UNCHANGED <<now, drawn, cache, handshake>>

CreateToken(t, expires) ==
    /\ t \notin drawn
    /\ drawn' = drawn \cup {t}
    /\ Insert(t, expires)
    /\ UNCHANGED <<now, cache, handshake>>

OnCreate(t, lifetime) == CreateToken(t, ExpiryOf(lifetime)) /\ UNCHANGED regenerate

(* To delete a row that is gone is no error.                                 *)
DeleteToken(t) ==
    /\ t \in drawn
    /\ rows' = [rows EXCEPT ![t] = NoRow]
    /\ UNCHANGED <<now, drawn, cache, handshake, lastValid>>

OnDelete(t) == DeleteToken(t) /\ UNCHANGED regenerate

(* regenerateToken: work out when the new token expires, delete the old row, *)
(* and in a second request, whenever it arrives, insert the new one.  The    *)
(* page may still show a row that is gone.                                   *)
RegenerateDelete(t) ==
    /\ regenerate = NoRow
    /\ DeleteToken(t)
    /\ \E lifetime \in IF rows[t] = NoRow THEN Lifetimes ELSE {LifetimeOf(rows[t])} :
          regenerate' = ExpiryOf(lifetime)

RegenerateCreate(t) ==
    /\ regenerate # NoRow
    /\ CreateToken(t, regenerate)
    /\ regenerate' = NoRow

(* The insert fails or the page is closed: the old token is gone for nothing. *)
RegenerateStops ==
    /\ regenerate # NoRow
    /\ regenerate' = NoRow
    /\ UNCHANGED <<now, rows, drawn, cache, handshake, lastValid>>

-----------------------------------------------------------------------------
(* auth::validate.                                                           *)

Conclude(h, pc) ==
    handshake' = [handshake EXCEPT ![h] =
        Ended(pc, @.token, IF pc = "accepted" THEN now - lastValid[@.token] ELSE 0)]

(* Variant: a hit renews the entry.                                          *)
LookupRenews(h) ==
    /\ handshake[h].pc = "idle"
    /\ now < cache[handshake[h].token]
    /\ cache' = [cache EXCEPT ![handshake[h].token] = now + TTL]
    /\ Conclude(h, "accepted")
    /\ UNCHANGED <<now, rows, drawn, regenerate, lastValid>>

(* lookup_cached, under the cache's mutex.                                   *)
LookupHit(h) ==
    /\ handshake[h].pc = "idle"
    /\ now < cache[handshake[h].token]
    /\ Conclude(h, "accepted")
    /\ UNCHANGED <<now, rows, drawn, regenerate, cache, lastValid>>

LookupMiss(h) ==
    /\ handshake[h].pc = "idle"
    /\ now >= cache[handshake[h].token]
    /\ handshake' = [handshake EXCEPT ![h] = Asking("fetching", @.token, now, NoRow)]
    /\ UNCHANGED <<now, rows, drawn, regenerate, cache, lastValid>>

(* PostgREST evaluates the query; the answer is still on its way.            *)
DatabaseAnswers(h) ==
    /\ handshake[h].pc = "fetching"
    /\ handshake' = [handshake EXCEPT ![h] = Asking("fetched", @.token, @.began, rows[@.token])]
    /\ UNCHANGED <<now, rows, drawn, regenerate, cache, lastValid>>

(* UnknownToken or TokenExpired; a call that fails, whatever row it had or   *)
(* would have had, refuses as well.                                          *)
Refuse(h) ==
    /\ \/ handshake[h].pc = "fetching"
       \/ /\ handshake[h].pc = "fetched"
          /\ handshake[h].row # NoRow => ExpiredAt(handshake[h].row, now)
    /\ Conclude(h, "refused")
    /\ UNCHANGED <<now, rows, drawn, regenerate, cache, lastValid>>

(* Variant: no row is no reason to refuse.                                   *)
AcceptUnknown(h) ==
    /\ handshake[h].pc = "fetched"
    /\ handshake[h].row # NoRow => ~ExpiredAt(handshake[h].row, now)
    /\ cache' = [cache EXCEPT ![handshake[h].token] = now + TTL]
    /\ Conclude(h, "accepted")
    /\ UNCHANGED <<now, rows, drawn, regenerate, lastValid>>

(* check_not_expired on the row as fetched, then store_cached.               *)
AcceptAndStore(h) ==
    /\ handshake[h].pc = "fetched"
    /\ handshake[h].row # NoRow
    /\ ~ExpiredAt(handshake[h].row, now)
    /\ cache' = [cache EXCEPT ![handshake[h].token] = now + TTL]
    /\ Conclude(h, "accepted")
    /\ UNCHANGED <<now, rows, drawn, regenerate, lastValid>>

(* The thread goes on to serve; its place is free for another handshake.     *)
Reconnect(h, t) ==
    /\ handshake[h].pc \in {"accepted", "refused"}
    /\ handshake' = [handshake EXCEPT ![h] = Ended("idle", t, 0)]
    /\ UNCHANGED <<now, rows, drawn, regenerate, cache, lastValid>>

(* The daemon restarts: the cache is a static in its memory.                 *)
Restart ==
    /\ cache' = [t \in Token |-> 0]
    /\ handshake' = [h \in Handshake |-> Ended("refused", handshake[h].token, 0)]
    /\ UNCHANGED <<now, rows, drawn, regenerate, lastValid>>

Tick ==
    /\ now < MaxTime
    /\ \A h \in Handshake : handshake[h].pc \in {"fetching", "fetched"} =>
          now < handshake[h].began + MaxFetch
    /\ now' = now + 1
    /\ lastValid' = [t \in Token |->
          IF rows[t] # NoRow /\ ~ExpiredAt(rows[t], now + 1) THEN now + 1 ELSE lastValid[t]]
    /\ UNCHANGED <<rows, drawn, regenerate, cache, handshake>>

Next ==
    \/ \E t \in Token, l \in Lifetimes : OnCreate(t, l)
    \/ \E t \in Token : OnDelete(t) \/ RegenerateDelete(t) \/ RegenerateCreate(t)
    \/ RegenerateStops
    \/ \E h \in Handshake : \/ LookupHit(h) \/ LookupMiss(h) \/ DatabaseAnswers(h)
                            \/ Refuse(h) \/ AcceptAndStore(h)
                            \/ \E t \in Token : Reconnect(h, t)
    \/ Restart
    \/ Tick

Spec == Init /\ [][Next]_vars

-----------------------------------------------------------------------------
TypeOK ==
    /\ now \in 0 .. MaxTime
    /\ drawn \subseteq Token
    /\ \A t \in Token : rows[t] # NoRow => t \in drawn
    /\ cache \in [Token -> Int]
    /\ \A h \in Handshake :
          /\ handshake[h].pc \in {"idle", "fetching", "fetched", "accepted", "refused"}
          /\ handshake[h].token \in Token

(* A handshake is accepted only for a token whose row was valid no longer    *)
(* ago than the cache keeps an entry plus the time one query takes: however  *)
(* lookups, slow queries, revocation and expiry overlap, staleness does not  *)
(* feed on itself.                                                           *)
StalenessBounded ==
    \A h \in Handshake : handshake[h].pc = "accepted" =>
        /\ lastValid[handshake[h].token] # -1
        /\ handshake[h].stale <= TTL + MaxFetch

(* A token is never accepted before the dashboard created it, and a restart  *)
(* forgets every validation: what the cache vouches for was once in a row.   *)
CacheVouchesForRows ==
    \A t \in Token : cache[t] > 0 => t \in drawn /\ cache[t] <= lastValid[t] + TTL + MaxFetch
=============================================================================
