--------------------------- MODULE TokenAuth_proofs ---------------------------
(* How stale an accepted token may be, for any tokens, handshakes, lifetimes *)
(* and lengths of time.                                                      *)
EXTENDS TokenAuth, TLAPS

Row == [created : Int, expires : Int \cup {Never}]

Pc == {"idle", "fetching", "fetched", "accepted", "refused"}

HandshakeType ==
    [pc : Pc, token : Token, began : Int, row : Row \cup {NoRow}, stale : Int]

Types ==
    /\ now \in Nat /\ now <= MaxTime
    /\ drawn \subseteq Token
    /\ rows \in [Token -> Row \cup {NoRow}]
    /\ regenerate \in Int \cup {Never, NoRow}
    /\ cache \in [Token -> Int]
    /\ lastValid \in [Token -> Int]
    /\ handshake \in [Handshake -> HandshakeType]

(* A row is of a token that was drawn, and lastValid keeps up with it.       *)
RowsOK ==
    \A t \in Token :
        /\ lastValid[t] \in -1 .. now
        /\ rows[t] # NoRow =>
              /\ t \in drawn
              /\ ~ExpiredAt(rows[t], now) => lastValid[t] = now

(* What the cache vouches for was valid when it was fetched.                 *)
CacheOK ==
    \A t \in Token : cache[t] > 0 =>
        /\ t \in drawn
        /\ lastValid[t] >= 0
        /\ cache[t] <= lastValid[t] + TTL + MaxFetch

(* A query is no longer under way than MaxFetch, and a row that has not      *)
(* expired since was valid when the query began or later.                    *)
QueryOK ==
    \A h \in Handshake : handshake[h].pc \in {"fetching", "fetched"} =>
        /\ handshake[h].began \in 0 .. now
        /\ now <= handshake[h].began + MaxFetch
        /\ handshake[h].pc = "fetched" /\ handshake[h].row # NoRow =>
              /\ handshake[h].token \in drawn
              /\ ~ExpiredAt(handshake[h].row, now) =>
                    lastValid[handshake[h].token] >= handshake[h].began

AcceptedOK ==
    \A h \in Handshake : handshake[h].pc = "accepted" =>
        /\ handshake[h].token \in drawn
        /\ lastValid[handshake[h].token] >= 0
        /\ handshake[h].stale <= TTL + MaxFetch

AuthInv == Types /\ RowsOK /\ CacheOK /\ QueryOK /\ AcceptedOK

-----------------------------------------------------------------------------
(* Before anything has happened.                                             *)
LEMMA InitInv == Init => AuthInv
<1> SUFFICES ASSUME Init PROVE AuthInv
    OBVIOUS
<1>1. Types
    BY TokenAssumption DEF Init, Ended, Types, HandshakeType, Pc, Row
<1>2. RowsOK /\ CacheOK
    BY DEF Init, Ended, RowsOK, CacheOK
<1>3. QueryOK /\ AcceptedOK
    BY DEF Init, Ended, QueryOK, AcceptedOK
<1> QED BY <1>1, <1>2, <1>3 DEF AuthInv

(* A token drawn for the first time: nothing is known of it yet.             *)
LEMMA CreateTokenInv ==
    ASSUME AuthInv, NEW t \in Token, NEW e \in Int \cup {Never}, CreateToken(t, e),
           regenerate' \in Int \cup {Never, NoRow}
    PROVE  AuthInv'
<1> USE TokenAssumption DEF AuthInv
<1>1. /\ t \notin drawn /\ rows[t] = NoRow /\ cache[t] <= 0
      /\ rows' = [rows EXCEPT ![t] = [created |-> now, expires |-> e]]
      /\ lastValid' = [lastValid EXCEPT ![t] = IF e # Never /\ e <= now THEN -1 ELSE now]
      /\ drawn' = drawn \cup {t}
      /\ UNCHANGED <<now, cache, handshake>>
    BY DEF CreateToken, Insert, ExpiredAt, Types, HandshakeType, RowsOK, CacheOK
<1>3. Types'
    BY <1>1 DEF Types, HandshakeType, Row
<1>4. RowsOK'
    BY <1>1 DEF Types, HandshakeType, RowsOK, ExpiredAt
<1>5. CacheOK'
    BY <1>1 DEF Types, HandshakeType, CacheOK
<1>6. QueryOK'
    BY <1>1 DEF Types, HandshakeType, QueryOK
<1>7. AcceptedOK'
    BY <1>1 DEF Types, HandshakeType, AcceptedOK
<1> QED BY <1>3, <1>4, <1>5, <1>6, <1>7

(* A deleted row takes nothing from what was known of its token.             *)
LEMMA DeleteTokenInv ==
    ASSUME AuthInv, NEW t \in Token, DeleteToken(t),
           regenerate' \in Int \cup {Never, NoRow}
    PROVE  AuthInv'
<1> USE TokenAssumption DEF AuthInv, DeleteToken
<1>1. Types' /\ RowsOK'
    BY DEF Types, HandshakeType, RowsOK
<1>2. CacheOK' /\ QueryOK' /\ AcceptedOK'
    BY DEF CacheOK, QueryOK, AcceptedOK
<1> QED BY <1>1, <1>2

(* What is carried over is a time, past or future, or never.                 *)
LEMMA RegenerateDeleteInv ==
    ASSUME AuthInv, NEW t \in Token, RegenerateDelete(t)
    PROVE  AuthInv'
<1>1. PICK l \in IF rows[t] = NoRow THEN Lifetimes ELSE {LifetimeOf(rows[t])} : regenerate' = ExpiryOf(l)
    BY DEF RegenerateDelete
<1>2. regenerate' \in Int \cup {Never, NoRow}
    <2>1. rows[t] \in Row \cup {NoRow} /\ now \in Int
        BY DEF AuthInv, Types
    <2>2. l \in Int \cup {Never}
        BY <1>1, <2>1, TokenAssumption DEF Row, LifetimeOf
    <2> QED BY <1>1, <2>1, <2>2 DEF ExpiryOf
<1> QED BY <1>2, DeleteTokenInv DEF RegenerateDelete

(* A hit: the cache vouches for the token.                                   *)
LEMMA LookupHitInv ==
    ASSUME AuthInv, NEW h \in Handshake, LookupHit(h)
    PROVE  AuthInv'
<1> USE TokenAssumption DEF AuthInv
<1> DEFINE t == handshake[h].token
<1>1. /\ t \in Token /\ cache[t] > 0 /\ now < cache[t]
      /\ lastValid[t] \in Int /\ cache[t] \in Int /\ now \in Nat
    BY DEF LookupHit, Types, HandshakeType, Ended
<1>2. t \in drawn /\ lastValid[t] >= 0 /\ now - lastValid[t] <= TTL + MaxFetch
    BY <1>1 DEF CacheOK
<1>3. handshake' = [handshake EXCEPT ![h] = Ended("accepted", t, now - lastValid[t])]
    BY DEF LookupHit, Conclude
<1>4. UNCHANGED <<now, rows, drawn, regenerate, cache, lastValid>>
    BY DEF LookupHit
<1>5. Types'
    BY <1>1, <1>3, <1>4 DEF Types, HandshakeType, Ended, Pc
<1>6. RowsOK' /\ CacheOK'
    BY <1>4 DEF RowsOK, CacheOK
<1>7. QueryOK'
    BY <1>3, <1>4 DEF QueryOK, Types, HandshakeType, Ended
<1>8. AcceptedOK'
    BY <1>2, <1>3, <1>4 DEF AcceptedOK, Types, HandshakeType, Ended
<1> QED BY <1>5, <1>6, <1>7, <1>8

(* A query begins.                                                           *)
LEMMA LookupMissInv ==
    ASSUME AuthInv, NEW h \in Handshake, LookupMiss(h)
    PROVE  AuthInv'
<1> USE TokenAssumption DEF AuthInv, LookupMiss, Asking
<1>1. Types'
    BY DEF Types, HandshakeType, Pc
<1>2. RowsOK' /\ CacheOK'
    BY DEF RowsOK, CacheOK
<1>3. QueryOK'
    BY DEF QueryOK, Types, HandshakeType
<1>4. AcceptedOK'
    BY DEF AcceptedOK, Types, HandshakeType
<1> QED BY <1>1, <1>2, <1>3, <1>4

(* A row that has not expired when it is read is valid now, and the query    *)
(* began no later.                                                           *)
LEMMA DatabaseAnswersInv ==
    ASSUME AuthInv, NEW h \in Handshake, DatabaseAnswers(h)
    PROVE  AuthInv'
<1> USE TokenAssumption DEF AuthInv, DatabaseAnswers, Asking
<1>1. Types'
    BY DEF Types, HandshakeType, Pc
<1>2. RowsOK' /\ CacheOK'
    BY DEF RowsOK, CacheOK
<1>3. QueryOK'
    BY DEF QueryOK, RowsOK, Types, HandshakeType
<1>4. AcceptedOK'
    BY DEF AcceptedOK, Types, HandshakeType
<1> QED BY <1>1, <1>2, <1>3, <1>4

(* A refusal says nothing of the token.                                      *)
LEMMA RefuseInv ==
    ASSUME AuthInv, NEW h \in Handshake, Refuse(h)
    PROVE  AuthInv'
<1> USE TokenAssumption DEF AuthInv, Refuse, Conclude, Ended
<1>1. Types'
    BY DEF Types, HandshakeType, Pc
<1>2. RowsOK' /\ CacheOK'
    BY DEF RowsOK, CacheOK
<1>3. QueryOK'
    BY DEF QueryOK, Types, HandshakeType
<1>4. AcceptedOK'
    BY DEF AcceptedOK, Types, HandshakeType
<1> QED BY <1>1, <1>2, <1>3, <1>4

(* A row not expired even now was valid when the query began, and that is    *)
(* MaxFetch ago at most.                                                     *)
LEMMA AcceptAndStoreInv ==
    ASSUME AuthInv, NEW h \in Handshake, AcceptAndStore(h)
    PROVE  AuthInv'
<1> USE TokenAssumption DEF AuthInv
<1> DEFINE t == handshake[h].token
<1>1. /\ t \in Token /\ lastValid[t] \in Int /\ now \in Nat
      /\ handshake[h].began \in Int
    BY DEF Types, HandshakeType, Ended
<1>2. t \in drawn /\ lastValid[t] >= 0 /\ now <= lastValid[t] + MaxFetch
    BY <1>1 DEF AcceptAndStore, QueryOK
<1>3. handshake' = [handshake EXCEPT ![h] = Ended("accepted", t, now - lastValid[t])]
    BY DEF AcceptAndStore, Conclude
<1>4. /\ cache' = [cache EXCEPT ![t] = now + TTL]
      /\ UNCHANGED <<now, rows, drawn, regenerate, lastValid>>
    BY DEF AcceptAndStore
<1>5. Types'
    BY <1>1, <1>3, <1>4 DEF Types, HandshakeType, Ended, Pc
<1>6. RowsOK'
    BY <1>4 DEF RowsOK
<1>7. CacheOK'
    BY <1>1, <1>2, <1>4 DEF CacheOK, Types, HandshakeType, Ended
<1>8. QueryOK'
    BY <1>3, <1>4 DEF QueryOK, Types, HandshakeType, Ended
<1>9. AcceptedOK'
    BY <1>1, <1>2, <1>3, <1>4 DEF AcceptedOK, Types, HandshakeType, Ended
<1> QED BY <1>5, <1>6, <1>7, <1>8, <1>9

(* The next handshake of a thread.                                           *)
LEMMA ReconnectInv ==
    ASSUME AuthInv, NEW h \in Handshake, NEW t \in Token, Reconnect(h, t)
    PROVE  AuthInv'
<1> USE TokenAssumption DEF AuthInv, Reconnect, Ended
<1>1. Types'
    BY DEF Types, HandshakeType, Pc
<1>2. RowsOK' /\ CacheOK'
    BY DEF RowsOK, CacheOK
<1>3. QueryOK' /\ AcceptedOK'
    BY DEF QueryOK, AcceptedOK, Types, HandshakeType
<1> QED BY <1>1, <1>2, <1>3

(* A restart leaves an empty cache and no handshake.                         *)
LEMMA RestartInv == AuthInv /\ Restart => AuthInv'
<1> SUFFICES ASSUME AuthInv, Restart PROVE AuthInv'
    OBVIOUS
<1> USE TokenAssumption DEF AuthInv, Restart, Ended
<1>1. Types'
    BY DEF Types, HandshakeType, Pc
<1>2. RowsOK'
    BY DEF RowsOK
<1>4. CacheOK'
    BY DEF CacheOK
<1>3. QueryOK' /\ AcceptedOK'
    BY DEF QueryOK, AcceptedOK, Types, HandshakeType
<1> QED BY <1>1, <1>2, <1>3, <1>4

(* Time passes: lastValid only grows, and what is not expired later was not  *)
(* expired before.                                                           *)
LEMMA TickInv == AuthInv /\ Tick => AuthInv'
<1> SUFFICES ASSUME AuthInv, Tick PROVE AuthInv'
    OBVIOUS
<1> USE TokenAssumption DEF AuthInv
<1>1. /\ now' = now + 1 /\ now \in Nat /\ now < MaxTime
      /\ UNCHANGED <<rows, drawn, regenerate, cache, handshake>>
    BY DEF Tick, Types, HandshakeType
<1>2. \A t \in Token : /\ lastValid'[t] \in {lastValid[t], now'}
                       /\ lastValid'[t] >= lastValid[t] /\ lastValid'[t] \in -1 .. now'
                       /\ rows[t] # NoRow /\ ~ExpiredAt(rows[t], now') => lastValid'[t] = now'
    BY <1>1 DEF Tick, RowsOK, Types, HandshakeType
<1>3. Types'
    BY <1>1, <1>2 DEF Types, HandshakeType, Tick
<1>4. RowsOK'
    BY <1>1, <1>2 DEF RowsOK
<1>5. CacheOK'
    BY <1>1, <1>2 DEF CacheOK, Types, HandshakeType
<1>6. QueryOK'
    <2> SUFFICES ASSUME NEW h \in Handshake, handshake[h].pc \in {"fetching", "fetched"}
                 PROVE  /\ handshake[h].began \in 0 .. now'
                        /\ now' <= handshake[h].began + MaxFetch
                        /\ handshake[h].pc = "fetched" /\ handshake[h].row # NoRow =>
                              /\ handshake[h].token \in drawn
                              /\ ~ExpiredAt(handshake[h].row, now') =>
                                    lastValid'[handshake[h].token] >= handshake[h].began
        BY <1>1 DEF QueryOK
    <2>1. handshake[h].began \in 0 .. now' /\ now' <= handshake[h].began + MaxFetch
        BY <1>1 DEF QueryOK, Tick
    <2>2. ASSUME handshake[h].pc = "fetched", handshake[h].row # NoRow,
                 ~ExpiredAt(handshake[h].row, now')
          PROVE  lastValid'[handshake[h].token] >= handshake[h].began
        <3>1. handshake[h].row \in Row /\ handshake[h].token \in Token
            BY <2>2 DEF Types, HandshakeType
        <3>2. ~ExpiredAt(handshake[h].row, now)
            BY <1>1, <2>2, <3>1 DEF ExpiredAt, Row
        <3>3. lastValid[handshake[h].token] >= handshake[h].began
            BY <2>2, <3>2 DEF QueryOK
        <3> QED BY <1>1, <1>2, <3>1, <3>3 DEF Types, HandshakeType
    <2>3. handshake[h].pc = "fetched" /\ handshake[h].row # NoRow => handshake[h].token \in drawn
        BY DEF QueryOK
    <2> QED BY <2>1, <2>2, <2>3
<1>7. AcceptedOK'
    BY <1>1, <1>2 DEF AcceptedOK, Types, HandshakeType
<1> QED BY <1>3, <1>4, <1>5, <1>6, <1>7

(* Every step preserves the invariant.                                       *)
LEMMA StepInv == AuthInv /\ [Next]_vars => AuthInv'
<1> SUFFICES ASSUME AuthInv, [Next]_vars PROVE AuthInv'
    OBVIOUS
<1>1. CASE \E t \in Token, l \in Lifetimes : OnCreate(t, l)
    <2>1. PICK t \in Token, l \in Lifetimes : OnCreate(t, l)
        BY <1>1
    <2>2. ExpiryOf(l) \in Int \cup {Never}
        BY TokenAssumption DEF ExpiryOf, AuthInv, Types
    <2>3. regenerate' \in Int \cup {Never, NoRow}
        BY <2>1 DEF OnCreate, AuthInv, Types
    <2> QED BY <2>1, <2>2, <2>3, CreateTokenInv DEF OnCreate
<1>2. CASE \E t \in Token : OnDelete(t)
    BY <1>2, DeleteTokenInv DEF OnDelete, AuthInv, Types, HandshakeType
<1>3. CASE \E t \in Token : RegenerateDelete(t)
    BY <1>3, RegenerateDeleteInv
<1>4. CASE \E t \in Token : RegenerateCreate(t)
    <2>1. PICK t \in Token : RegenerateCreate(t)
        BY <1>4
    <2>2. regenerate \in Int \cup {Never}
        BY <2>1 DEF RegenerateCreate, AuthInv, Types, HandshakeType
    <2> QED BY <2>1, <2>2, CreateTokenInv DEF RegenerateCreate
<1>5. CASE RegenerateStops
    BY <1>5 DEF RegenerateStops, AuthInv, Types, HandshakeType, RowsOK, CacheOK, QueryOK, AcceptedOK
<1>6. CASE \E h \in Handshake : \/ LookupHit(h) \/ LookupMiss(h) \/ DatabaseAnswers(h)
                                \/ Refuse(h) \/ AcceptAndStore(h)
                                \/ \E t \in Token : Reconnect(h, t)
    BY <1>6, LookupHitInv, LookupMissInv, DatabaseAnswersInv, RefuseInv, AcceptAndStoreInv,
       ReconnectInv
<1>7. CASE Restart
    BY <1>7, RestartInv
<1>8. CASE Tick
    BY <1>8, TickInv
<1>9. CASE UNCHANGED vars
    BY <1>9 DEF vars, AuthInv, Types, HandshakeType, RowsOK, CacheOK, QueryOK, AcceptedOK
<1> QED BY <1>1, <1>2, <1>3, <1>4, <1>5, <1>6, <1>7, <1>8, <1>9 DEF Next

(* The invariant holds always.                                               *)
THEOREM AuthSafety == Spec => []AuthInv
BY InitInv, StepInv, PTL DEF Spec

(* Every variable of the token service keeps its type, and no row is of a    *)
(* token that was not drawn (tokens.ts, auth.rs).                            *)
THEOREM AuthTypes == Spec => []TypeOK
<1>1. AuthInv => TypeOK
    BY DEF AuthInv, Types, HandshakeType, RowsOK, TypeOK, Pc
<1> QED BY <1>1, AuthSafety, PTL

(* auth::validate accepts no token whose row was last valid longer ago than  *)
(* the cache's lifetime and one query together.                              *)
THEOREM StalenessTheorem == Spec => []StalenessBounded
<1>1. AuthInv => StalenessBounded
    BY DEF AuthInv, Types, HandshakeType, AcceptedOK, StalenessBounded
<1> QED BY <1>1, AuthSafety, PTL

(* The cache of auth.rs vouches only for tokens the dashboard has drawn, and *)
(* not for longer than that.                                                 *)
THEOREM CacheTheorem == Spec => []CacheVouchesForRows
<1>1. AuthInv => CacheVouchesForRows
    BY DEF AuthInv, CacheOK, CacheVouchesForRows
<1> QED BY <1>1, AuthSafety, PTL
=============================================================================
