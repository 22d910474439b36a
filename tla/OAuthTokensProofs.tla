-------------------------- MODULE OAuthTokensProofs --------------------------
(***************************************************************************)
(* Theorems about the OAuth tokens of a provider, for any number of pods,     *)
(* uploads, logins and faults.                                              *)
(***************************************************************************)
EXTENDS OAuthTokens, TLAPS

-----------------------------------------------------------------------------
(* The inductive invariant, in parts; TypeOK is one of them.                 *)

\* The columns of a token fit together, where log tells the answers' logins.
Whole(tok, log) ==
    /\ tok.access = tok.expiry /\ tok.access # 0 /\ tok.refresh # 0
    /\ log[tok.access] = log[tok.refresh]

\* In the row and in every hand, as far as there is a token.
WholeInv ==
    /\ row # NoToken => Whole(row, login)
    /\ \A w \in Writers :
           IF hand[w].pc = "idle" THEN hand[w].tok = NoToken ELSE Whole(hand[w].tok, login)

\* What migrate-tokens has read is what it would write over.
SealInv == ~sealed /\ tool.pc = "encrypt" => tool.tok = row /\ row # NoToken

\* Google takes every refresh token that is kept in the row or in a hand.
GoogleLive ==
    provider = "youtube" =>
        /\ row.refresh # 0 => row.refresh \in live
        /\ \A w \in Writers : hand[w].tok.refresh # 0 => hand[w].tok.refresh \in live

\* Twitch takes the one a writer is about to store, and that one nobody else has.
TwitchLive ==
    provider = "twitch" =>
        \A w \in Writers : hand[w].pc = "store" =>
            /\ hand[w].tok.refresh \in live /\ hand[w].tok.refresh # row.refresh
            /\ \A v \in Writers \ {w} : hand[v].tok.refresh # hand[w].tok.refresh

LiveInv == GoogleLive /\ TwitchLive

Storing == \E w \in Writers : hand[w].pc = "store"

\* Without failures a token that is about to be stored is fresh, and the row a refresher or an
\* upload asks for is the one it has read, or a fresh one.
FreshInv ==
    faults = 0 => \A w \in Writers :
        /\ hand[w].pc = "store" => left[hand[w].tok.expiry] = Lifetime
        /\ hand[w].pc = "ask" => \/ hand[w].tok.refresh = row.refresh
                                 \/ row.expiry # 0 /\ left[row.expiry] = Lifetime

\* Each refresher comes two ticks before the end at the latest, unless a fresh token is on its way
\* into the row.
InTime ==
    faults = 0 /\ row.expiry # 0 =>
        /\ left[row.expiry] # 1
        /\ left[row.expiry] > 0 /\ ~Storing =>
               \A p \in Refreshers : hand[p].pc = "idle" => wait[p] + 2 <= left[row.expiry]

-----------------------------------------------------------------------------
\* What the assumptions say of the constants.
LEMMA Bounds ==
    /\ MaxFaults \in Nat /\ MaxLogins \in Nat /\ Lifetime \in Nat /\ MaxStates \in Nat
    /\ MinWait \in Nat /\ FirstWait \in Nat /\ MaxWait \in Nat /\ MaxWait <= FirstWait
    /\ 1 \in Answers /\ 0 \notin Answers
BY OAuthAssumption

\* An identity that the provider gives out is none that is kept anywhere.
LEMMA NewIsUnused ==
    ASSUME NEW n \in New
    PROVE  /\ n \in Answers /\ n # 0
           /\ n \notin In(row) /\ \A w \in Writers : n \notin In(hand[w].tok)
BY Bounds DEF New, Used

\* Tokens that are put together.
LEMMA TokenFields ==
    /\ NoToken \in Token /\ NoToken.access = 0 /\ NoToken.refresh = 0 /\ NoToken.expiry = 0
    /\ \A a, r, e \in Answers \cup {0} :
           LET tok == [access |-> a, refresh |-> r, expiry |-> e]
           IN  tok \in Token /\ tok.access = a /\ tok.refresh = r /\ tok.expiry = e
    /\ \A tok \in Token : /\ tok.access \in Answers \cup {0} /\ tok.refresh \in Answers \cup {0}
                          /\ tok.expiry \in Answers \cup {0}
    /\ \A tok \in Token, e \in Answers \cup {0} :
           LET x == [tok EXCEPT !.expiry = e]
           IN  x \in Token /\ x.access = tok.access /\ x.refresh = tok.refresh /\ x.expiry = e
<1>1. \A a, r, e \in Answers \cup {0} :
           LET tok == [access |-> a, refresh |-> r, expiry |-> e]
           IN  tok \in Token /\ tok.access = a /\ tok.refresh = r /\ tok.expiry = e
  BY DEF Token
<1>2. 0 \in Answers \cup {0}
  OBVIOUS
<1>3. NoToken \in Token /\ NoToken.access = 0 /\ NoToken.refresh = 0 /\ NoToken.expiry = 0
  BY <1>1, <1>2, Zenon DEF NoToken
<1>4. \A tok \in Token, e \in Answers \cup {0} :
           LET x == [tok EXCEPT !.expiry = e]
           IN  x \in Token /\ x.access = tok.access /\ x.refresh = tok.refresh /\ x.expiry = e
  BY DEF Token
<1> QED
  BY <1>1, <1>3, <1>4 DEF Token

\* What a writer has in its hand after a step.
LEMMA HandFields ==
    ASSUME TypeOK, NEW w \in Writers, NEW pc \in {"idle", "ask", "store"}, NEW tok \in Token
    PROVE  /\ Idle.pc = "idle" /\ Idle.tok = NoToken
           /\ Goes(w, pc, tok) =>
                  /\ hand' \in [Writers -> [pc : {"idle", "ask", "store"}, tok : Token]]
                  /\ hand'[w].pc = pc /\ hand'[w].tok = tok
                  /\ \A v \in Writers \ {w} : hand'[v] = hand[v]
           /\ hand' = [hand EXCEPT ![w] = Idle] =>
                  /\ hand' \in [Writers -> [pc : {"idle", "ask", "store"}, tok : Token]]
                  /\ hand'[w].pc = "idle" /\ hand'[w].tok = NoToken
                  /\ \A v \in Writers \ {w} : hand'[v] = hand[v]
<1> DEFINE Hand == [pc : {"idle", "ask", "store"}, tok : Token]
<1>1. hand \in [Writers -> Hand]
  BY DEF TypeOK
<1>2. ASSUME NEW x \in Hand, hand' = [hand EXCEPT ![w] = x]
      PROVE  hand' \in [Writers -> Hand] /\ hand'[w] = x /\ \A v \in Writers \ {w} : hand'[v] = hand[v]
  <2> HIDE DEF Hand
  <2> QED
    BY <1>1, <1>2
<1>3. Idle \in Hand /\ Idle.pc = "idle" /\ Idle.tok = NoToken
  BY TokenFields DEF Idle
<1>4. [pc |-> pc, tok |-> tok] \in Hand
  OBVIOUS
<1>5. [pc |-> pc, tok |-> tok].pc = pc /\ [pc |-> pc, tok |-> tok].tok = tok
  OBVIOUS
<1> HIDE DEF Hand
<1>6. Goes(w, pc, tok) => /\ hand' \in [Writers -> Hand]
                          /\ hand'[w].pc = pc /\ hand'[w].tok = tok
                          /\ \A v \in Writers \ {w} : hand'[v] = hand[v]
  BY <1>2, <1>4, <1>5 DEF Goes
<1> QED
  BY <1>2, <1>3, <1>6 DEF Hand

\* A refresher sleeps for as long as its interval allows.
LEMMA DoneWaits ==
    ASSUME TypeOK, NEW w \in Writers, Done(w)
    PROVE  /\ hand' = [hand EXCEPT ![w] = Idle]
           /\ wait' \in [Refreshers -> 0 .. FirstWait]
           /\ \A p \in Refreshers : wait'[p] = wait[p] \/ (p = w /\ wait'[p] <= MaxWait)
<1>1. CASE w \in Refreshers
  <2>1. PICK d \in MinWait .. MaxWait : wait' = [wait EXCEPT ![w] = d]
    BY <1>1 DEF Done
  <2>2. d \in 0 .. FirstWait /\ d <= MaxWait
    BY Bounds
  <2> QED
    BY <2>1, <2>2 DEF Done, TypeOK
<1>2. CASE w \notin Refreshers
  BY <1>2 DEF Done, TypeOK
<1> QED
  BY <1>1, <1>2

-----------------------------------------------------------------------------
(* Types, part by part.                                                     *)

ProviderTypes ==
    /\ provider \in {"twitch", "youtube"}
    /\ left \in [Answers -> 0 .. Lifetime] /\ live \subseteq Answers
    /\ login \in [Answers -> 0 .. MaxLogins]

RowTypes == row \in Token /\ sealed \in BOOLEAN

HandTypes ==
    /\ hand \in [Writers -> [pc : {"idle", "ask", "store"}, tok : Token]]
    /\ tool \in [pc : {"idle", "encrypt"}, tok : Token]

WaitTypes == wait \in [Refreshers -> 0 .. FirstWait]

StoreTypes ==
    pending \in Nat /\ expired \in Nat /\ pending + expired <= MaxStates /\ refused \in BOOLEAN

CountTypes == logins \in 0 .. MaxLogins /\ faults \in 0 .. MaxFaults

\* The type invariant is the conjunction of its parts.
LEMMA Parts ==
    TypeOK <=> ProviderTypes /\ RowTypes /\ HandTypes /\ WaitTypes /\ StoreTypes /\ CountTypes
BY DEF TypeOK, ProviderTypes, RowTypes, HandTypes, WaitTypes, StoreTypes, CountTypes

\* What a step has to show, and what it leaves alone.
LEMMA PartsKept ==
    /\ ProviderTypes' /\ RowTypes' /\ HandTypes' /\ WaitTypes' /\ StoreTypes' /\ CountTypes' => TypeOK'
    /\ TypeOK => /\ UNCHANGED <<provider, left, live, login>> => ProviderTypes'
                 /\ UNCHANGED <<row, sealed>> => RowTypes'
                 /\ UNCHANGED <<hand, tool>> => HandTypes'
                 /\ UNCHANGED wait => WaitTypes'
                 /\ UNCHANGED <<pending, expired, refused>> => StoreTypes'
                 /\ logins' = logins /\ faults' \in 0 .. MaxFaults => CountTypes'
                 /\ UNCHANGED <<logins, faults>> => CountTypes'
<1>1. ProviderTypes' /\ RowTypes' /\ HandTypes' /\ WaitTypes' /\ StoreTypes' /\ CountTypes' => TypeOK'
  BY DEF TypeOK, ProviderTypes, RowTypes, HandTypes, WaitTypes, StoreTypes, CountTypes
<1>2. ASSUME TypeOK
      PROVE  /\ UNCHANGED <<provider, left, live, login>> => ProviderTypes'
             /\ UNCHANGED <<row, sealed>> => RowTypes'
             /\ UNCHANGED <<hand, tool>> => HandTypes'
             /\ UNCHANGED wait => WaitTypes'
             /\ UNCHANGED <<pending, expired, refused>> => StoreTypes'
             /\ logins' = logins /\ faults' \in 0 .. MaxFaults => CountTypes'
             /\ UNCHANGED <<logins, faults>> => CountTypes'
  <2>1. ProviderTypes /\ RowTypes /\ HandTypes /\ WaitTypes /\ StoreTypes /\ CountTypes
    BY <1>2, Parts
  <2>2. UNCHANGED <<provider, left, live, login>> => ProviderTypes'
    BY <2>1 DEF ProviderTypes
  <2>3. (UNCHANGED <<row, sealed>> => RowTypes') /\ (UNCHANGED wait => WaitTypes')
    BY <2>1 DEF RowTypes, WaitTypes
  <2>4. UNCHANGED <<hand, tool>> => HandTypes'
    BY <2>1 DEF HandTypes
  <2>5. UNCHANGED <<pending, expired, refused>> => StoreTypes'
    BY <2>1 DEF StoreTypes
  <2>6. /\ logins' = logins /\ faults' \in 0 .. MaxFaults => CountTypes'
        /\ UNCHANGED <<logins, faults>> => CountTypes'
    BY <2>1 DEF CountTypes
  <2> QED
    BY <2>2, <2>3, <2>4, <2>5, <2>6
<1> QED
  BY <1>1, <1>2

\* One more fault stays within the bound.
LEMMA FaultCounts ==
    ASSUME TypeOK, faults' = faults \/ Fault
    PROVE  faults' \in 0 .. MaxFaults /\ faults' >= faults /\ (faults' = 0 => faults' = faults /\ ~Fault)
BY Bounds DEF TypeOK, Fault

\* A refresh with the provider keeps the types, answered or refused.
LEMMA AskTypes ==
    ASSUME TypeOK, NEW w \in Writers, Ask(w)
    PROVE  TypeOK'
<1>1. RowTypes' /\ StoreTypes' /\ tool' = tool /\ logins' = logins
  BY Parts DEF Ask, store, RowTypes, StoreTypes
<1>2. faults' \in 0 .. MaxFaults
  BY FaultCounts DEF Ask, tokens
<1>3. /\ hand[w].tok \in Token
      /\ hand[w].tok.refresh \in Answers \cup {0}
  BY TokenFields DEF TypeOK
<1>4. ProviderTypes' /\ HandTypes' /\ WaitTypes'
  <2>1. ASSUME NEW n \in New, hand[w].tok.refresh \in live,
               Answer(hand[w].tok.refresh, n), Goes(w, "store", Renewed(hand[w].tok.refresh, n)),
               wait' = wait
        PROVE  ProviderTypes' /\ HandTypes' /\ WaitTypes'
    <3>1. n \in Answers /\ Lifetime \in 0 .. Lifetime
      BY <2>1, NewIsUnused, Bounds
    <3>2. ProviderTypes'
      BY <2>1, <3>1 DEF Answer, ProviderTypes, TypeOK
    <3>3. Renewed(hand[w].tok.refresh, n) \in Token
      BY <1>3, <3>1, TokenFields DEF Renewed
    <3>4. HandTypes'
      BY <1>1, <2>1, <3>3, HandFields DEF HandTypes, TypeOK
    <3> QED
      BY <2>1, <3>2, <3>4 DEF WaitTypes, TypeOK
  <2>2. ASSUME Done(w), UNCHANGED <<provider, left, login>>, live' \subseteq live
        PROVE  ProviderTypes' /\ HandTypes' /\ WaitTypes'
    <3>1. HandTypes' /\ WaitTypes'
      BY <1>1, <2>2, DoneWaits, HandFields, TokenFields DEF HandTypes, WaitTypes, TypeOK
    <3> QED
      BY <2>2, <3>1 DEF ProviderTypes, TypeOK
  <2> QED
    BY <2>1, <2>2 DEF Ask, tokens
<1> QED
  BY <1>1, <1>2, <1>4, PartsKept

\* Every step keeps the types.
LEMMA TypesKept ==
    ASSUME TypeOK, Keyed \in BOOLEAN, [Next]_vars
    PROVE  TypeOK'
<1> USE DEF tokens, store
<1>1. row \in Token /\ \A w \in Writers : hand[w].tok \in Token
  BY DEF TypeOK
<1>2. ASSUME NEW p \in Refreshers, Look(p) PROVE TypeOK'
  <2>1. p \in Writers
    BY DEF Writers
  <2>2. faults' \in 0 .. MaxFaults
    BY <1>2, FaultCounts DEF Look
  <2>3. HandTypes' /\ WaitTypes'
    <3>1. CASE Goes(p, "ask", row) /\ wait' = wait
      BY <1>1, <1>2, <2>1, <3>1, HandFields DEF Look, HandTypes, WaitTypes, TypeOK
    <3>2. CASE Done(p)
      BY <1>2, <2>1, <3>2, DoneWaits, HandFields, TokenFields DEF Look, HandTypes, WaitTypes, TypeOK
    <3> QED
      BY <1>2, <3>1, <3>2 DEF Look
  <2> QED
    BY <1>2, <2>2, <2>3, PartsKept DEF Look
<1>3. ASSUME NEW c \in Clients, LookClient(c) PROVE TypeOK'
  <2>1. c \in Writers
    BY DEF Writers
  <2>2. HandTypes'
    BY <1>1, <1>3, <2>1, HandFields DEF LookClient, HandTypes, TypeOK
  <2> QED
    BY <1>3, <2>2, PartsKept DEF LookClient
<1>4. ASSUME NEW w \in Writers, Store(w) PROVE TypeOK'
  <2>1. faults' \in 0 .. MaxFaults
    BY <1>4, FaultCounts DEF Store
  <2>2. HandTypes' /\ WaitTypes'
    BY <1>4, DoneWaits, HandFields, TokenFields DEF Store, HandTypes, WaitTypes, TypeOK
  <2>3. RowTypes'
    BY <1>1, <1>4 DEF Store, RowTypes, TypeOK
  <2> QED
    BY <1>4, <2>1, <2>2, <2>3, PartsKept DEF Store
<1>5. ASSUME NEW w \in Writers, Die(w) PROVE TypeOK'
  <2>1. faults' \in 0 .. MaxFaults
    BY <1>5, FaultCounts DEF Die
  <2>2. HandTypes'
    BY <1>5, HandFields, TokenFields DEF Die, HandTypes, TypeOK
  <2>3. WaitTypes'
    <3>1. \A d \in MinWait .. FirstWait : d \in 0 .. FirstWait
      BY Bounds
    <3> QED
      BY <1>5, <3>1 DEF Die, WaitTypes, TypeOK
  <2> QED
    BY <1>5, <2>1, <2>2, <2>3, PartsKept DEF Die
<1>6. CASE StartLogin
  <2>1. StoreTypes'
    <3> DEFINE rest == IF Clean THEN 0 ELSE expired
    <3>1. /\ pending \in Nat /\ rest \in Nat /\ MaxStates \in Nat /\ pending + rest <= MaxStates
      BY Bounds DEF TypeOK
    <3>2. expired' = rest
      BY <1>6, Zenon DEF StartLogin
    <3>3. CASE Room(rest)
      <4>1. refused' = FALSE /\ pending' = pending + 1
        BY <1>6, <3>3, Zenon DEF StartLogin
      <4>2. pending + rest < MaxStates
        BY <3>3, Zenon DEF Room
      <4>3. refused' \in BOOLEAN
        BY <4>1, Zenon
      <4> HIDE DEF rest
      <4> QED
        BY <3>1, <3>2, <4>1, <4>2, <4>3 DEF StoreTypes
    <3>4. CASE ~Room(rest)
      <4>1. refused' = (pending < MaxStates) /\ pending' = pending
        BY <1>6, <3>4, Zenon DEF StartLogin
      <4>2. (pending < MaxStates) \in BOOLEAN
        OBVIOUS
      <4>3. refused' \in BOOLEAN
        BY <4>1, <4>2, Zenon
      <4> HIDE DEF rest
      <4> QED
        BY <3>1, <3>2, <4>1, <4>3 DEF StoreTypes
    <3> QED
      BY <3>3, <3>4
  <2> QED
    BY <1>6, <2>1, PartsKept DEF StartLogin
<1>7. CASE StateExpires
  <2>1. StoreTypes'
    BY <1>7, Bounds DEF StateExpires, StoreTypes, TypeOK
  <2> QED
    BY <1>7, <2>1, PartsKept DEF StateExpires
<1>8. ASSUME NEW l \in Callbacks, Exchange(l) PROVE TypeOK'
  <2>1. l \in Writers
    BY DEF Writers
  <2>2. StoreTypes'
    BY <1>8, Bounds DEF Exchange, StoreTypes, TypeOK
  <2>3. ASSUME NEW n \in New, logins < MaxLogins, logins' = logins + 1,
               left' = [left EXCEPT ![n] = Lifetime], login' = [login EXCEPT ![n] = logins + 1],
               live' = live \cup {n}, provider' = provider, tool' = tool,
               Goes(l, "store", [access |-> n, refresh |-> n, expiry |-> n])
        PROVE  ProviderTypes' /\ HandTypes' /\ logins' \in 0 .. MaxLogins
    <3>1. n \in Answers /\ Lifetime \in 0 .. Lifetime /\ logins + 1 \in 0 .. MaxLogins
      BY <2>3, NewIsUnused, Bounds DEF TypeOK
    <3>2. [access |-> n, refresh |-> n, expiry |-> n] \in Token
      BY <3>1, TokenFields
    <3>3. HandTypes'
      BY <2>1, <2>3, <3>2, HandFields DEF HandTypes, TypeOK
    <3>4. ProviderTypes'
      BY <2>3, <3>1 DEF ProviderTypes, TypeOK
    <3> QED
      BY <2>3, <3>1, <3>3, <3>4
  <2>4. ProviderTypes' /\ HandTypes' /\ logins' \in 0 .. MaxLogins
    <3>1. CASE UNCHANGED <<left, login, live, hand, logins>>
      BY <1>8, <3>1, PartsKept DEF Exchange, TypeOK
    <3>2. provider' = provider /\ tool' = tool
      BY <1>8 DEF Exchange
    <3>3. CASE ~UNCHANGED <<left, login, live, hand, logins>>
      BY <1>8, <2>3, <3>2, <3>3, Zenon DEF Exchange
    <3> QED
      BY <3>1, <3>3
  <2>5. RowTypes' /\ WaitTypes'
    BY <1>8, PartsKept DEF Exchange
  <2>6. CountTypes'
    BY <1>8, <2>4 DEF Exchange, CountTypes, TypeOK
  <2> QED
    BY <2>2, <2>4, <2>5, <2>6, PartsKept
<1>9. CASE ReadPlain
  <2>1. HandTypes'
    BY <1>1, <1>9 DEF ReadPlain, Holds, HandTypes, TypeOK
  <2> QED
    BY <1>9, <2>1, PartsKept DEF ReadPlain
<1>10. CASE Encrypt
  <2>1. faults' \in 0 .. MaxFaults
    BY <1>10, FaultCounts DEF Encrypt
  <2>2. HandTypes'
    BY <1>10, TokenFields DEF Encrypt, Holds, HandTypes, TypeOK
  <2>3. tool.tok \in Token /\ row.expiry \in Answers \cup {0}
    BY <1>1, TokenFields DEF TypeOK
  <2>4. [tool.tok EXCEPT !.expiry = row.expiry] \in Token
    BY <2>3, TokenFields
  <2>5. RowTypes'
    BY <1>10, <2>4 DEF Encrypt, RowTypes, TypeOK
  <2> QED
    BY <1>10, <2>1, <2>2, <2>5, PartsKept DEF Encrypt
<1>11. CASE Tick
  <2>1. ProviderTypes'
    <3>1. /\ left \in [Answers -> 0 .. Lifetime] /\ live \subseteq Answers
          /\ login \in [Answers -> 0 .. MaxLogins] /\ 0 \in 0 .. Lifetime /\ 0 \in 0 .. MaxLogins
          /\ provider' = provider /\ provider \in {"twitch", "youtube"}
      BY <1>11, Bounds DEF Tick, TypeOK
    <3>2. \A n \in Answers : left[n] > 0 => left[n] - 1 \in 0 .. Lifetime
      BY <3>1, Bounds
    <3>3. left' \in [Answers -> 0 .. Lifetime]
      BY <1>11, <3>1, <3>2 DEF Tick
    <3>4. live' \subseteq Answers /\ login' \in [Answers -> 0 .. MaxLogins]
      BY <1>11, <3>1 DEF Tick
    <3> QED
      BY <3>1, <3>3, <3>4 DEF ProviderTypes
  <2>2. WaitTypes'
    <3>1. \A p \in Refreshers : wait[p] - 1 \in 0 .. FirstWait
      BY <1>11, Bounds DEF Tick, TypeOK
    <3> QED
      BY <1>11, <3>1 DEF Tick, WaitTypes
  <2> QED
    BY <1>11, <2>1, <2>2, PartsKept DEF Tick
<1>12. CASE UNCHANGED vars
  BY <1>12, PartsKept DEF vars
<1>13. Clients0 \subseteq Clients /\ Clients \subseteq Writers /\ Refreshers \subseteq Writers
       /\ Callbacks \subseteq Writers
  BY DEF Clients0, Writers
<1> QED
  BY <1>2, <1>3, <1>4, <1>5, <1>6, <1>7, <1>8, <1>9, <1>10, <1>11, <1>12, <1>13, AskTypes
     DEF Next, Refresh, Upload, Callback

\* What is there when the server starts, part by part.
LEMMA InitTypes ==
    ASSUME Init
    PROVE  TypeOK
<1>1. \A n \in {0, 1} : LET tok == [access |-> n, refresh |-> n, expiry |-> n] IN tok \in Token
  BY Bounds, TokenFields
<1>2. RowTypes
  BY <1>1 DEF Init, RowTypes
<1>3. ProviderTypes
  <2>1. PICK d \in {0, Lifetime} : left = [n \in Answers |-> IF n = 1 THEN d ELSE 0]
    BY DEF Init
  <2>2. left \in [Answers -> 0 .. Lifetime]
    BY <2>1, Bounds
  <2>3. login \in [Answers -> 0 .. MaxLogins] /\ live \subseteq Answers
    BY Bounds DEF Init
  <2> QED
    BY <2>2, <2>3 DEF Init, ProviderTypes
<1>4. HandTypes
  <2>1. Idle \in [pc : {"idle", "ask", "store"}, tok : Token]
        /\ Idle \in [pc : {"idle", "encrypt"}, tok : Token]
    BY TokenFields DEF Idle
  <2> QED
    BY <2>1 DEF Init, HandTypes
<1>5. WaitTypes
  <2>1. MinWait .. FirstWait \subseteq 0 .. FirstWait
    BY Bounds
  <2> QED
    BY <2>1 DEF Init, WaitTypes
<1>6. StoreTypes /\ CountTypes
  <2>1. refused \in BOOLEAN
    BY Zenon DEF Init
  <2>2. CountTypes /\ pending \in Nat /\ expired \in Nat /\ pending + expired <= MaxStates
    BY Bounds DEF Init, CountTypes
  <2> QED
    BY <2>1, <2>2, Zenon DEF StoreTypes
<1> QED
  BY <1>2, <1>3, <1>4, <1>5, <1>6, Parts

(***************************************************************************)
(* However many pods, uploads and logins write the one row, and whatever      *)
(* fails, the variables keep their types; the store of login states never     *)
(* holds more than its limit.                                               *)
(***************************************************************************)
THEOREM TypeCorrect == Spec => []TypeOK
<1>1. TypeOK /\ [Next]_vars => TypeOK'
  BY TypesKept, OAuthAssumption
<1> QED
  BY InitTypes, <1>1, PTL DEF Spec

(***************************************************************************)
(* The store of login states refuses none for the sake of expired ones: that  *)
(* 10000 is a multiple of 100 is what makes it clean when it is full.         *)
(***************************************************************************)
THEOREM NoneIsRefused == Spec => []RefusedOnlyWhenFull
<1>1. Init => RefusedOnlyWhenFull
  BY DEF Init, RefusedOnlyWhenFull
<1>2. ASSUME TypeOK, RefusedOnlyWhenFull, [Next]_vars
      PROVE  RefusedOnlyWhenFull'
  <2>1. CASE StartLogin
    <3>1. pending \in Nat /\ expired \in Nat /\ pending + expired <= MaxStates /\ MaxStates \in Nat
      BY <1>2, Bounds DEF TypeOK
    <3>2. CASE Clean
      <4>1. Room(0) \/ ~(pending < MaxStates)
        BY <3>1 DEF Room
      <4> QED
        BY <2>1, <3>2, <4>1 DEF StartLogin, RefusedOnlyWhenFull
    <3>3. CASE ~Clean
      <4>1. pending + expired # MaxStates
        BY <3>3, OAuthAssumption DEF Clean
      <4>2. Room(expired)
        BY <3>1, <4>1 DEF Room
      <4> QED
        BY <2>1, <3>3, <4>2 DEF StartLogin, RefusedOnlyWhenFull
    <3> QED
      BY <3>2, <3>3
  <2>2. CASE ~StartLogin
    <3>1. refused' = refused
      BY <1>2, <2>2 DEF Next, Refresh, Upload, Callback, Look, LookClient, Ask, Store, Die,
           StateExpires, Exchange, ReadPlain, Encrypt, Tick, vars, store
    <3> QED
      BY <1>2, <3>1 DEF RefusedOnlyWhenFull
  <2> QED
    BY <2>1, <2>2
<1> QED
  BY <1>1, <1>2, TypeCorrect, PTL DEF Spec

-----------------------------------------------------------------------------
(* One token: what is in use keeps its login.                                *)

\* A new answer of the provider changes the login of no token that is in use.
LEMMA LoginsStay ==
    ASSUME TypeOK, [Next]_vars, NEW tok \in Token, In(tok) \subseteq Used, Whole(tok, login)
    PROVE  Whole(tok, login')
<1> DEFINE a == tok.access
           r == tok.refresh
<1>1. a \in Used \cap Answers /\ r \in Used \cap Answers
  BY TokenFields DEF In, Whole
<1>2. login \in [Answers -> 0 .. MaxLogins]
  BY DEF TypeOK
<1> HIDE DEF a, r
<1>3. login'[a] = login[a] /\ login'[r] = login[r]
  <2>1. CASE login' = login
    BY <2>1
  <2>2. ASSUME NEW n \in New, NEW k, login' = [login EXCEPT ![n] = k]
        PROVE  login'[a] = login[a] /\ login'[r] = login[r]
    <3>1. n \notin Used
      BY DEF New
    <3> QED
      BY <1>1, <1>2, <2>2, <3>1
  <2>3. CASE Tick
    <3>1. \A n \in Answers : n \in Used => login'[n] = login[n]
      BY <2>3 DEF Tick
    <3> QED
      BY <1>1, <3>1
  <2>4. ASSUME NEW w \in Writers, Ask(w)
        PROVE  login' = login \/ \E n \in New, k \in Nat : login' = [login EXCEPT ![n] = k]
    <3>1. login' = login \/ \E n \in New : Answer(hand[w].tok.refresh, n) /\ hand[w].tok.refresh \in live
      BY <2>4 DEF Ask, tokens
    <3>2. \A n \in live : login[n] \in Nat
      BY Bounds DEF TypeOK
    <3> QED
      BY <3>1, <3>2 DEF Answer
  <2>5. ASSUME NEW l \in Callbacks, Exchange(l)
        PROVE  login' = login \/ \E n \in New, k \in Nat : login' = [login EXCEPT ![n] = k]
    <3>1. logins + 1 \in Nat
      BY Bounds DEF TypeOK
    <3> QED
      BY <2>5, <3>1 DEF Exchange
  <2>6. CASE ~Tick /\ ~(\E w \in Writers : Ask(w)) /\ ~(\E l \in Callbacks : Exchange(l))
    <3>1. login' = login
      BY <2>6 DEF Next, Refresh, Upload, Callback, Look, LookClient, Store, Die, Clients0, Writers,
         StartLogin, StateExpires, ReadPlain, Encrypt, vars, tokens
    <3> QED
      BY <2>1, <3>1
  <2> QED
    BY <2>1, <2>2, <2>3, <2>4, <2>5, <2>6
<1> QED
  BY <1>3 DEF Whole, a, r

\* A step of one writer, as far as the row and the hands are concerned.
LEMMA WholeStep ==
    ASSUME TypeOK, WholeInv, [Next]_vars, NEW w \in Writers,
           \A v \in Writers \ {w} : hand'[v] = hand[v],
           \/ hand'[w] = hand[w]
           \/ hand'[w].pc = "idle" /\ hand'[w].tok = NoToken
           \/ hand'[w].pc # "idle" /\ Whole(hand'[w].tok, login'),
           row' = row \/ Whole(row', login')
    PROVE  WholeInv'
<1>1. row' # NoToken => Whole(row', login')
  <2>1. In(row) \subseteq Used /\ row \in Token
    BY DEF Used, TypeOK
  <2> QED
    BY <2>1, LoginsStay DEF WholeInv
<1>2. ASSUME NEW v \in Writers, hand'[v] = hand[v]
      PROVE  IF hand'[v].pc = "idle" THEN hand'[v].tok = NoToken ELSE Whole(hand'[v].tok, login')
  <2>1. In(hand[v].tok) \subseteq Used /\ hand[v].tok \in Token
    BY DEF Used, TypeOK
  <2> QED
    BY <1>2, <2>1, LoginsStay DEF WholeInv
<1>3. IF hand'[w].pc = "idle" THEN hand'[w].tok = NoToken ELSE Whole(hand'[w].tok, login')
  BY <1>2
<1> QED
  BY <1>1, <1>2, <1>3 DEF WholeInv

\* The same, step by step.
LEMMA WholeKept ==
    ASSUME TypeOK, WholeInv, SealInv, [Next]_vars
    PROVE  WholeInv'
<1>1. /\ row \in Token /\ \A w \in Writers : hand[w].tok \in Token
      /\ Refreshers \subseteq Writers /\ Clients0 \subseteq Writers /\ Callbacks \subseteq Writers
  BY DEF TypeOK, Writers, Clients0
<1>2. row.refresh # 0 \/ row.access # 0 => Whole(row, login)
  BY TokenFields DEF WholeInv
<1>3. ASSUME NEW w \in Writers, Done(w)
      PROVE  /\ hand'[w].pc = "idle" /\ hand'[w].tok = NoToken
             /\ \A v \in Writers \ {w} : hand'[v] = hand[v]
  BY <1>3, DoneWaits, HandFields, TokenFields
<1>4. ASSUME NEW p \in Refreshers, Look(p) PROVE WholeInv'
  <2>1. p \in Writers /\ row' = row /\ login' = login
    BY <1>1, <1>4 DEF Look, tokens
  <2>2. CASE Due /\ Goes(p, "ask", row)
    <3>1. Whole(row, login')
      BY <1>2, <2>1, <2>2 DEF Due
    <3>2. /\ hand'[p].pc = "ask" /\ hand'[p].tok = row
          /\ \A v \in Writers \ {p} : hand'[v] = hand[v]
      BY <1>1, <2>1, <2>2, HandFields
    <3> QED
      BY <2>1, <3>1, <3>2, WholeStep
  <2>3. CASE Done(p)
    BY <1>3, <2>1, <2>3, WholeStep
  <2> QED
    BY <1>4, <2>2, <2>3 DEF Look
<1>5. ASSUME NEW c \in Clients0, LookClient(c) PROVE WholeInv'
  <2>1. c \in Writers /\ row' = row /\ login' = login /\ row.access # 0
    BY <1>1, <1>5 DEF LookClient, tokens
  <2>2. PICK pc \in {"ask", "store"} : Goes(c, pc, row)
    BY <1>5 DEF LookClient
  <2>3. /\ hand'[c].pc = pc /\ hand'[c].tok = row
        /\ \A v \in Writers \ {c} : hand'[v] = hand[v]
    BY <1>1, <2>1, <2>2, HandFields
  <2>4. Whole(row, login')
    BY <1>2, <2>1
  <2> QED
    BY <2>1, <2>3, <2>4, WholeStep
<1>6. ASSUME NEW w \in Writers, Ask(w) PROVE WholeInv'
  <2> DEFINE old == hand[w].tok.refresh
  <2>1. row' = row
    BY <1>6 DEF Ask
  <2>2. ASSUME NEW n \in New, old \in live, Answer(old, n), Goes(w, "store", Renewed(old, n))
        PROVE  WholeInv'
    <3> DEFINE tok == Renewed(old, n)
    <3>1. n \in Answers /\ old \in Answers /\ n # 0 /\ old # 0 /\ old # n
      <4>1. n \notin In(hand[w].tok) /\ n \in Answers
        BY NewIsUnused
      <4> QED
        BY <2>2, <4>1, Bounds DEF TypeOK, In
    <3>2. login \in [Answers -> 0 .. MaxLogins] /\ login' = [login EXCEPT ![n] = login[old]]
      BY <2>2 DEF TypeOK, Answer
    <3>3. tok \in Token /\ tok.access = n /\ tok.expiry = n /\ tok.refresh \in {n, old}
      BY <3>1, TokenFields DEF Renewed
    <3>4. /\ hand'[w].pc = "store" /\ hand'[w].tok = tok
          /\ \A v \in Writers \ {w} : hand'[v] = hand[v]
      BY <2>2, <3>3, HandFields
    <3> HIDE DEF old, tok
    <3>5. Whole(tok, login')
      BY <3>1, <3>2, <3>3 DEF Whole
    <3> QED
      BY <2>1, <3>4, <3>5, WholeStep
  <2>3. CASE Done(w)
    BY <1>3, <2>1, <2>3, WholeStep
  <2> QED
    BY <1>6, <2>2, <2>3 DEF Ask
<1>7. ASSUME NEW w \in Writers, Store(w) PROVE WholeInv'
  <2>1. Done(w) /\ login' = login /\ hand[w].pc = "store"
    BY <1>7 DEF Store, tokens
  <2>2. Whole(hand[w].tok, login')
    BY <2>1 DEF WholeInv
  <2>3. row' = row \/ Whole(row', login')
    BY <1>7, <2>2 DEF Store
  <2> QED
    BY <1>3, <2>1, <2>3, WholeStep
<1>8. ASSUME NEW w \in Writers, Die(w) PROVE WholeInv'
  <2>1. hand' = [hand EXCEPT ![w] = Idle] /\ row' = row
    BY <1>8 DEF Die
  <2>2. /\ hand'[w].pc = "idle" /\ hand'[w].tok = NoToken
        /\ \A v \in Writers \ {w} : hand'[v] = hand[v]
    BY <2>1, HandFields, TokenFields
  <2> QED
    BY <2>1, <2>2, WholeStep
<1>9. ASSUME NEW l \in Callbacks, Exchange(l) PROVE WholeInv'
  <2>1. l \in Writers /\ row' = row
    BY <1>1, <1>9 DEF Exchange
  <2>2. ASSUME NEW n \in New, Goes(l, "store", [access |-> n, refresh |-> n, expiry |-> n])
        PROVE  WholeInv'
    <3> DEFINE tok == [access |-> n, refresh |-> n, expiry |-> n]
    <3>1. n \in Answers /\ n # 0
      BY NewIsUnused
    <3>2. tok \in Token /\ tok.access = n /\ tok.expiry = n /\ tok.refresh = n
      BY <3>1, TokenFields
    <3>3. /\ hand'[l].pc = "store" /\ hand'[l].tok = tok
          /\ \A v \in Writers \ {l} : hand'[v] = hand[v]
      BY <2>1, <2>2, <3>2, HandFields
    <3> HIDE DEF tok
    <3>4. Whole(tok, login')
      BY <3>1, <3>2 DEF Whole
    <3> QED
      BY <2>1, <3>3, <3>4, WholeStep
  <2>3. CASE hand' = hand
    BY <2>1, <2>3, WholeStep
  <2> QED
    BY <1>9, <2>2, <2>3 DEF Exchange
<1>10. CASE Encrypt
  <2>1. hand' = hand /\ login' = login
    BY <1>10 DEF Encrypt, tokens
  <2>2. row' = row \/ Whole(row', login')
    <3>1. CASE Encryptable /\ row' = [tool.tok EXCEPT !.expiry = row.expiry]
      <4>1. tool.tok = row /\ Whole(row, login)
        BY <1>10, <3>1 DEF Encrypt, Encryptable, SealInv, WholeInv
      <4>2. row' \in Token /\ row'.access = row.access /\ row'.refresh = row.refresh
            /\ row'.expiry = row.expiry
        BY <1>1, <3>1, <4>1, TokenFields
      <4> QED
        BY <2>1, <4>1, <4>2 DEF Whole
    <3> QED
      BY <1>10, <3>1 DEF Encrypt
  <2> QED
    <3>1. (\E w \in Writers : TRUE) => WholeInv'
      BY <2>1, <2>2, WholeStep
    <3>2. Writers = {} => WholeInv'
      <4>1. row \in Token /\ In(row) \subseteq Used
        BY <1>1 DEF Used
      <4> QED
        BY <2>2, <4>1, LoginsStay DEF WholeInv
    <3> QED
      BY <3>1, <3>2
<1>11. CASE row' = row /\ hand' = hand
  <2>1. (\E w \in Writers : TRUE) => WholeInv'
    BY <1>11, WholeStep
  <2>2. Writers = {} => WholeInv'
    <3>1. row \in Token /\ In(row) \subseteq Used
      BY <1>1 DEF Used
    <3> QED
      BY <1>11, <3>1, LoginsStay DEF WholeInv
  <2> QED
    BY <2>1, <2>2
<1>12. StartLogin \/ StateExpires \/ ReadPlain \/ Tick \/ UNCHANGED vars => row' = row /\ hand' = hand
  BY DEF StartLogin, StateExpires, ReadPlain, Tick, vars
<1> QED
  BY <1>1, <1>4, <1>5, <1>6, <1>7, <1>8, <1>9, <1>10, <1>11, <1>12
     DEF Next, Refresh, Upload, Callback

\* With the key every write encrypts the row, and migrate-tokens leaves an encrypted row alone.
LEMMA SealKept ==
    ASSUME Keyed, SealInv, [Next]_vars
    PROVE  SealInv'
<1>1. ASSUME row' = row, sealed' = sealed, tool' = tool
      PROVE  SealInv'
  BY <1>1 DEF SealInv
<1>2. ASSUME NEW w \in Writers, Store(w) PROVE SealInv'
  <2>1. CASE sealed' = Keyed
    BY <2>1 DEF SealInv
  <2> QED
    BY <1>1, <1>2, <2>1 DEF Store
<1>3. CASE ReadPlain
  <2>1. tool'.tok = row /\ row # NoToken /\ row' = row
    BY <1>3 DEF ReadPlain, Holds
  <2> QED
    BY <2>1 DEF SealInv
<1>4. CASE Encrypt
  <2>1. tool'.pc = "idle"
    BY <1>4 DEF Encrypt, Holds
  <2> QED
    BY <2>1 DEF SealInv
<1>5. CASE ~ReadPlain /\ ~Encrypt /\ ~(\E w \in Writers : Store(w))
  <2>1. row' = row /\ sealed' = sealed /\ tool' = tool
    BY <1>5 DEF Next, Refresh, Upload, Callback, Look, LookClient, Ask, Die, Clients0, Writers,
       StartLogin, StateExpires, Exchange, Tick, vars
  <2> QED
    BY <1>1, <2>1
<1> QED
  BY <1>2, <1>3, <1>4, <1>5

\* What the theorems below need, at the start.
LEMMA InitKept ==
    ASSUME Init
    PROVE  WholeInv /\ SealInv /\ LiveInv /\ StaysRefreshable
<1>1. PICK n \in {0, 1} : row = [access |-> n, refresh |-> n, expiry |-> n]
  BY DEF Init
<1>2. row.access = n /\ row.refresh = n /\ row.expiry = n
  BY <1>1
<1>3. n = 0 => row = NoToken
  BY <1>1 DEF NoToken
<1>4. row # NoToken => Whole(row, login)
  BY <1>2, <1>3 DEF Whole
<1>5. Idle.pc = "idle" /\ Idle.tok = NoToken /\ NoToken.refresh = 0
  BY TokenFields DEF Idle
<1>6. tool.pc = "idle" /\ \A w \in Writers : hand[w].pc = "idle" /\ hand[w].tok = NoToken
  BY <1>5 DEF Init
<1>7. live = {1}
  BY DEF Init
<1> QED
  BY <1>2, <1>4, <1>5, <1>6, <1>7
     DEF WholeInv, SealInv, LiveInv, GoogleLive, TwitchLive, StaysRefreshable

(***************************************************************************)
(* With the key no interleaving of refreshers, uploads, callbacks and the     *)
(* encryption tears the row apart: its columns come from one answer of the    *)
(* provider, or two that go back to the same login.                         *)
(***************************************************************************)
THEOREM RowIsOneToken ==
    ASSUME Keyed
    PROVE  Spec => []OneToken
<1>1. Init => WholeInv /\ SealInv
  BY InitKept
<1>2. TypeOK /\ WholeInv /\ SealInv /\ [Next]_vars => (WholeInv /\ SealInv)'
  BY WholeKept, SealKept
<1>3. WholeInv => OneToken
  BY DEF WholeInv, Whole, OneToken
<1> QED
  BY <1>1, <1>2, <1>3, TypeCorrect, PTL DEF Spec

-----------------------------------------------------------------------------
(* No refresh token is lost.                                                *)

\* A step after which w has nothing in its hand, and which leaves the row's refresh token alone.
LEMMA LiveDone ==
    ASSUME TypeOK, LiveInv, NEW w \in Writers,
           \A v \in Writers \ {w} : hand'[v] = hand[v],
           hand'[w].pc = "idle", hand'[w].tok = NoToken,
           row' = row, live' = live, provider' = provider
    PROVE  LiveInv'
<1>1. NoToken.refresh = 0 /\ 0 \notin live
  BY Bounds, TokenFields DEF TypeOK
<1>2. GoogleLive'
  BY <1>1 DEF LiveInv, GoogleLive
<1>3. ASSUME provider = "twitch", NEW u \in Writers, hand'[u].pc = "store"
      PROVE  /\ hand'[u].tok.refresh \in live' /\ hand'[u].tok.refresh # row'.refresh
             /\ \A v \in Writers \ {u} : hand'[v].tok.refresh # hand'[u].tok.refresh
  <2>1. u # w /\ hand'[u] = hand[u]
    BY <1>3
  <2>2. /\ hand[u].tok.refresh \in live /\ hand[u].tok.refresh # row.refresh
        /\ \A v \in Writers \ {u} : hand[v].tok.refresh # hand[u].tok.refresh
    BY <1>3, <2>1 DEF LiveInv, TwitchLive
  <2> QED
    BY <1>1, <2>1, <2>2
<1>4. TwitchLive'
  BY <1>3 DEF TwitchLive
<1> QED
  BY <1>2, <1>4 DEF LiveInv

\* A step after which w has a token nobody has seen, and which takes no other one's away.
LEMMA LiveNew ==
    ASSUME TypeOK, LiveInv, NEW w \in Writers, NEW n \in New, NEW old \in live \cup {0},
           \A v \in Writers \ {w} : hand'[v] = hand[v],
           hand'[w].pc = "store",
           \/ hand'[w].tok.refresh = n /\ n \in live'
           \/ provider = "youtube" /\ hand'[w].tok.refresh = old /\ old \in live',
           \/ hand[w].tok.refresh = old
           \/ old = 0,
           provider = "twitch" => live \ {old} \subseteq live',
           provider = "youtube" => live \ {n} \subseteq live',
           row' = row, provider' = provider
    PROVE  LiveInv'
<1>1. n # row.refresh /\ \A v \in Writers : n # hand[v].tok.refresh
  BY NewIsUnused DEF In
<1>2. 0 \notin live
  BY Bounds DEF TypeOK
<1>3. GoogleLive'
  BY <1>1, <1>2 DEF LiveInv, GoogleLive
<1>4. ASSUME provider = "twitch", NEW u \in Writers, hand'[u].pc = "store"
      PROVE  /\ hand'[u].tok.refresh \in live' /\ hand'[u].tok.refresh # row'.refresh
             /\ \A v \in Writers \ {u} : hand'[v].tok.refresh # hand'[u].tok.refresh
  <2>1. hand'[w].tok.refresh = n /\ n \in live'
    BY <1>4
  <2>2. CASE u = w
    BY <1>1, <2>1, <2>2
  <2>3. CASE u # w
    <3>1. hand'[u] = hand[u] /\ hand[u].pc = "store"
      BY <1>4, <2>3
    <3>2. /\ hand[u].tok.refresh \in live /\ hand[u].tok.refresh # row.refresh
          /\ \A v \in Writers \ {u} : hand[v].tok.refresh # hand[u].tok.refresh
      BY <1>4, <3>1 DEF LiveInv, TwitchLive
    <3>3. hand[u].tok.refresh \in live'
      BY <1>2, <1>4, <2>3, <3>2
    <3> QED
      BY <1>1, <2>1, <2>3, <3>1, <3>2, <3>3
  <2> QED
    BY <2>2, <2>3
<1>5. TwitchLive'
  BY <1>4 DEF TwitchLive
<1> QED
  BY <1>3, <1>5 DEF LiveInv

\* Every step keeps the refresh tokens in use among those the provider takes.
LEMMA LiveKept ==
    ASSUME TypeOK, WholeInv, SealInv, LiveInv, [Next]_vars
    PROVE  LiveInv'
<1>1. /\ row \in Token /\ \A w \in Writers : hand[w].tok \in Token
      /\ Refreshers \subseteq Writers /\ Clients0 \subseteq Writers /\ Callbacks \subseteq Writers
  BY DEF TypeOK, Writers, Clients0
<1>2. ASSUME NEW w \in Writers, hand' = [hand EXCEPT ![w] = Idle]
      PROVE  /\ hand'[w].pc = "idle" /\ hand'[w].tok = NoToken
             /\ \A v \in Writers \ {w} : hand'[v] = hand[v]
  BY <1>2, HandFields, TokenFields
<1>3. ASSUME NEW w \in Writers, Done(w)
      PROVE  hand' = [hand EXCEPT ![w] = Idle]
  BY <1>3 DEF Done
<1>4. ASSUME NEW w \in Writers, row' = row, live' = live, provider' = provider,
             \A v \in Writers \ {w} : hand'[v] = hand[v], hand[w].pc = "idle",
             hand'[w].tok = row, hand'[w].pc = "ask" \/ provider = "youtube"
      PROVE  LiveInv'
  <2>1. GoogleLive'
    BY <1>4 DEF LiveInv, GoogleLive
  <2>2. TwitchLive'
    BY <1>4 DEF LiveInv, TwitchLive
  <2> QED
    BY <2>1, <2>2 DEF LiveInv
<1>5. ASSUME NEW p \in Refreshers, Look(p) PROVE LiveInv'
  <2>1. p \in Writers /\ row' = row /\ live' = live /\ provider' = provider /\ hand[p].pc = "idle"
    BY <1>1, <1>5 DEF Look, tokens
  <2>2. CASE Goes(p, "ask", row)
    <3>1. /\ hand'[p].pc = "ask" /\ hand'[p].tok = row
          /\ \A v \in Writers \ {p} : hand'[v] = hand[v]
      BY <1>1, <2>1, <2>2, HandFields
    <3> QED
      BY <1>4, <2>1, <3>1
  <2>3. CASE Done(p)
    BY <1>2, <1>3, <2>1, <2>3, LiveDone
  <2> QED
    BY <1>5, <2>2, <2>3 DEF Look
<1>6. ASSUME NEW c \in Clients0, LookClient(c) PROVE LiveInv'
  <2>1. c \in Writers /\ row' = row /\ live' = live /\ provider' = provider /\ hand[c].pc = "idle"
    BY <1>1, <1>6 DEF LookClient, tokens
  <2>2. PICK pc \in {"ask", "store"} : Goes(c, pc, row)
    BY <1>6 DEF LookClient
  <2>3. /\ hand'[c].tok = row /\ \A v \in Writers \ {c} : hand'[v] = hand[v]
    BY <1>1, <2>1, <2>2, HandFields
  <2>4. provider = "youtube"
    BY DEF Clients0
  <2> QED
    BY <1>4, <2>1, <2>3, <2>4
<1>7. ASSUME NEW w \in Writers, Ask(w) PROVE LiveInv'
  <2> DEFINE old == hand[w].tok.refresh
  <2>1. row' = row /\ hand[w].pc = "ask"
    BY <1>7 DEF Ask
  <2>2. ASSUME NEW n \in New, old \in live, Answer(old, n), Goes(w, "store", Renewed(old, n))
        PROVE  LiveInv'
    <3> DEFINE tok == Renewed(old, n)
    <3>1. n \in Answers /\ old \in Answers /\ old # n
      <4>1. n \notin In(hand[w].tok) /\ n \in Answers
        BY NewIsUnused
      <4> QED
        BY <2>2, <4>1, Bounds DEF TypeOK, In
    <3>2. tok \in Token /\ tok.refresh = IF provider = "twitch" THEN n ELSE old
      BY <3>1, TokenFields DEF Renewed
    <3>3. /\ hand'[w].pc = "store" /\ hand'[w].tok = tok
          /\ \A v \in Writers \ {w} : hand'[v] = hand[v]
      BY <2>2, <3>2, HandFields
    <3>4. /\ provider' = provider /\ provider \in {"twitch", "youtube"}
          /\ live' = IF provider = "twitch" THEN (live \ {old}) \cup {n} ELSE live \ {n}
      BY <2>2 DEF Answer, TypeOK
    <3> HIDE DEF tok
    <3>5. old = hand[w].tok.refresh
      OBVIOUS
    <3> HIDE DEF old
    <3>6. \/ hand'[w].tok.refresh = n /\ n \in live'
          \/ provider = "youtube" /\ hand'[w].tok.refresh = old /\ old \in live'
      BY <2>2, <3>1, <3>2, <3>3, <3>4
    <3>7. (provider = "twitch" => live \ {old} \subseteq live')
          /\ (provider = "youtube" => live \ {n} \subseteq live')
      BY <3>4
    <3> QED
      BY <2>1, <2>2, <3>3, <3>4, <3>5, <3>6, <3>7, LiveNew
  <2>3. CASE Done(w) /\ live' = live /\ provider' = provider
    BY <1>2, <1>3, <2>1, <2>3, LiveDone
  <2>4. CASE Done(w) /\ provider = "twitch" /\ live' = live \ {old} /\ provider' = provider
    <3>1. /\ hand'[w].pc = "idle" /\ hand'[w].tok = NoToken
          /\ \A v \in Writers \ {w} : hand'[v] = hand[v]
      BY <1>2, <1>3, <2>4
    <3>2. GoogleLive'
      BY <2>4 DEF GoogleLive
    <3>3. ASSUME NEW u \in Writers, hand'[u].pc = "store"
          PROVE  /\ hand'[u].tok.refresh \in live' /\ hand'[u].tok.refresh # row'.refresh
                 /\ \A v \in Writers \ {u} : hand'[v].tok.refresh # hand'[u].tok.refresh
      <4>1. u # w /\ hand'[u] = hand[u]
        BY <3>1, <3>3
      <4>2. /\ hand[u].tok.refresh \in live /\ hand[u].tok.refresh # row.refresh
            /\ \A v \in Writers \ {u} : hand[v].tok.refresh # hand[u].tok.refresh
        BY <2>4, <3>3, <4>1 DEF LiveInv, TwitchLive
      <4>3. NoToken.refresh = 0 /\ 0 \notin live
        BY Bounds, TokenFields DEF TypeOK
      <4> QED
        BY <2>1, <2>4, <3>1, <4>1, <4>2, <4>3
    <3>4. TwitchLive'
      BY <3>3 DEF TwitchLive
    <3> QED
      BY <3>2, <3>4 DEF LiveInv
  <2> QED
    BY <1>7, <2>2, <2>3, <2>4 DEF Ask, tokens
<1>8. ASSUME NEW w \in Writers, Store(w) PROVE LiveInv'
  <2>1. /\ hand'[w].pc = "idle" /\ hand'[w].tok = NoToken
        /\ \A v \in Writers \ {w} : hand'[v] = hand[v]
    BY <1>2, <1>3, <1>8 DEF Store
  <2>2. hand[w].pc = "store" /\ live' = live /\ provider' = provider
    BY <1>8 DEF Store, tokens
  <2>3. CASE row' = hand[w].tok
    <3>1. NoToken.refresh = 0 /\ 0 \notin live
      BY Bounds, TokenFields DEF TypeOK
    <3>2. GoogleLive'
      BY <2>1, <2>2, <2>3, <3>1 DEF LiveInv, GoogleLive
    <3>3. ASSUME provider = "twitch", NEW u \in Writers, hand'[u].pc = "store"
          PROVE  /\ hand'[u].tok.refresh \in live' /\ hand'[u].tok.refresh # row'.refresh
                 /\ \A v \in Writers \ {u} : hand'[v].tok.refresh # hand'[u].tok.refresh
      <4>1. u # w /\ hand'[u] = hand[u]
        BY <2>1, <3>3
      <4>2. /\ hand[u].tok.refresh \in live
            /\ \A v \in Writers \ {u} : hand[v].tok.refresh # hand[u].tok.refresh
        BY <3>3, <4>1 DEF LiveInv, TwitchLive
      <4> QED
        BY <2>1, <2>2, <2>3, <3>1, <4>1, <4>2
    <3>4. TwitchLive'
      BY <2>2, <3>3 DEF TwitchLive
    <3> QED
      BY <3>2, <3>4 DEF LiveInv
  <2> QED
    BY <1>8, <2>1, <2>2, <2>3, LiveDone DEF Store
<1>9. ASSUME NEW w \in Writers, Die(w) PROVE LiveInv'
  <2>1. hand' = [hand EXCEPT ![w] = Idle] /\ row' = row /\ live' = live /\ provider' = provider
    BY <1>9 DEF Die, tokens
  <2> QED
    BY <1>2, <2>1, LiveDone
<1>10. ASSUME NEW l \in Callbacks, Exchange(l) PROVE LiveInv'
  <2>1. l \in Writers /\ row' = row /\ provider' = provider
    BY <1>1, <1>10 DEF Exchange
  <2>2. ASSUME NEW n \in New, Goes(l, "store", [access |-> n, refresh |-> n, expiry |-> n]),
               live' = live \cup {n}
        PROVE  LiveInv'
    <3> DEFINE tok == [access |-> n, refresh |-> n, expiry |-> n]
    <3>1. n \in Answers
      BY NewIsUnused
    <3>2. tok \in Token /\ tok.refresh = n
      BY <3>1, TokenFields
    <3>3. /\ hand'[l].pc = "store" /\ hand'[l].tok = tok
          /\ \A v \in Writers \ {l} : hand'[v] = hand[v]
      BY <2>1, <2>2, <3>2, HandFields
    <3> HIDE DEF tok
    <3>4. 0 \in live \cup {0}
      OBVIOUS
    <3> QED
      BY <2>1, <2>2, <3>2, <3>3, <3>4, LiveNew
  <2>3. CASE hand' = hand /\ live' = live
    BY <2>1, <2>3 DEF LiveInv, GoogleLive, TwitchLive
  <2> QED
    BY <1>10, <2>2, <2>3 DEF Exchange
<1>11. CASE Encrypt
  <2>1. hand' = hand /\ live' = live /\ provider' = provider
    BY <1>11 DEF Encrypt, tokens
  <2>2. row'.refresh = row.refresh
    <3>1. CASE Encryptable /\ row' = [tool.tok EXCEPT !.expiry = row.expiry]
      <4>1. tool.tok = row
        BY <1>11, <3>1 DEF Encrypt, Encryptable, SealInv
      <4> QED
        BY <1>1, <3>1, <4>1, TokenFields
    <3> QED
      BY <1>11, <3>1 DEF Encrypt
  <2> QED
    BY <2>1, <2>2 DEF LiveInv, GoogleLive, TwitchLive
<1>12. CASE Tick
  <2>1. row' = row /\ hand' = hand /\ provider' = provider /\ live' = live \cap Used
        /\ \A w \in Writers : hand[w].pc = "idle"
    BY <1>12 DEF Tick
  <2>2. row.refresh \in Used /\ \A w \in Writers : hand[w].tok.refresh \in Used
    BY DEF Used, In
  <2> QED
    BY <2>1, <2>2 DEF LiveInv, GoogleLive, TwitchLive
<1>13. CASE StartLogin \/ StateExpires \/ ReadPlain \/ UNCHANGED vars
  <2>1. row' = row /\ hand' = hand /\ live' = live /\ provider' = provider
    BY <1>13 DEF StartLogin, StateExpires, ReadPlain, vars, tokens
  <2> QED
    BY <2>1 DEF LiveInv, GoogleLive, TwitchLive
<1> QED
  BY <1>1, <1>5, <1>6, <1>7, <1>8, <1>9, <1>10, <1>11, <1>12, <1>13
     DEF Next, Refresh, Upload, Callback

\* With one refresh token in the row and another on its way there, none falls between the two.
LEMMA RefreshableKept ==
    ASSUME TypeOK, WholeInv, SealInv, LiveInv, LiveInv', StaysRefreshable, [Next]_vars
    PROVE  StaysRefreshable'
<1>1. /\ \A w \in Writers : hand[w].tok \in Token
      /\ Refreshers \subseteq Writers /\ Clients0 \subseteq Writers /\ Callbacks \subseteq Writers
      /\ row \in Token /\ provider \in {"twitch", "youtube"}
  BY DEF TypeOK, Writers, Clients0
<1>2. provider' = provider
  BY DEF Next, Refresh, Upload, Callback, Look, LookClient, Ask, Answer, Store, Die, StartLogin,
     StateExpires, Exchange, ReadPlain, Encrypt, Tick, vars, tokens
<1>3. SUFFICES ASSUME faults' = 0, row'.refresh # 0, provider = "twitch",
                      \A w \in Writers : hand'[w].pc # "store"
               PROVE  row'.refresh \in live'
  BY <1>1, <1>2 DEF LiveInv, GoogleLive, TwitchLive, StaysRefreshable
<1>4. faults \in Nat /\ (Fault => FALSE)
  BY <1>3, Bounds DEF TypeOK, Fault
<1>5. ASSUME NEW w \in Writers, hand[w].pc # "store", \A v \in Writers \ {w} : hand'[v] = hand[v],
             row'.refresh = row.refresh, faults' = faults
      PROVE  row'.refresh \in live
  BY <1>3, <1>5 DEF StaysRefreshable
<1>6. ASSUME NEW w \in Writers, hand' = [hand EXCEPT ![w] = Idle]
      PROVE  \A v \in Writers \ {w} : hand'[v] = hand[v]
  BY <1>6, HandFields, TokenFields
<1>7. ASSUME NEW p \in Refreshers, Look(p) PROVE row'.refresh \in live'
  <2>1. p \in Writers /\ row' = row /\ live' = live /\ hand[p].pc = "idle" /\ faults' = faults
    BY <1>1, <1>4, <1>7 DEF Look, tokens
  <2>2. Goes(p, "ask", row) \/ hand' = [hand EXCEPT ![p] = Idle]
    BY <1>7 DEF Look, Done
  <2>3. \A v \in Writers \ {p} : hand'[v] = hand[v]
    BY <1>1, <1>6, <2>1, <2>2, HandFields
  <2> QED
    BY <1>5, <2>1, <2>3
<1>8. ASSUME NEW c \in Clients0, LookClient(c) PROVE row'.refresh \in live'
  BY <1>3, <1>8 DEF Clients0
<1>9. ASSUME NEW w \in Writers, Ask(w) PROVE row'.refresh \in live'
  <2>1. row' = row /\ hand[w].pc = "ask"
    BY <1>9 DEF Ask
  <2>2. ASSUME NEW n \in New, hand[w].tok.refresh \in live, Answer(hand[w].tok.refresh, n),
               Goes(w, "store", Renewed(hand[w].tok.refresh, n))
        PROVE  FALSE
    <3>1. n \in Answers /\ hand[w].tok.refresh \in Answers
      BY <2>2, NewIsUnused DEF TypeOK
    <3>2. Renewed(hand[w].tok.refresh, n) \in Token
      BY <3>1, TokenFields DEF Renewed
    <3>3. hand'[w].pc = "store"
      BY <2>2, <3>2, HandFields
    <3> QED
      BY <1>3, <3>3
  <2>3. Done(w) /\ live' = live /\ faults' = faults
    BY <1>4, <1>9, <2>2 DEF Ask, tokens
  <2>4. \A v \in Writers \ {w} : hand'[v] = hand[v]
    BY <1>6, <2>3 DEF Done
  <2> QED
    BY <1>5, <2>1, <2>3, <2>4
<1>10. ASSUME NEW w \in Writers, Store(w) PROVE row'.refresh \in live'
  BY <1>3, <1>4, <1>10 DEF Store, tokens, LiveInv, TwitchLive
<1>11. ASSUME NEW l \in Callbacks, Exchange(l) PROVE row'.refresh \in live'
  <2>1. l \in Writers /\ row' = row /\ hand[l].pc = "idle" /\ faults' = faults
    BY <1>1, <1>11 DEF Exchange
  <2>2. ASSUME NEW n \in New, Goes(l, "store", [access |-> n, refresh |-> n, expiry |-> n])
        PROVE  FALSE
    <3>1. [access |-> n, refresh |-> n, expiry |-> n] \in Token
      BY NewIsUnused, TokenFields
    <3>2. hand'[l].pc = "store"
      BY <2>1, <2>2, <3>1, HandFields
    <3> QED
      BY <1>3, <2>1, <3>2
  <2>3. hand' = hand /\ live' = live
    BY <1>11, <2>2 DEF Exchange
  <2> QED
    BY <1>5, <2>1, <2>3
<1>12. CASE Encrypt
  <2>1. hand' = hand /\ live' = live /\ faults' = faults
    BY <1>4, <1>12 DEF Encrypt, tokens
  <2>2. row'.refresh = row.refresh
    <3>1. CASE Encryptable /\ row' = [tool.tok EXCEPT !.expiry = row.expiry]
      <4>1. tool.tok = row
        BY <1>12, <3>1 DEF Encrypt, Encryptable, SealInv
      <4> QED
        BY <1>1, <3>1, <4>1, TokenFields
    <3> QED
      BY <1>12, <3>1 DEF Encrypt
  <2> QED
    BY <1>3, <2>1, <2>2 DEF StaysRefreshable
<1>13. CASE Tick
  <2>1. row' = row /\ hand' = hand /\ live' = live \cap Used /\ faults' = faults
    BY <1>13 DEF Tick
  <2>2. row.refresh \in Used
    BY DEF Used, In
  <2> QED
    BY <1>3, <2>1, <2>2 DEF StaysRefreshable
<1>14. ASSUME NEW w \in Writers, Die(w) PROVE FALSE
  BY <1>4, <1>14 DEF Die
<1>15. CASE StartLogin \/ StateExpires \/ ReadPlain \/ UNCHANGED vars
  <2>1. row' = row /\ hand' = hand /\ live' = live /\ faults' = faults
    BY <1>15 DEF StartLogin, StateExpires, ReadPlain, vars, tokens
  <2> QED
    BY <1>3, <2>1 DEF StaysRefreshable
<1> QED
  BY <1>1, <1>7, <1>8, <1>9, <1>10, <1>11, <1>12, <1>13, <1>14, <1>15
     DEF Next, Refresh, Upload, Callback

(***************************************************************************)
(* As long as nothing fails the refresh token is never lost, for any number   *)
(* of pods that refresh, uploads and logins, and while migrate-tokens         *)
(* encrypts the row: each new one reaches the row, in whatever order they    *)
(* are written.                                                            *)
(***************************************************************************)
THEOREM RefreshTokenIsKept ==
    ASSUME Keyed
    PROVE  Spec => []StaysRefreshable
<1> DEFINE Kept == WholeInv /\ SealInv /\ LiveInv /\ StaysRefreshable
<1>1. Init => Kept
  BY InitKept
<1>2. TypeOK /\ Kept /\ [Next]_vars => Kept'
  BY WholeKept, SealKept, LiveKept, RefreshableKept
<1>3. Kept => StaysRefreshable
  OBVIOUS
<1> HIDE DEF Kept
<1> QED
  BY <1>1, <1>2, <1>3, TypeCorrect, PTL DEF Spec

-----------------------------------------------------------------------------
(* The stored access token does not expire.                                  *)

\* Only time shortens what is in use.
LEMMA LeftStays ==
    ASSUME TypeOK, [Next]_vars, ~Tick, NEW k \in Used \cap Answers
    PROVE  left'[k] = left[k]
<1>1. left \in [Answers -> 0 .. Lifetime] /\ k \notin New
  BY DEF TypeOK, New
<1>2. left' = left \/ \E n \in New : left' = [left EXCEPT ![n] = Lifetime]
  BY DEF Next, Refresh, Upload, Callback, Look, LookClient, Ask, Answer, Store, Die, StartLogin,
     StateExpires, Exchange, ReadPlain, Encrypt, vars, tokens
<1> QED
  BY <1>1, <1>2

\* What is kept: the row's access token and the hands'.
LEMMA UsedExpiry ==
    ASSUME TypeOK, WholeInv
    PROVE  /\ row.expiry # 0 => row.expiry \in Used \cap Answers /\ row # NoToken
           /\ row # NoToken => row.refresh # 0 /\ row.expiry # 0
           /\ \A w \in Writers : hand[w].pc # "idle" =>
                  hand[w].tok.expiry \in Used \cap Answers /\ hand[w].tok.refresh \in Answers
<1>1. row.expiry # 0 => row.expiry \in Used \cap Answers /\ row # NoToken
  BY TokenFields DEF Used, In, TypeOK
<1>2. ASSUME NEW w \in Writers, hand[w].pc # "idle"
      PROVE  hand[w].tok.expiry \in Used \cap Answers /\ hand[w].tok.refresh \in Answers
  <2>1. hand[w].tok \in Token /\ hand[w].tok.expiry # 0 /\ hand[w].tok.refresh # 0
    BY <1>2 DEF WholeInv, Whole, TypeOK
  <2>2. hand[w].tok.expiry \in Used
    BY DEF Used, In
  <2> QED
    BY <2>1, <2>2, TokenFields
<1> QED
  BY <1>1, <1>2 DEF WholeInv, Whole

\* A step of one writer that stores nothing.
LEMMA FreshStep ==
    ASSUME TypeOK, WholeInv, FreshInv, InTime, [Next]_vars, ~Tick, faults' = faults,
           NEW w \in Writers, \A v \in Writers \ {w} : hand'[v] = hand[v],
           hand[w].pc # "store", row'.expiry = row.expiry, row'.refresh = row.refresh,
           hand'[w].pc = "store" => left'[hand'[w].tok.expiry] = Lifetime,
           hand'[w].pc = "ask" => hand'[w].tok.refresh = row.refresh,
           \A p \in Refreshers \ {w} : wait'[p] = wait[p],
           faults = 0 /\ w \in Refreshers /\ hand'[w].pc = "idle" /\ row.expiry # 0
               /\ left[row.expiry] > 0 /\ ~Storing' => wait'[w] + 2 <= left[row.expiry]
    PROVE  FreshInv' /\ InTime'
<1>1. Refreshers \subseteq Writers
  BY DEF Writers
<1>2. row.expiry # 0 => left'[row.expiry] = left[row.expiry]
  BY UsedExpiry, LeftStays
<1>3. FreshInv'
  <2> SUFFICES ASSUME faults = 0, NEW v \in Writers
               PROVE  /\ hand'[v].pc = "store" => left'[hand'[v].tok.expiry] = Lifetime
                      /\ hand'[v].pc = "ask" =>
                             \/ hand'[v].tok.refresh = row'.refresh
                             \/ row'.expiry # 0 /\ left'[row'.expiry] = Lifetime
    BY DEF FreshInv
  <2>1. CASE v = w
    BY <2>1
  <2>2. CASE v # w
    <3>1. hand'[v] = hand[v]
      BY <2>2
    <3>2. hand[v].pc = "store" => left'[hand[v].tok.expiry] = Lifetime
      BY UsedExpiry, LeftStays DEF FreshInv
    <3> QED
      BY <1>2, <3>1, <3>2 DEF FreshInv
  <2> QED
    BY <2>1, <2>2
<1>4. Storing => Storing'
  BY DEF Storing
<1>5. InTime'
  <2> SUFFICES ASSUME faults = 0, row.expiry # 0
               PROVE  /\ left[row.expiry] # 1
                      /\ left[row.expiry] > 0 /\ ~Storing' =>
                             \A p \in Refreshers :
                                 hand'[p].pc = "idle" => wait'[p] + 2 <= left[row.expiry]
    BY <1>2 DEF InTime
  <2>1. ASSUME NEW p \in Refreshers, left[row.expiry] > 0, ~Storing', hand'[p].pc = "idle"
        PROVE  wait'[p] + 2 <= left[row.expiry]
    <3>1. CASE p = w
      BY <2>1, <3>1
    <3>2. CASE p # w
      BY <1>1, <1>4, <2>1, <3>2 DEF InTime
    <3> QED
      BY <3>1, <3>2
  <2> QED
    BY <2>1 DEF InTime
<1> QED
  BY <1>3, <1>5

\* A step that fails ends what is promised.
LEMMA FailedStep ==
    ASSUME TypeOK, [Next]_vars
    PROVE  /\ faults' = 0 => faults' = faults
           /\ faults' # 0 => FreshInv' /\ InTime'
<1>1. faults' = faults \/ Fault
  BY DEF Next, Refresh, Upload, Callback, Look, LookClient, Ask, Store, Die, StartLogin,
     StateExpires, Exchange, ReadPlain, Encrypt, Tick, vars
<1>2. faults' = 0 => faults' = faults
  BY <1>1, Bounds DEF TypeOK, Fault
<1> QED
  BY <1>2 DEF FreshInv, InTime

\* Every step leaves a refresher in time for the token in the row.
LEMMA FreshKept ==
    ASSUME Keyed, Refreshers # {}, MaxWait < Window, FirstWait + 2 <= Lifetime,
           TypeOK, WholeInv, SealInv, StaysRefreshable, FreshInv, InTime, [Next]_vars
    PROVE  FreshInv' /\ InTime'
<1>1. /\ \A w \in Writers : hand[w].tok \in Token
      /\ Refreshers \subseteq Writers /\ Clients0 \subseteq Writers /\ Callbacks \subseteq Writers
      /\ Clients0 \cap Refreshers = {} /\ Callbacks \cap Refreshers = {}
      /\ row \in Token /\ \A p \in Refreshers : wait[p] \in Nat
  BY OAuthAssumption, Bounds DEF TypeOK, Writers, Clients0
<1>2. /\ MaxWait \in Nat /\ FirstWait \in Nat /\ Lifetime \in Nat /\ Window \in Nat
      /\ MaxWait <= FirstWait
  BY Bounds, OAuthAssumption
<1>3. SUFFICES ASSUME faults' = 0, faults = 0
               PROVE  FreshInv' /\ InTime'
  BY FailedStep
<1>4. ~Fault
  BY <1>3 DEF Fault
<1>5. left \in [Answers -> 0 .. Lifetime] /\ (row.expiry # 0 => left[row.expiry] \in Nat)
  BY <1>2, UsedExpiry DEF TypeOK
<1>6. ASSUME NEW w \in Writers, Done(w)
      PROVE  /\ hand'[w].pc = "idle"
             /\ \A v \in Writers \ {w} : hand'[v] = hand[v]
             /\ \A p \in Refreshers : /\ wait'[p] \in Nat
                                      /\ wait'[p] = wait[p] \/ (p = w /\ wait'[p] <= MaxWait)
  <2>1. hand'[w].pc = "idle" /\ \A v \in Writers \ {w} : hand'[v] = hand[v]
    BY <1>6, DoneWaits, HandFields, TokenFields
  <2>2. /\ wait' \in [Refreshers -> 0 .. FirstWait]
        /\ \A p \in Refreshers : wait'[p] = wait[p] \/ (p = w /\ wait'[p] <= MaxWait)
    BY <1>6, DoneWaits
  <2> QED
    BY <1>2, <2>1, <2>2
<1>7. ASSUME NEW p \in Refreshers, Look(p) PROVE FreshInv' /\ InTime'
  <2>1. /\ p \in Writers /\ row' = row /\ hand[p].pc = "idle" /\ faults' = faults /\ ~Tick
        /\ wait[p] = 0
    BY <1>1, <1>3, <1>7 DEF Look, Tick
  <2>2. CASE Goes(p, "ask", row) /\ wait' = wait
    <3>1. /\ hand'[p].pc = "ask" /\ hand'[p].tok = row
          /\ \A v \in Writers \ {p} : hand'[v] = hand[v]
      BY <1>1, <2>1, <2>2, HandFields
    <3> QED
      BY <2>1, <2>2, <3>1, FreshStep
  <2>3. CASE Done(p) /\ ~Due
    <3>1. /\ hand'[p].pc = "idle" /\ \A v \in Writers \ {p} : hand'[v] = hand[v]
          /\ \A q \in Refreshers \ {p} : wait'[q] = wait[q]
          /\ wait'[p] \in Nat /\ wait'[p] <= MaxWait
      <4>1. wait'[p] <= MaxWait
        BY <1>2, <1>6, <2>1, <2>3
      <4> QED
        BY <1>6, <2>1, <2>3, <4>1
    <3>2. row.expiry # 0 => left[row.expiry] > Window
      BY <1>2, <1>5, <2>3, UsedExpiry DEF Due
    <3>3. row.expiry # 0 => wait'[p] + 2 <= left[row.expiry]
      BY <1>2, <1>5, <3>1, <3>2
    <3> QED
      BY <2>1, <3>1, <3>3, FreshStep
  <2> QED
    BY <1>4, <1>7, <2>2, <2>3 DEF Look, Readable
<1>8. ASSUME NEW c \in Clients0, LookClient(c) PROVE FreshInv' /\ InTime'
  <2>1. /\ c \in Writers /\ row' = row /\ hand[c].pc = "idle" /\ faults' = faults /\ ~Tick
        /\ wait' = wait /\ row.access # 0 /\ c \notin Refreshers
    BY <1>1, <1>3, <1>8 DEF LookClient, Tick
  <2>2. row.expiry # 0
    BY <2>1, TokenFields DEF WholeInv, Whole
  <2>3. left[row.expiry] = 0
    BY <1>3, <1>5, <1>8, <2>2 DEF LookClient, InTime
  <2>4. Goes(c, "ask", row)
    BY <1>8, <2>2, <2>3 DEF LookClient, Expired
  <2>5. /\ hand'[c].pc = "ask" /\ hand'[c].tok = row
        /\ \A v \in Writers \ {c} : hand'[v] = hand[v]
    BY <1>1, <2>1, <2>4, HandFields
  <2> QED
    BY <2>1, <2>5, FreshStep
<1>9. ASSUME NEW w \in Writers, Ask(w) PROVE FreshInv' /\ InTime'
  <2> DEFINE old == hand[w].tok.refresh
  <2>1. row' = row /\ hand[w].pc = "ask" /\ faults' = faults /\ ~Tick
    BY <1>3, <1>9 DEF Ask, Tick
  <2>2. ASSUME NEW n \in New, old \in live, Answer(old, n), Goes(w, "store", Renewed(old, n)),
               wait' = wait
        PROVE  FreshInv' /\ InTime'
    <3> DEFINE tok == Renewed(old, n)
    <3>1. n \in Answers /\ old \in Answers
      BY <2>2, NewIsUnused DEF TypeOK
    <3>2. tok \in Token /\ tok.expiry = n
      BY <3>1, TokenFields DEF Renewed
    <3>3. /\ hand'[w].pc = "store" /\ hand'[w].tok = tok
          /\ \A v \in Writers \ {w} : hand'[v] = hand[v]
      BY <2>2, <3>2, HandFields
    <3>4. left'[n] = Lifetime
      BY <1>5, <2>2, <3>1 DEF Answer
    <3> HIDE DEF old, tok
    <3> QED
      BY <2>1, <2>2, <3>2, <3>3, <3>4, FreshStep
  <2>3. CASE Done(w) /\ old \notin live
    <3>1. ASSUME row.expiry # 0, left[row.expiry] > 0, ~Storing', w \in Refreshers
          PROVE  wait'[w] + 2 <= left[row.expiry]
      <4>1. old = row.refresh => Storing
        BY <1>3, <2>1, <2>3, <3>1, UsedExpiry DEF StaysRefreshable, Storing
      <4>2. Storing => Storing'
        BY <1>6, <2>1, <2>3 DEF Storing
      <4>3. left[row.expiry] = Lifetime
        BY <1>3, <2>1, <3>1, <4>1, <4>2 DEF FreshInv
      <4>4. wait'[w] \in Nat
        BY <1>6, <2>3, <3>1
      <4>5. wait'[w] <= FirstWait
        BY <1>2, <2>3, <3>1, DoneWaits
      <4> QED
        BY <1>2, <4>3, <4>4, <4>5
    <3>2. /\ hand'[w].pc = "idle" /\ \A v \in Writers \ {w} : hand'[v] = hand[v]
          /\ \A q \in Refreshers \ {w} : wait'[q] = wait[q]
      BY <1>6, <2>3
    <3> HIDE DEF old
    <3> QED
      BY <2>1, <3>1, <3>2, FreshStep
  <2> QED
    BY <1>4, <1>9, <2>2, <2>3 DEF Ask
<1>10. ASSUME NEW w \in Writers, Store(w) PROVE FreshInv' /\ InTime'
  <2>1. row' = hand[w].tok /\ Done(w) /\ hand[w].pc = "store" /\ left' = left
    BY <1>4, <1>10 DEF Store, tokens
  <2>2. row'.expiry # 0 /\ left'[row'.expiry] = Lifetime
    BY <1>3, <2>1, Bounds, UsedExpiry DEF FreshInv
  <2>3. FreshInv'
    BY <1>3, <1>6, <2>1, <2>2 DEF FreshInv
  <2>4. \A p \in Refreshers : wait'[p] \in Nat /\ wait'[p] + 2 <= Lifetime
    <3>1. wait' \in [Refreshers -> 0 .. FirstWait]
      BY <2>1, DoneWaits
    <3> QED
      BY <1>2, <3>1
  <2>5. Lifetime # 1
    BY <1>1, <1>2, <2>4, OAuthAssumption
  <2>6. InTime'
    BY <2>2, <2>4, <2>5 DEF InTime
  <2> QED
    BY <2>3, <2>6
<1>11. ASSUME NEW l \in Callbacks, Exchange(l) PROVE FreshInv' /\ InTime'
  <2>1. /\ l \in Writers /\ row' = row /\ hand[l].pc = "idle" /\ wait' = wait /\ faults' = faults
        /\ l \notin Refreshers /\ ~Tick
    BY <1>1, <1>11 DEF Exchange, Tick
  <2>2. ASSUME NEW n \in New, Goes(l, "store", [access |-> n, refresh |-> n, expiry |-> n]),
               left' = [left EXCEPT ![n] = Lifetime]
        PROVE  FreshInv' /\ InTime'
    <3> DEFINE tok == [access |-> n, refresh |-> n, expiry |-> n]
    <3>1. n \in Answers
      BY NewIsUnused
    <3>2. tok \in Token /\ tok.expiry = n
      BY <3>1, TokenFields
    <3>3. /\ hand'[l].pc = "store" /\ hand'[l].tok = tok
          /\ \A v \in Writers \ {l} : hand'[v] = hand[v]
      BY <2>1, <2>2, <3>2, HandFields
    <3>4. left'[n] = Lifetime
      BY <1>5, <2>2, <3>1
    <3> HIDE DEF tok
    <3> QED
      BY <2>1, <3>2, <3>3, <3>4, FreshStep
  <2>3. CASE hand' = hand /\ left' = left
    BY <2>1, <2>3 DEF FreshInv, InTime, Storing
  <2> QED
    BY <1>11, <2>2, <2>3 DEF Exchange
<1>12. CASE Encrypt
  <2>1. hand' = hand /\ left' = left /\ wait' = wait /\ faults' = faults
    BY <1>4, <1>12 DEF Encrypt, tokens
  <2>2. row'.refresh = row.refresh /\ row'.expiry = row.expiry
    <3>1. CASE Encryptable /\ row' = [tool.tok EXCEPT !.expiry = row.expiry]
      <4>1. tool.tok = row
        BY <1>12, <3>1 DEF Encrypt, Encryptable, SealInv
      <4> QED
        BY <1>1, <3>1, <4>1, TokenFields
    <3> QED
      BY <1>12, <3>1 DEF Encrypt
  <2> QED
    BY <2>1, <2>2 DEF FreshInv, InTime, Storing
<1>13. CASE Tick
  <2>1. /\ row' = row /\ hand' = hand /\ \A w \in Writers : hand[w].pc = "idle"
        /\ \A p \in Refreshers : wait[p] > 0 /\ wait'[p] = wait[p] - 1
    BY <1>13 DEF Tick
  <2>2. FreshInv'
    BY <2>1 DEF FreshInv
  <2>3. ASSUME row.expiry # 0
        PROVE  /\ left'[row.expiry] # 1
               /\ left'[row.expiry] > 0 => \A p \in Refreshers : wait'[p] + 2 <= left'[row.expiry]
    <3>1. left'[row.expiry] = IF left[row.expiry] > 0 THEN left[row.expiry] - 1 ELSE 0
      BY <1>13, <2>3, UsedExpiry DEF Tick
    <3>2. left[row.expiry] > 0 => \A p \in Refreshers : wait[p] + 2 <= left[row.expiry]
      BY <1>1, <1>3, <2>1, <2>3 DEF InTime, Storing
    <3>3. PICK p \in Refreshers : TRUE
      OBVIOUS
    <3>4. left'[row.expiry] # 1
      BY <1>1, <1>5, <2>1, <2>3, <3>1, <3>2, <3>3
    <3> QED
      BY <1>1, <1>5, <2>1, <2>3, <3>1, <3>2, <3>4
  <2>4. InTime'
    BY <2>1, <2>3 DEF InTime
  <2> QED
    BY <2>2, <2>4
<1>14. ASSUME NEW w \in Writers, Die(w) PROVE FALSE
  BY <1>4, <1>14 DEF Die
<1>15. CASE StartLogin \/ StateExpires \/ ReadPlain \/ UNCHANGED vars
  <2>1. row' = row /\ hand' = hand /\ left' = left /\ wait' = wait /\ faults' = faults
    BY <1>15 DEF StartLogin, StateExpires, ReadPlain, vars, tokens
  <2> QED
    BY <2>1 DEF FreshInv, InTime, Storing
<1> QED
  BY <1>1, <1>7, <1>8, <1>9, <1>10, <1>11, <1>12, <1>13, <1>14, <1>15
     DEF Next, Refresh, Upload, Callback

(***************************************************************************)
(* Without failures the stored access token never expires, as long as there   *)
(* is a refresher whose interval, jitter included, is shorter than its        *)
(* window, and whose first wait is shorter than the token's lifetime: the     *)
(* server takes 5 or 10 minutes, 15 or 20, and at least an hour.  The key is   *)
(* set, or no server could read the row.                                    *)
(***************************************************************************)
THEOREM TokenStaysValid ==
    ASSUME Keyed, Refreshers # {}, MaxWait < Window, FirstWait + 2 <= Lifetime
    PROVE  Spec => NeverExpires
<1> DEFINE Kept == WholeInv /\ SealInv /\ LiveInv /\ StaysRefreshable /\ FreshInv /\ InTime
           Valid == faults' = 0 /\ ~Expired(row.expiry) => ~Expired(row.expiry)'
<1>1. Init => Kept
  <2> SUFFICES ASSUME Init
               PROVE  FreshInv /\ InTime
    BY InitKept
  <2>1. TypeOK /\ \A w \in Writers : hand[w].pc = "idle"
    BY InitTypes DEF Init, Idle
  <2>2. PICK d \in {0, Lifetime} : left = [n \in Answers |-> IF n = 1 THEN d ELSE 0]
    BY DEF Init
  <2>3. row.expiry # 0 => left[row.expiry] \in {0, Lifetime}
    BY <2>1, <2>2, TokenFields DEF TypeOK
  <2>4. \A p \in Refreshers : wait[p] \in Nat /\ wait[p] + 2 <= Lifetime
    BY Bounds DEF Init
  <2>5. Lifetime # 1
    BY Bounds, <2>4
  <2> QED
    BY <2>1, <2>3, <2>4, <2>5 DEF FreshInv, InTime
<1>2. TypeOK /\ Kept /\ [Next]_vars => Kept'
  BY WholeKept, SealKept, LiveKept, RefreshableKept, FreshKept
<1>3. TypeOK /\ Kept /\ [Next]_vars => [Valid]_vars
  <2> SUFFICES ASSUME TypeOK, Kept, [Next]_vars, faults' = 0, ~Expired(row.expiry)
               PROVE  ~Expired(row.expiry)'
    OBVIOUS
  <2>1. faults = 0
    BY FailedStep
  <2>2. left \in [Answers -> 0 .. Lifetime] /\ row \in Token
    BY DEF TypeOK
  <2>3. row.expiry # 0 => /\ row.expiry \in Answers /\ row.expiry \in Used
                          /\ left[row.expiry] \in Nat /\ left[row.expiry] > 1
    <3>1. row.expiry # 0 => left[row.expiry] \in Nat /\ left[row.expiry] # 0
      BY <2>2, Bounds, UsedExpiry DEF Expired
    <3> QED
      BY <2>1, <3>1, UsedExpiry DEF InTime
  <2>4. CASE Tick
    BY <2>3, <2>4 DEF Tick, Expired
  <2>5. CASE ~Tick /\ row'.expiry = row.expiry
    BY <2>3, <2>5, LeftStays DEF Expired
  <2>6. ASSUME NEW w \in Writers, Store(w), row' = hand[w].tok
        PROVE  ~Expired(row.expiry)'
    <3>1. left'[row'.expiry] = Lifetime
      BY <2>1, <2>6 DEF Store, tokens, FreshInv
    <3>2. PICK p \in Refreshers : TRUE
      OBVIOUS
    <3>3. Lifetime # 0
      BY Bounds
    <3> QED
      BY <3>1, <3>3 DEF Expired
  <2>7. row'.expiry = row.expiry \/ \E w \in Writers : Store(w) /\ row' = hand[w].tok
    <3>1. CASE Encrypt /\ Encryptable /\ row' = [tool.tok EXCEPT !.expiry = row.expiry]
      <4>1. tool.tok = row
        BY <3>1 DEF Encrypt, Encryptable, SealInv
      <4> QED
        BY <2>2, <3>1, <4>1, TokenFields
    <3>2. CASE ~(Encrypt /\ Encryptable /\ row' = [tool.tok EXCEPT !.expiry = row.expiry])
      <4>1. \/ row' = row
            \/ \E w \in Writers : Store(w)
        BY <3>2 DEF Next, Refresh, Upload, Callback, Look, LookClient, Ask, Die, Clients0, Writers,
           StartLogin, StateExpires, Exchange, ReadPlain, Encrypt, Tick, vars
      <4>2. ASSUME NEW w \in Writers, Store(w)
            PROVE  row' = row \/ row' = hand[w].tok
        BY <4>2 DEF Store
      <4> QED
        BY <4>1, <4>2
    <3> QED
      BY <3>1, <3>2
  <2> QED
    BY <2>4, <2>5, <2>6, <2>7
<1> HIDE DEF Kept, Valid
<1>4. Spec => [][Valid]_vars
  BY <1>1, <1>2, <1>3, TypeCorrect, PTL DEF Spec
<1> QED
  BY <1>4 DEF Valid, NeverExpires

==============================================================================
