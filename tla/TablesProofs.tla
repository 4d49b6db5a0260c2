----------------------------- MODULE TablesProofs ------------------------------
(* Proofs about the programs of Tables for any accounts, workloads, stock,     *)
(* invoices and numbers of attempts: Banking, then Inventory, then DataAccess, *)
(* then the three together.                                                    *)
EXTENDS Tables, DataLemmas, SequenceTheorems

--------------------------------------------------------------------------------
(* Banking: the inductive invariant.  The properties speak of stored events;   *)
(* an attempt stores what it decided before, so the invariant also says what   *)
(* is known when an attempt is at each place of its handler.                   *)
Newest(a) == CurrentVersion(events[a])

Gapless ==
    /\ DOMAIN events = Accounts
    /\ \A a \in Accounts : Newest(a) \in Nat /\ DOMAIN events[a] = 1 .. Newest(a)

\* The commands are those of one workload.
CommandsSound ==
    \A c \in Commands :
        /\ c.kind \in {"deposit", "withdraw", "transfer"}
        /\ c.account \in Accounts /\ c.to \in Accounts
        /\ \A d \in Commands : c.id = d.id => c = d

\* A deposit or withdrawal about to be put: the version read was one of the account,
\* and the account was open at it.
PutIsSound(c, i) ==
    i.pc = "put" =>
        /\ c.kind \in {"deposit", "withdraw"}
        /\ i.base <= Newest(c.account)
        /\ c.kind = "deposit" /\ c.account \in Untransferred
               => ~ IsClosed(View(events[c.account], i.base))

\* A transfer at work: the versions read were ones of the accounts, and between its
\* puts its withdrawal is stored.
TransferIsSound(c, i) ==
    /\ i.pc \in {"loadTo", "putFrom", "putTo"} =>
           c.kind = "transfer" /\ i.base <= Newest(c.account)
    /\ i.pc \in {"putFrom", "putTo"} => i.toBase <= Newest(c.to)
    /\ i.pc = "putTo" /\ c \in SoleAtSource => Stored(c.account, WithdrawKey(c))

AnswerIsSound(c, i) ==
    /\ i.pc = "snapshot" => c.kind # "transfer"
    /\ i.pc = "stored" /\ c.kind # "transfer" /\ c.account \in Untransferred
           => Stored(c.account, Key(c))

Sound(c, i) ==
    /\ i \in [pc : PCs, base : Nat, toBase : Nat]
    /\ PutIsSound(c, i) /\ TransferIsSound(c, i) /\ AnswerIsSound(c, i)

\* The key of a command is found at its account only.
KeysAreTrue ==
    \A c \in Commands : \A a \in Accounts : \A v \in DOMAIN events[a] :
        events[a][v].key = Key(c) => a = c.account

BankingIInv ==
    /\ Gapless
    /\ CommandsSound
    /\ \A t \in Attempts : Sound(t[1], attempts[t])
    /\ KeysAreTrue
    /\ NoDepositAfterClosing
    /\ DebitComesFirst

--------------------------------------------------------------------------------
(* The effects of the steps.                                                   *)

\* Keys of different commands, and of different legs, differ.
LEMMA KeysDiffer ==
    ASSUME NEW c, NEW d
    PROVE  /\ Key(c) = Key(d) => c.id = d.id
           /\ WithdrawKey(c) = WithdrawKey(d) => c.id = d.id
           /\ DepositKey(c) = DepositKey(d) => c.id = d.id
           /\ Key(c) # WithdrawKey(d) /\ Key(c) # DepositKey(d)
           /\ WithdrawKey(c) # DepositKey(d)
<1>1. /\ Key(c)[1] = c.id /\ Key(d)[1] = d.id
      /\ WithdrawKey(c)[1] = c.id /\ WithdrawKey(d)[1] = d.id
      /\ DepositKey(c)[1] = c.id /\ DepositKey(d)[1] = d.id
  BY DEF Key, WithdrawKey, DepositKey
<1>2. /\ DOMAIN Key(c) = 1 .. 1
      /\ DOMAIN WithdrawKey(d) = 1 .. 2 /\ DOMAIN DepositKey(d) = 1 .. 2
  BY DEF Key, WithdrawKey, DepositKey
<1>3. WithdrawKey(c)[2] = "withdraw" /\ DepositKey(d)[2] = "deposit"
  BY DEF WithdrawKey, DepositKey
<1>. QED  BY <1>1, <1>2, <1>3

\* A put at account a, at the version after one that was read.
PutsAt(a, b, e) == events' = [events EXCEPT ![a] = WithItem(@, b + 1, e)]

\* It leaves no gap, and changes no other item.
LEMMA PutEffect ==
    ASSUME Gapless, NEW a \in Accounts, NEW b \in Nat, b <= Newest(a), NEW e, PutsAt(a, b, e)
    PROVE  /\ Gapless'
           /\ \A x \in Accounts : Newest(x) <= Newest(x)'
           /\ b + 1 \in DOMAIN events'[a] /\ events'[a][b + 1] = e
           /\ \A x \in Accounts : \A v \in DOMAIN events[x] : v \in DOMAIN events'[x]
           /\ \A x \in Accounts : \A v \in DOMAIN events'[x] :
                  (x = a /\ v = b + 1) \/ (v \in DOMAIN events[x] /\ events'[x][v] = events[x][v])
<1> DEFINE h == WithItem(events[a], b + 1, e)
<1>1. /\ DOMAIN events' = Accounts /\ events'[a] = h
      /\ \A x \in Accounts \ {a} : events'[x] = events[x]
  BY DEF PutsAt, Gapless
<1>2. /\ DOMAIN h = 1 .. CurrentVersion(h)
      /\ CurrentVersion(h) \in Nat /\ Newest(a) <= CurrentVersion(h)
      /\ h[b + 1] = e
      /\ \A v \in DOMAIN h : v = b + 1 \/ (v \in DOMAIN events[a] /\ h[v] = events[a][v])
  BY PutLeavesNoGap DEF Gapless
<1>3. b + 1 \in DOMAIN h /\ \A v \in DOMAIN events[a] : v \in DOMAIN h
  BY DEF WithItem
<1> HIDE DEF h
<1>4. Newest(a)' = CurrentVersion(h)
  BY <1>1 DEF Newest
<1>5. \A x \in Accounts \ {a} : Newest(x)' = Newest(x)
  BY <1>1 DEF Newest
<1>6. Gapless'
  BY <1>1, <1>2, <1>4, <1>5 DEF Gapless
<1>7. \A x \in Accounts : Newest(x) <= Newest(x)'
  BY <1>2, <1>4, <1>5 DEF Gapless
<1>. QED  BY <1>1, <1>2, <1>3, <1>6, <1>7

\* What was read of an account stays true as long as no item of it is replaced.
LEMMA ViewsStay ==
    ASSUME Gapless, Gapless', NEW a \in Accounts, NEW b \in Nat, b <= Newest(a),
           Newest(a) <= Newest(a)',
           \A v \in DOMAIN events[a] : events'[a][v] = events[a][v]
    PROVE  View(events'[a], b) = View(events[a], b)
<1>1. /\ DOMAIN events[a] = 1 .. Newest(a) /\ Newest(a) \in Nat
      /\ DOMAIN events'[a] = 1 .. Newest(a)' /\ Newest(a)' \in Nat
  BY DEF Gapless
<1>2. {u \in DOMAIN events[a] : u <= b} = 1 .. b /\ {u \in DOMAIN events'[a] : u <= b} = 1 .. b
  BY <1>1
<1>3. \A v \in 1 .. b : events'[a][v] = events[a][v]
  BY <1>1
<1>. QED  BY <1>2, <1>3 DEF View

--------------------------------------------------------------------------------
(* A step moves one attempt, and puts at most one item.                        *)
Moves(t, x) == attempts' = [attempts EXCEPT ![t] = x]

\* The workload, and all that depends on it only, stays.
LEMMA WorkloadStays ==
    ASSUME NEW t \in Attempts, NEW x, Moves(t, x)
    PROVE  /\ Attempts' = Attempts /\ Commands' = Commands
           /\ Untransferred' = Untransferred /\ SoleAtSource' = SoleAtSource
           /\ attempts'[t] = x
           /\ \A s \in Attempts \ {t} : attempts'[s] = attempts[s]
<1>1. /\ Attempts' = Attempts /\ attempts'[t] = x
      /\ \A s \in Attempts \ {t} : attempts'[s] = attempts[s]
  BY DEF Moves, Attempts
<1>2. Commands' = Commands
  BY <1>1 DEF Commands
<1>. QED  BY <1>1, <1>2 DEF Untransferred, SoleAtSource

\* A step that puts nothing keeps the invariant if what it knows is sound.
LEMMA ReadKeepsIInv ==
    ASSUME BankingIInv, NEW t \in Attempts, NEW x, Moves(t, x), events' = events, Sound(t[1], x)
    PROVE  BankingIInv'
<1>1. /\ Attempts' = Attempts /\ Commands' = Commands
      /\ Untransferred' = Untransferred /\ SoleAtSource' = SoleAtSource
      /\ attempts'[t] = x
      /\ \A s \in Attempts \ {t} : attempts'[s] = attempts[s]
  BY WorkloadStays
<1>2. \A s \in Attempts : Sound(s[1], attempts'[s])
  BY <1>1 DEF BankingIInv
<1>3. \A s \in Attempts' : Sound(s[1], attempts[s])'
  <2> SUFFICES ASSUME NEW s \in Attempts
               PROVE  Sound(s[1], attempts[s])'
    BY <1>1
  <2>1. Sound(s[1], attempts'[s])
    BY <1>2
  <2>. QED  BY <2>1, <1>1 DEF Sound, PutIsSound, TransferIsSound, AnswerIsSound, Newest, Stored
<1>4. Gapless' /\ CommandsSound' /\ KeysAreTrue' /\ NoDepositAfterClosing' /\ DebitComesFirst'
  BY <1>1 DEF BankingIInv, Gapless, CommandsSound, KeysAreTrue, NoDepositAfterClosing, DebitComesFirst,
              Newest, Stored
<1>. QED  BY <1>3, <1>4 DEF BankingIInv

\* What a put must respect.  An account without transfers only grows, and by a deposit
\* only while it was open; keys are found where they belong; the source of a transfer
\* takes its withdrawal only, and its deposit comes after that.
PutIsLegal(a, b, e) ==
    /\ a \in Untransferred => b + 1 \notin DOMAIN events[a]
    /\ a \in Untransferred /\ e.type = "MoneyDeposited" => ~ IsClosed(View(events[a], b))
    /\ e \notin {Closed, Opened}
    /\ \A c \in Commands : e.key = Key(c) => a = c.account
    /\ \A c \in SoleAtSource : c.kind = "transfer" =>
           /\ a = c.account => e.key = WithdrawKey(c)
           /\ e.key = DepositKey(c) => Stored(c.account, WithdrawKey(c))

\* What is stored is still stored after a legal put, where it matters.
LEMMA StoredStays ==
    ASSUME BankingIInv, NEW a \in Accounts, NEW b \in Nat, b <= Newest(a), NEW e, PutsAt(a, b, e),
           PutIsLegal(a, b, e)
    PROVE  /\ \A x \in Accounts \cap Untransferred : \A v \in DOMAIN events[x] :
                  v \in DOMAIN events'[x] /\ events'[x][v] = events[x][v]
           /\ \A x \in Accounts \cap Untransferred : \A key : Stored(x, key) => Stored(x, key)'
           /\ \A c \in SoleAtSource : c.kind = "transfer" =>
                  (Stored(c.account, WithdrawKey(c)) => Stored(c.account, WithdrawKey(c))')
<1>1. /\ b + 1 \in DOMAIN events'[a] /\ events'[a][b + 1] = e
      /\ \A x \in Accounts : \A v \in DOMAIN events[x] : v \in DOMAIN events'[x]
      /\ \A x \in Accounts : \A v \in DOMAIN events'[x] :
             (x = a /\ v = b + 1) \/ (v \in DOMAIN events[x] /\ events'[x][v] = events[x][v])
  BY PutEffect DEF BankingIInv
<1>2. \A x \in Accounts \cap Untransferred : \A v \in DOMAIN events[x] :
          v \in DOMAIN events'[x] /\ events'[x][v] = events[x][v]
  BY <1>1 DEF PutIsLegal
<1>3. \A x \in Accounts \cap Untransferred : \A key : Stored(x, key) => Stored(x, key)'
  BY <1>2 DEF Stored
<1>4. ASSUME NEW c \in SoleAtSource, c.kind = "transfer", Stored(c.account, WithdrawKey(c))
      PROVE  Stored(c.account, WithdrawKey(c))'
  <2>1. c \in Commands /\ c.account \in Accounts
    BY DEF SoleAtSource, BankingIInv, CommandsSound
  <2>2. PICK v \in DOMAIN events[c.account] : events[c.account][v].key = WithdrawKey(c)
    BY <1>4 DEF Stored
  <2>3. v \in DOMAIN events'[c.account]
    BY <1>1, <2>1
  <2>4. CASE c.account = a /\ v = b + 1
    <3>1. events'[c.account][v].key = WithdrawKey(c)
      BY <1>1, <1>4, <2>4 DEF PutIsLegal
    <3>. QED  BY <3>1, <2>3 DEF Stored, WithdrawKey
  <2>5. CASE ~ (c.account = a /\ v = b + 1)
    <3>1. events'[c.account][v] = events[c.account][v]
      BY <1>1, <2>1, <2>3, <2>5
    <3>. QED  BY <3>1, <2>2, <2>3 DEF Stored, WithdrawKey
  <2>. QED  BY <2>4, <2>5
<1>. QED  BY <1>2, <1>3, <1>4

\* What an attempt knows is not undone by another one's put.
LEMMA SoundStays ==
    ASSUME BankingIInv, NEW a \in Accounts, NEW b \in Nat, b <= Newest(a), NEW e, PutsAt(a, b, e),
           PutIsLegal(a, b, e), Untransferred' = Untransferred, SoleAtSource' = SoleAtSource,
           NEW c \in Commands, NEW i, Sound(c, i)
    PROVE  /\ i \in [pc : PCs, base : Nat, toBase : Nat]
           /\ PutIsSound(c, i)' /\ TransferIsSound(c, i)' /\ AnswerIsSound(c, i)'
<1>1. Gapless /\ c.account \in Accounts /\ c.to \in Accounts
  BY DEF BankingIInv, CommandsSound
<1>2. Gapless' /\ \A x \in Accounts : Newest(x) <= Newest(x)'
  BY <1>1, PutEffect
<1>3. /\ \A x \in Accounts \cap Untransferred : \A v \in DOMAIN events[x] :
             v \in DOMAIN events'[x] /\ events'[x][v] = events[x][v]
      /\ \A x \in Accounts \cap Untransferred : \A key : Stored(x, key) => Stored(x, key)'
      /\ \A d \in SoleAtSource : d.kind = "transfer" =>
             (Stored(d.account, WithdrawKey(d)) => Stored(d.account, WithdrawKey(d))')
  BY StoredStays
<1>4. i \in [pc : PCs, base : Nat, toBase : Nat]
  BY DEF Sound
<1>5. \A x \in Accounts : Newest(x) \in Nat /\ Newest(x)' \in Nat
  BY <1>1, <1>2 DEF Gapless
<1>6. PutIsSound(c, i)'
  <2> SUFFICES ASSUME i.pc = "put"
               PROVE  /\ c.kind \in {"deposit", "withdraw"}
                      /\ i.base <= Newest(c.account)'
                      /\ c.kind = "deposit" /\ c.account \in Untransferred
                             => ~ IsClosed(View(events'[c.account], i.base))
    BY DEF PutIsSound
  <2>1. /\ c.kind \in {"deposit", "withdraw"} /\ i.base <= Newest(c.account)
        /\ c.kind = "deposit" /\ c.account \in Untransferred
               => ~ IsClosed(View(events[c.account], i.base))
    BY DEF Sound, PutIsSound
  <2>2. i.base <= Newest(c.account)'
    BY <1>1, <1>2, <1>4, <1>5, <2>1
  <2>3. ASSUME c.account \in Untransferred
        PROVE  View(events'[c.account], i.base) = View(events[c.account], i.base)
    BY <1>1, <1>2, <1>3, <1>4, <2>1, <2>3, ViewsStay
  <2>. QED  BY <2>1, <2>2, <2>3
<1>7. TransferIsSound(c, i)'
  BY <1>1, <1>2, <1>3, <1>4, <1>5 DEF Sound, TransferIsSound
<1>8. AnswerIsSound(c, i)'
  BY <1>1, <1>3 DEF Sound, AnswerIsSound
<1>. QED  BY <1>4, <1>6, <1>7, <1>8

\* A history that ends with something else than a closing is closed only if it was
\* closed before.
LEMMA ClosedBefore ==
    ASSUME NEW n \in Nat, NEW h, DOMAIN h = 1 .. n, NEW b \in Nat, b + 1 <= n,
           h[b + 1] \notin {Closed, Opened}, IsClosed(View(h, b + 1))
    PROVE  IsClosed(View(h, b))
<1>1. /\ DOMAIN View(h, b + 1) = 1 .. (b + 1) /\ DOMAIN View(h, b) = 1 .. b
      /\ \A v \in 1 .. (b + 1) : View(h, b + 1)[v] = h[v]
      /\ \A v \in 1 .. b : View(h, b)[v] = h[v]
  BY DEF View
<1>2. PICK v \in 1 .. (b + 1) : /\ h[v] = Closed
                                /\ \A u \in 1 .. (b + 1) : u > v => h[u] # Opened
  BY <1>1 DEF IsClosed
<1>3. v \in 1 .. b
  BY <1>2
<1>4. \A u \in 1 .. b : u \in 1 .. (b + 1)
  OBVIOUS
<1>5. View(h, b)[v] = Closed
  BY <1>1, <1>2, <1>3
<1>6. \A u \in 1 .. b : u > v => View(h, b)[u] # Opened
  BY <1>1, <1>2, <1>4
<1> HIDE DEF Closed, Opened
<1>. QED  BY <1>1, <1>3, <1>5, <1>6 DEF IsClosed

\* A legal put keeps the invariant if what its attempt knows then is sound.
LEMMA PutKeepsIInv ==
    ASSUME BankingIInv, NEW t \in Attempts, NEW x, Moves(t, x),
           NEW a \in Accounts, NEW b \in Nat, b <= Newest(a), NEW e, PutsAt(a, b, e),
           PutIsLegal(a, b, e), Sound(t[1], x)'
    PROVE  BankingIInv'
<1>1. /\ Attempts' = Attempts /\ Commands' = Commands
      /\ Untransferred' = Untransferred /\ SoleAtSource' = SoleAtSource
      /\ attempts'[t] = x
      /\ \A s \in Attempts \ {t} : attempts'[s] = attempts[s]
  BY WorkloadStays
<1>2. /\ Gapless'
      /\ \A y \in Accounts : Newest(y) <= Newest(y)'
      /\ b + 1 \in DOMAIN events'[a] /\ events'[a][b + 1] = e
      /\ \A y \in Accounts : \A v \in DOMAIN events'[y] :
             (y = a /\ v = b + 1) \/ (v \in DOMAIN events[y] /\ events'[y][v] = events[y][v])
  BY PutEffect DEF BankingIInv
<1>3. /\ \A y \in Accounts \cap Untransferred : \A v \in DOMAIN events[y] :
             v \in DOMAIN events'[y] /\ events'[y][v] = events[y][v]
      /\ \A c \in SoleAtSource : c.kind = "transfer" =>
             (Stored(c.account, WithdrawKey(c)) => Stored(c.account, WithdrawKey(c))')
  BY StoredStays
<1>4. CommandsSound'
  BY <1>1 DEF BankingIInv, CommandsSound
<1>5. \A s \in Attempts' : Sound(s[1], attempts[s])'
  <2> SUFFICES ASSUME NEW s \in Attempts PROVE Sound(s[1], attempts[s])'
    BY <1>1
  <2>1. CASE s = t
    BY <1>1, <2>1
  <2>2. CASE s # t
    <3>1. s[1] \in Commands /\ Sound(s[1], attempts[s]) /\ attempts'[s] = attempts[s]
      BY <1>1, <2>2 DEF BankingIInv, Commands
    <3>2. ASSUME NEW i, i = attempts'[s]
          PROVE  /\ i \in [pc : PCs, base : Nat, toBase : Nat]
                 /\ PutIsSound(s[1], i)' /\ TransferIsSound(s[1], i)' /\ AnswerIsSound(s[1], i)'
      <4>1. Sound(s[1], i)
        BY <3>1, <3>2
      <4>. QED  BY <1>1, <3>1, <4>1, SoundStays
    <3>. QED  BY <3>2 DEF Sound, PutIsSound, TransferIsSound, AnswerIsSound
  <2>. QED  BY <2>1, <2>2
<1>6. KeysAreTrue'
  BY <1>1, <1>2 DEF BankingIInv, KeysAreTrue, PutIsLegal
<1>7. NoDepositAfterClosing'
  <2> SUFFICES ASSUME NEW y \in Untransferred, NEW v \in DOMAIN events'[y],
                      events'[y][v].type = "MoneyDeposited", IsClosed(View(events'[y], v))
               PROVE  FALSE
    BY <1>1 DEF NoDepositAfterClosing
  <2>1. /\ y \in Accounts
        /\ Newest(y) \in Nat /\ DOMAIN events[y] = 1 .. Newest(y)
        /\ Newest(y)' \in Nat /\ DOMAIN events'[y] = 1 .. Newest(y)'
    BY <1>2 DEF BankingIInv, Gapless, Untransferred
  <2>2. CASE y = a /\ v = b + 1
    <3>1. ~ IsClosed(View(events[a], b))
      BY <1>2, <2>2 DEF PutIsLegal
    <3>2. View(events'[a], b) = View(events[a], b)
      BY <1>2, <1>3, <2>2, ViewsStay DEF BankingIInv
    <3>3. IsClosed(View(events'[a], b))
      BY <1>2, <2>1, <2>2, ClosedBefore DEF PutIsLegal
    <3>. QED  BY <3>1, <3>2, <3>3
  <2>3. CASE ~ (y = a /\ v = b + 1)
    <3>1. v \in DOMAIN events[y] /\ events'[y][v] = events[y][v]
      BY <1>2, <2>1, <2>3
    <3>2. View(events'[y], v) = View(events[y], v)
      BY <1>2, <1>3, <2>1, <3>1, ViewsStay DEF BankingIInv
    <3>. QED  BY <3>1, <3>2 DEF BankingIInv, NoDepositAfterClosing
  <2>. QED  BY <2>2, <2>3
<1>8. DebitComesFirst'
  <2> SUFFICES ASSUME NEW c \in SoleAtSource, c.kind = "transfer", Stored(c.to, DepositKey(c))'
               PROVE  Stored(c.account, WithdrawKey(c))'
    BY <1>1 DEF DebitComesFirst
  <2>1. c.to \in Accounts
    BY DEF BankingIInv, CommandsSound, SoleAtSource
  <2>2. PICK v \in DOMAIN events'[c.to] : events'[c.to][v].key = DepositKey(c)
    BY DEF Stored, DepositKey
  <2>3. Stored(c.account, WithdrawKey(c))
    <3>1. CASE c.to = a /\ v = b + 1
      BY <1>2, <2>2, <3>1 DEF PutIsLegal
    <3>2. CASE ~ (c.to = a /\ v = b + 1)
      <4>1. Stored(c.to, DepositKey(c))
        BY <1>2, <2>1, <2>2, <3>2 DEF Stored
      <4>. QED  BY <4>1 DEF BankingIInv, DebitComesFirst
    <3>. QED  BY <3>1, <3>2
  <2>. QED  BY <1>3, <2>3
<1>. QED  BY <1>2, <1>4, <1>5, <1>6, <1>7, <1>8 DEF BankingIInv

--------------------------------------------------------------------------------
(* The steps.                                                                  *)
LEMMA InitBanking == Init => BankingIInv
<1> SUFFICES ASSUME Init PROVE BankingIInv
  OBVIOUS
<1>1. PICK cs \in Workloads : attempts = [t \in cs \X (1 .. MaxAttempts) |-> Idle]
  BY DEF Init
<1>2. /\ Attempts = cs \X (1 .. MaxAttempts)
      /\ \A t \in Attempts : t[1] \in cs /\ attempts[t] = Idle
  BY <1>1 DEF Attempts
<1>3. \A c \in Commands : c \in cs
  BY <1>2 DEF Commands
<1>4. CommandsSound
  BY <1>3, WorkloadsAssumption DEF CommandsSound
<1>5. \A t \in Attempts : Sound(t[1], attempts[t])
  BY <1>2 DEF Sound, PutIsSound, TransferIsSound, AnswerIsSound, Idle, PCs
<1>6. Gapless
  BY OpeningAssumption DEF Init, Gapless, Newest
<1>7. KeysAreTrue
  BY <1>3, OpeningAssumption DEF Init, KeysAreTrue
<1>8. NoDepositAfterClosing
  BY OpeningAssumption DEF Init, NoDepositAfterClosing, Untransferred
<1>9. DebitComesFirst
  <2> SUFFICES ASSUME NEW c \in SoleAtSource, Stored(c.to, DepositKey(c)) PROVE FALSE
    BY DEF DebitComesFirst
  <2>1. c \in cs /\ c.to \in Accounts
    BY <1>3, <1>4 DEF SoleAtSource, CommandsSound
  <2>. QED  BY <2>1, OpeningAssumption DEF Init, Stored
<1>. QED  BY <1>4, <1>5, <1>6, <1>7, <1>8, <1>9 DEF BankingIInv

\* An attempt goes on to the next place of its handler and keeps what it read.
LEMMA GotoMoves ==
    ASSUME BankingIInv, NEW t \in Attempts, NEW pc \in PCs, Goto(t, pc)
    PROVE  LET x == [attempts[t] EXCEPT !.pc = pc] IN
           /\ Moves(t, x) /\ x \in [pc : PCs, base : Nat, toBase : Nat]
           /\ x.pc = pc /\ x.base = attempts[t].base /\ x.toBase = attempts[t].toBase
<1>1. attempts[t] \in [pc : PCs, base : Nat, toBase : Nat]
  BY DEF BankingIInv, Sound
<1>2. [attempts EXCEPT ![t].pc = pc] = [attempts EXCEPT ![t] = [attempts[t] EXCEPT !.pc = pc]]
  OBVIOUS
<1>. QED  BY <1>1, <1>2 DEF Goto, Moves

\* How far a replica got is a number.
LEMMA StalenessIsNat == BankingIInv => Staleness \subseteq Nat
BY DEF BankingIInv, Gapless, Staleness

\* What an attempt reads of an account is the history up to a version of it.
LEMMA ReadIsPrefix ==
    ASSUME BankingIInv, NEW a \in Accounts, NEW k \in Staleness
    PROVE  LET b == CurrentVersion(View(events[a], k)) IN
           b \in Nat /\ b <= Newest(a) /\ View(events[a], k) = View(events[a], b)
BY StalenessIsNat, VersionOfView DEF BankingIInv, Gapless

\* A duplicate is one: the key is found at the account of the command.
LEMMA DuplicateIsStored ==
    ASSUME BankingIInv, NEW t \in Attempts, NEW k \in Staleness, IsDuplicate(Key(t[1]), k)
    PROVE  Stored(t[1].account, Key(t[1]))
<1>1. PICK i \in DOMAIN ScanOrder : /\ DOMAIN View(events[ScanOrder[i]], k) # {}
                                    /\ View(events[ScanOrder[i]], k)[1].key = Key(t[1])
  BY DEF IsDuplicate
<1> DEFINE a == ScanOrder[i]
<1>2. a \in Accounts
  BY <1>1, WorkloadsAssumption
<1>3. k \in Nat /\ Newest(a) \in Nat /\ DOMAIN events[a] = 1 .. Newest(a)
  BY <1>2, StalenessIsNat DEF BankingIInv, Gapless
<1>4. DOMAIN View(events[a], k) = {u \in 1 .. Newest(a) : u <= k}
  BY <1>3 DEF View
<1>5. 1 \in DOMAIN View(events[a], k)
  BY <1>1, <1>3, <1>4
<1>6. 1 \in DOMAIN events[a] /\ events[a][1].key = Key(t[1])
  BY <1>1, <1>3, <1>4, <1>5 DEF View
<1>7. a = t[1].account
  <2>1. t[1] \in Commands
    BY DEF Commands
  <2>. QED  BY <1>2, <1>6, <2>1 DEF BankingIInv, KeysAreTrue
<1>. QED  BY <1>6, <1>7 DEF Stored

\* What the invariant says of an attempt and of its command.
LEMMA CommandOf ==
    ASSUME BankingIInv, NEW t \in Attempts
    PROVE  /\ t[1] \in Commands /\ Sound(t[1], attempts[t])
           /\ t[1].account \in Accounts /\ t[1].to \in Accounts
           /\ attempts[t] \in [pc : PCs, base : Nat, toBase : Nat]
           /\ \A d \in Commands : t[1].id = d.id => t[1] = d
BY DEF BankingIInv, Commands, CommandsSound, Sound

\* The checks and reads before the put of a deposit or withdrawal.
LEMMA LoadsKeepIInv ==
    ASSUME BankingIInv, NEW t \in Attempts, NEW k \in Staleness,
           CheckDuplicate(t, k) \/ LoadForDeposit(t, k) \/ LoadForWithdraw(t, k)
    PROVE  BankingIInv'
<1> DEFINE c == t[1]
           b == CurrentVersion(View(events[c.account], k))
<1>1. /\ c \in Commands /\ Sound(c, attempts[t]) /\ c.account \in Accounts
      /\ attempts[t] \in [pc : PCs, base : Nat, toBase : Nat]
  BY CommandOf
<1>2. b \in Nat /\ b <= Newest(c.account) /\ View(events[c.account], k) = View(events[c.account], b)
  BY <1>1, ReadIsPrefix
<1>3. CASE CheckDuplicate(t, k)
  <2> DEFINE pc == IF IsDuplicate(Key(c), k) THEN "stored" ELSE "load"
             x == [attempts[t] EXCEPT !.pc = pc]
  <2>1. pc \in PCs /\ Goto(t, pc) /\ events' = events
    BY <1>3 DEF CheckDuplicate, PCs
  <2>2. Moves(t, x) /\ x \in [pc : PCs, base : Nat, toBase : Nat] /\ x.pc = pc
    BY <2>1, GotoMoves
  <2>3. pc = "stored" => Stored(c.account, Key(c))
    BY DuplicateIsStored
  <2>4. pc \in {"stored", "load"}
    OBVIOUS
  <2> HIDE DEF x, pc
  <2>5. Sound(c, x)
    BY <2>2, <2>3, <2>4 DEF Sound, PutIsSound, TransferIsSound, AnswerIsSound
  <2>. QED  BY <2>1, <2>2, <2>5, ReadKeepsIInv
<1>4. CASE LoadForDeposit(t, k) \/ LoadForWithdraw(t, k)
  <2> DEFINE failed == [attempts[t] EXCEPT !.pc = "failed"]
             put == [attempts[t] EXCEPT !.pc = "put", !.base = b]
  <2>1. /\ c.kind \in {"deposit", "withdraw"} /\ events' = events
        /\ \/ Moves(t, failed)
           \/ /\ Moves(t, put)
              /\ c.kind = "deposit" => ~ IsClosed(View(events[c.account], k))
    BY <1>4 DEF LoadForDeposit, LoadForWithdraw, Moves
  <2>2. /\ failed \in [pc : PCs, base : Nat, toBase : Nat] /\ failed.pc = "failed"
        /\ put \in [pc : PCs, base : Nat, toBase : Nat] /\ put.pc = "put" /\ put.base = b
    BY <1>1, <1>2 DEF PCs
  <2> HIDE DEF failed, put
  <2>3. Sound(c, failed)
    BY <2>2 DEF Sound, PutIsSound, TransferIsSound, AnswerIsSound
  <2>4. CASE /\ Moves(t, put)
             /\ c.kind = "deposit" => ~ IsClosed(View(events[c.account], k))
    <3>1. Sound(c, put)
      BY <1>2, <2>1, <2>2, <2>4 DEF Sound, PutIsSound, TransferIsSound, AnswerIsSound
    <3>. QED  BY <2>1, <2>4, <3>1, ReadKeepsIInv
  <2>. QED  BY <2>1, <2>3, <2>4, ReadKeepsIInv
<1>. QED  BY <1>3, <1>4

\* The reads of handle_transfer.
LEMMA TransferLoadsKeepIInv ==
    ASSUME BankingIInv, NEW t \in Attempts, NEW k \in Staleness, LoadSource(t, k) \/ LoadTarget(t, k)
    PROVE  BankingIInv'
<1> DEFINE c == t[1]
           b == CurrentVersion(View(events[c.account], k))
           d == CurrentVersion(View(events[c.to], k))
           source == [attempts[t] EXCEPT !.pc = "loadTo", !.base = b]
           target == [attempts[t] EXCEPT !.pc = "putFrom", !.toBase = d]
<1>1. /\ Sound(c, attempts[t]) /\ c.account \in Accounts /\ c.to \in Accounts
      /\ attempts[t] \in [pc : PCs, base : Nat, toBase : Nat]
  BY CommandOf
<1>2. b \in Nat /\ b <= Newest(c.account) /\ d \in Nat /\ d <= Newest(c.to)
  BY <1>1, ReadIsPrefix
<1>3. /\ source \in [pc : PCs, base : Nat, toBase : Nat]
      /\ source.pc = "loadTo" /\ source.base = b
      /\ target \in [pc : PCs, base : Nat, toBase : Nat]
      /\ target.pc = "putFrom" /\ target.base = attempts[t].base /\ target.toBase = d
  BY <1>1, <1>2 DEF PCs
<1>4. CASE LoadSource(t, k)
  <2>1. c.kind = "transfer" /\ events' = events /\ Moves(t, source)
    BY <1>4 DEF LoadSource, Moves
  <2> HIDE DEF source
  <2>2. Sound(c, source)
    BY <1>2, <1>3, <2>1 DEF Sound, PutIsSound, TransferIsSound, AnswerIsSound
  <2>. QED  BY <2>1, <2>2, ReadKeepsIInv
<1>5. CASE LoadTarget(t, k)
  <2>1. attempts[t].pc = "loadTo" /\ events' = events /\ Moves(t, target)
    BY <1>5 DEF LoadTarget, Moves
  <2> HIDE DEF target
  <2>2. Sound(c, target)
    BY <1>1, <1>2, <1>3, <2>1 DEF Sound, PutIsSound, TransferIsSound, AnswerIsSound
  <2>. QED  BY <2>1, <2>2, ReadKeepsIInv
<1>. QED  BY <1>4, <1>5

\* An attempt that fails puts nothing.
LEMMA FailingKeepsIInv ==
    ASSUME BankingIInv, NEW t \in Attempts, Conflict(t) \/ SnapshotFails(t) \/ Die(t)
    PROVE  BankingIInv'
<1>1. Goto(t, "failed") /\ events' = events /\ "failed" \in PCs
  BY DEF Conflict, SnapshotFails, Die, PCs
<1> DEFINE x == [attempts[t] EXCEPT !.pc = "failed"]
<1>2. Moves(t, x) /\ x \in [pc : PCs, base : Nat, toBase : Nat] /\ x.pc = "failed"
  BY <1>1, GotoMoves
<1> HIDE DEF x
<1>3. Sound(t[1], x)
  BY <1>2 DEF Sound, PutIsSound, TransferIsSound, AnswerIsSound
<1>. QED  BY <1>1, <1>2, <1>3, ReadKeepsIInv

\* The conditional put of a deposit or withdrawal is legal.
LEMMA ConditionalPutKeepsIInv ==
    ASSUME BankingIInv, NEW t \in Attempts, PutConditionally(t)
    PROVE  BankingIInv'
<1> DEFINE c == t[1]
           a == c.account
           b == attempts[t].base
           e == EventOf(c)
           pc == IF c.kind = "deposit" /\ (b + 1) % SnapshotEvery = 0
                 THEN "snapshot" ELSE "stored"
<1>1. /\ c \in Commands /\ Sound(c, attempts[t]) /\ a \in Accounts
      /\ attempts[t] \in [pc : PCs, base : Nat, toBase : Nat]
      /\ \A d \in Commands : c.id = d.id => c = d
  BY CommandOf
<1>2. /\ b + 1 \notin DOMAIN events[a] /\ PutsAt(a, b, e)
      /\ Goto(t, pc) /\ pc \in {"snapshot", "stored"} /\ pc \in PCs
      /\ attempts[t].pc = "put"
  BY DEF PutConditionally, KeyIsFree, PutsAt, PCs
<1>3. /\ c.kind \in {"deposit", "withdraw"} /\ b \in Nat /\ b <= Newest(a)
      /\ c.kind = "deposit" /\ a \in Untransferred => ~ IsClosed(View(events[a], b))
  BY <1>1, <1>2 DEF Sound, PutIsSound
<1>4. /\ e.key = Key(c) /\ e \notin {Closed, Opened}
      /\ e.type = "MoneyDeposited" => c.kind = "deposit"
  BY DEF EventOf, Deposited, Withdrawn, Closed, Opened
<1>5. PutIsLegal(a, b, e)
  <2>1. \A d \in Commands : e.key = Key(d) => a = d.account
    BY <1>1, <1>4, KeysDiffer
  <2>2. ASSUME NEW d \in SoleAtSource, d.kind = "transfer"
        PROVE  a # d.account /\ e.key # DepositKey(d)
    BY <1>1, <1>3, <1>4, <2>2, KeysDiffer DEF SoleAtSource
  <2>3. e.type = "MoneyDeposited" /\ a \in Untransferred => ~ IsClosed(View(events[a], b))
    BY <1>3, <1>4
  <2> HIDE DEF a, b, e, c
  <2>4. /\ b + 1 \notin DOMAIN events[a] /\ e \notin {Closed, Opened}
        /\ \A d \in Commands : e.key = Key(d) => a = d.account
        /\ \A d \in SoleAtSource : d.kind = "transfer" => a # d.account /\ e.key # DepositKey(d)
    BY <1>2, <1>4, <2>1, <2>2
  <2>. QED  BY ONLY <2>3, <2>4 DEF PutIsLegal
<1>6. PICK x : Moves(t, x) /\ x \in [pc : PCs, base : Nat, toBase : Nat] /\ x.pc = pc
  <2> HIDE DEF pc
  <2> DEFINE y == [attempts[t] EXCEPT !.pc = pc]
  <2>1. Moves(t, y) /\ y \in [pc : PCs, base : Nat, toBase : Nat] /\ y.pc = pc
    BY ONLY BankingIInv, t \in Attempts, <1>2, GotoMoves
  <2> HIDE DEF y
  <2>. QED  BY <2>1
<1>7. Stored(a, Key(c))'
  <2>1. b + 1 \in DOMAIN events'[a] /\ events'[a][b + 1] = e
    BY <1>1, <1>2, <1>3, PutEffect DEF BankingIInv
  <2>. QED  BY <2>1, <1>4 DEF Stored, Key
<1> HIDE DEF pc
<1>8. Sound(c, x)'
  BY <1>2, <1>3, <1>6, <1>7 DEF Sound, PutIsSound, TransferIsSound, AnswerIsSound
<1>. QED  BY <1>1, <1>2, <1>3, <1>5, <1>6, <1>8, PutKeepsIInv

\* The first put of a transfer is legal.
LEMMA PutWithdrawalKeepsIInv ==
    ASSUME BankingIInv, NEW t \in Attempts, PutWithdrawal(t)
    PROVE  BankingIInv'
<1> DEFINE c == t[1]
           a == c.account
           b == attempts[t].base
           e == Withdrawn(c.amount, WithdrawKey(c))
<1>1. /\ c \in Commands /\ Sound(c, attempts[t]) /\ a \in Accounts /\ c.to \in Accounts
      /\ attempts[t] \in [pc : PCs, base : Nat, toBase : Nat]
      /\ \A d \in Commands : c.id = d.id => c = d
  BY CommandOf
<1>2. /\ attempts[t].pc = "putFrom" /\ PutsAt(a, b, e) /\ Goto(t, "putTo") /\ "putTo" \in PCs
  BY DEF PutWithdrawal, PutsAt, PCs
<1>3. /\ c.kind = "transfer" /\ b \in Nat /\ b <= Newest(a)
      /\ attempts[t].toBase \in Nat /\ attempts[t].toBase <= Newest(c.to)
  BY <1>1, <1>2 DEF Sound, TransferIsSound
<1>4. e.key = WithdrawKey(c) /\ e \notin {Closed, Opened} /\ e.type # "MoneyDeposited"
  BY DEF Withdrawn, Closed, Opened
<1>5. PutIsLegal(a, b, e)
  <2>1. a \notin Untransferred
    BY <1>1, <1>3 DEF Untransferred
  <2>2. \A d \in Commands : e.key # Key(d) /\ e.key # DepositKey(d)
    BY <1>4, KeysDiffer
  <2>3. \A d \in SoleAtSource : a = d.account => d = c
    BY <1>1 DEF SoleAtSource
  <2>4. \A d \in SoleAtSource : d \in Commands
    BY DEF SoleAtSource
  <2> HIDE DEF a, b, e
  <2>. QED  BY <1>4, <2>1, <2>2, <2>3, <2>4 DEF PutIsLegal
<1>6. PICK x : /\ Moves(t, x) /\ x \in [pc : PCs, base : Nat, toBase : Nat]
               /\ x.pc = "putTo" /\ x.base = b /\ x.toBase = attempts[t].toBase
  <2> DEFINE y == [attempts[t] EXCEPT !.pc = "putTo"]
  <2>1. /\ Moves(t, y) /\ y \in [pc : PCs, base : Nat, toBase : Nat]
        /\ y.pc = "putTo" /\ y.base = b /\ y.toBase = attempts[t].toBase
    BY <1>2, GotoMoves
  <2> HIDE DEF y
  <2>. QED  BY <2>1
<1>7. /\ \A y \in Accounts : Newest(y) <= Newest(y)'
      /\ b + 1 \in DOMAIN events'[a] /\ events'[a][b + 1] = e /\ Gapless'
  BY <1>1, <1>2, <1>3, PutEffect DEF BankingIInv
<1>8. Stored(a, WithdrawKey(c))'
  BY <1>4, <1>7 DEF Stored, WithdrawKey
<1>9. b <= Newest(a)' /\ attempts[t].toBase <= Newest(c.to)'
  BY <1>1, <1>3, <1>7 DEF BankingIInv, Gapless
<1> HIDE DEF e
<1>10. Sound(c, x)'
  BY <1>3, <1>6, <1>8, <1>9 DEF Sound, PutIsSound, TransferIsSound, AnswerIsSound
<1>. QED  BY <1>1, <1>2, <1>3, <1>5, <1>6, <1>10, PutKeepsIInv

\* The second one too: the withdrawal comes first.
LEMMA PutDepositKeepsIInv ==
    ASSUME BankingIInv, NEW t \in Attempts, PutDeposit(t)
    PROVE  BankingIInv'
<1> DEFINE c == t[1]
           a == c.to
           b == attempts[t].toBase
           e == Deposited(c.amount, DepositKey(c))
<1>1. /\ c \in Commands /\ Sound(c, attempts[t]) /\ a \in Accounts
      /\ attempts[t] \in [pc : PCs, base : Nat, toBase : Nat]
      /\ \A d \in Commands : c.id = d.id => c = d
  BY CommandOf
<1>2. attempts[t].pc = "putTo" /\ PutsAt(a, b, e) /\ Goto(t, "stored") /\ "stored" \in PCs
  BY DEF PutDeposit, PutsAt, PCs
<1>3. /\ c.kind = "transfer" /\ b \in Nat /\ b <= Newest(a)
      /\ c \in SoleAtSource => Stored(c.account, WithdrawKey(c))
  BY <1>1, <1>2 DEF Sound, TransferIsSound
<1>4. e.key = DepositKey(c) /\ e \notin {Closed, Opened}
  BY DEF Deposited, Closed, Opened
<1>5. PutIsLegal(a, b, e)
  <2>1. a \notin Untransferred
    BY <1>1, <1>3 DEF Untransferred
  <2>2. \A d \in Commands : e.key # Key(d) /\ (e.key = DepositKey(d) => d = c)
    BY <1>1, <1>4, KeysDiffer
  <2>3. \A d \in SoleAtSource : d \in Commands /\ a # d.account
    BY <1>1 DEF SoleAtSource
  <2> HIDE DEF a, b, e
  <2>. QED  BY <1>3, <1>4, <2>1, <2>2, <2>3 DEF PutIsLegal
<1>6. PICK x : Moves(t, x) /\ x \in [pc : PCs, base : Nat, toBase : Nat] /\ x.pc = "stored"
  BY <1>2, GotoMoves
<1> HIDE DEF e
<1>7. Sound(c, x)'
  BY <1>3, <1>6 DEF Sound, PutIsSound, TransferIsSound, AnswerIsSound
<1>. QED  BY <1>1, <1>2, <1>3, <1>5, <1>6, <1>7, PutKeepsIInv

\* Every step keeps the invariant.
LEMMA NextBanking == BankingIInv /\ [Next]_vars => BankingIInv'
<1>1. CASE BankingIInv /\ UNCHANGED vars
  BY <1>1 DEF vars, BankingIInv, Gapless, CommandsSound, Sound, PutIsSound, TransferIsSound, AnswerIsSound,
              KeysAreTrue, NoDepositAfterClosing, DebitComesFirst, Newest, Stored, Untransferred,
              SoleAtSource, Commands, Attempts
<1>2. ASSUME BankingIInv, NEW t \in Attempts, NEW k \in Staleness,
             \/ CheckDuplicate(t, k) \/ LoadForDeposit(t, k) \/ LoadForWithdraw(t, k)
             \/ LoadSource(t, k) \/ LoadTarget(t, k)
      PROVE  BankingIInv'
  BY <1>2, LoadsKeepIInv, TransferLoadsKeepIInv
<1>3. ASSUME BankingIInv, NEW t \in Attempts, Conflict(t) \/ SnapshotFails(t) \/ Die(t)
      PROVE  BankingIInv'
  BY <1>3, FailingKeepsIInv
<1>4. ASSUME BankingIInv, NEW t \in Attempts, PutConditionally(t) \/ PutWithdrawal(t) \/ PutDeposit(t)
      PROVE  BankingIInv'
  BY <1>4, ConditionalPutKeepsIInv, PutWithdrawalKeepsIInv, PutDepositKeepsIInv
<1>. QED  BY <1>1, <1>2, <1>3, <1>4 DEF Next

--------------------------------------------------------------------------------
(* Balances are sums.                                                          *)

\* What an event adds to the balance.
Change(e) == IF e.type = "MoneyDeposited" THEN e.amount
             ELSE IF e.type = "MoneyWithdrawn" THEN - e.amount ELSE 0
Changes(h) == [v \in DOMAIN h |-> Change(h[v])]

\* A balance is the sum of what the events add.
LEMMA BalanceIs ==
    ASSUME NEW h, IsFiniteSet(DOMAIN h)
    PROVE  Balance(h) = Total(Changes(h), DOMAIN h)
<1> DEFINE D == DOMAIN h
           Sums(g) == g = [s \in SUBSET D |->
               IF s = {} THEN 0
               ELSE (IF h[CHOOSE x \in s : TRUE].type = "MoneyDeposited"
                     THEN h[CHOOSE x \in s : TRUE].amount
                     ELSE IF h[CHOOSE x \in s : TRUE].type = "MoneyWithdrawn"
                     THEN - h[CHOOSE x \in s : TRUE].amount ELSE 0)
                    + g[s \ {CHOOSE x \in s : TRUE}]]
<1>1. ASSUME NEW g PROVE Sums(g) <=> SumsOver(Changes(h), D, g)
  <2>1. \A s \in SUBSET D : s # {} => (CHOOSE x \in s : TRUE) \in D
    OBVIOUS
  <2>2. \A x \in D : Changes(h)[x] = IF h[x].type = "MoneyDeposited" THEN h[x].amount
                        ELSE IF h[x].type = "MoneyWithdrawn" THEN - h[x].amount ELSE 0
    BY DEF Changes, Change
  <2>. QED  BY <2>1, <2>2, Zenon DEF SumsOver, Picked
<1>2. \E k : Sums(k)
  <2>1. PICK k : SumsOver(Changes(h), D, k)
    BY SumsExist
  <2> HIDE DEF Sums, D
  <2>. QED  BY <1>1, <2>1
<1>3. \E g : Sums(g) /\ Balance(h) = g[D]
  BY <1>2, Zenon DEF Balance, MapThenSumSet, MapThenFoldSet
<1>4. PICK g : SumsOver(Changes(h), D, g) /\ Balance(h) = g[D]
  BY <1>1, <1>3
<1>. QED  BY <1>4, TotalIs

\* What events add is a number.
LEMMA ChangeIsInt == ASSUME NEW e, e.amount \in Nat PROVE Change(e) \in Int
BY DEF Change

\* The balance of a prefix of a history is a number, and none without events.
LEMMA BalanceIsInt ==
    ASSUME NEW n \in Nat, NEW h, DOMAIN h = 1 .. n, \A v \in 1 .. n : h[v].amount \in Nat,
           NEW b \in Nat, b <= n
    PROVE  Balance(View(h, b)) \in Int /\ (b = 0 => Balance(View(h, b)) = 0)
<1> DEFINE p == View(h, b)
<1>1. DOMAIN p = 1 .. b /\ \A v \in 1 .. b : p[v] = h[v]
  BY DEF View
<1>2. IsFiniteSet(1 .. b)
  BY FS_Interval
<1> HIDE DEF p
<1>3. Balance(p) = Total(Changes(p), 1 .. b)
  BY <1>1, <1>2, BalanceIs
<1>4. \A v \in 1 .. b : Changes(p)[v] \in Int
  <2>1. ASSUME NEW v \in 1 .. b PROVE Changes(p)[v] \in Int
    <3>1. p[v].amount \in Nat /\ Changes(p)[v] = Change(p[v])
      BY <1>1 DEF Changes
    <3>. QED  BY <3>1, ChangeIsInt
  <2>. QED  BY <2>1
<1>5. Total(Changes(p), 1 .. b) \in Int /\ Total(Changes(p), {}) = 0
  BY <1>2, <1>4, TotalAdd
<1>6. b = 0 => 1 .. b = {}
  OBVIOUS
<1>7. Balance(p) \in Int /\ (b = 0 => Balance(p) = 0)
  BY <1>3, <1>5, <1>6
<1>. QED  BY <1>7 DEF p

\* One more event changes the balance by what it adds.
LEMMA BalanceOfNext ==
    ASSUME NEW n \in Nat, NEW h, DOMAIN h = 1 .. n, \A v \in 1 .. n : h[v].amount \in Nat,
           NEW b \in Nat, b + 1 <= n
    PROVE  Balance(View(h, b + 1)) = Change(h[b + 1]) + Balance(View(h, b))
<1> DEFINE p == View(h, b + 1)
           q == View(h, b)
<1>1. /\ DOMAIN p = 1 .. (b + 1) /\ \A v \in 1 .. (b + 1) : p[v] = h[v]
      /\ DOMAIN q = 1 .. b /\ \A v \in 1 .. b : q[v] = h[v]
  BY DEF View
<1>2. IsFiniteSet(1 .. (b + 1)) /\ IsFiniteSet(1 .. b)
  BY FS_Interval
<1> HIDE DEF p, q
<1>3. Balance(p) = Total(Changes(p), 1 .. (b + 1)) /\ Balance(q) = Total(Changes(q), 1 .. b)
  BY <1>1, <1>2, BalanceIs
<1>4. ASSUME NEW v \in 1 .. (b + 1)
      PROVE  Changes(p)[v] \in Int /\ Changes(p)[v] = Change(h[v])
  <2>1. v \in 1 .. n
    OBVIOUS
  <2>2. h[v].amount \in Nat /\ Changes(p)[v] = Change(h[v])
    BY <1>1, <2>1 DEF Changes
  <2>. QED  BY <2>2, ChangeIsInt
<1>5. \A v \in 1 .. b : Changes(p)[v] = Changes(q)[v]
  <2>1. ASSUME NEW v \in 1 .. b PROVE Changes(p)[v] = Changes(q)[v]
    <3>1. v \in 1 .. (b + 1)
      OBVIOUS
    <3>2. Changes(q)[v] = Change(h[v])
      BY <1>1 DEF Changes
    <3>. QED  BY <1>4, <3>1, <3>2
  <2>. QED  BY <2>1
<1>6. b + 1 \in 1 .. (b + 1) /\ (1 .. (b + 1)) \ {b + 1} = 1 .. b
  OBVIOUS
<1>7. \A v \in 1 .. (b + 1) : Changes(p)[v] \in Int
  BY <1>4
<1>8. Total(Changes(p), 1 .. (b + 1))
          = Changes(p)[b + 1] + Total(Changes(p), (1 .. (b + 1)) \ {b + 1})
  BY <1>2, <1>6, <1>7, TotalAdd
<1>9. Total(Changes(p), 1 .. b) = Total(Changes(q), 1 .. b)
  BY <1>2, <1>5, TotalSame
<1>10. Balance(p) = Change(h[b + 1]) + Balance(q)
  BY <1>3, <1>4, <1>6, <1>8, <1>9
<1>. QED  BY <1>10 DEF p, q

--------------------------------------------------------------------------------
(* No balance gets negative, because a withdrawal that is about to be put is   *)
(* covered by the balance at the version it will follow.                       *)
AmountsSound ==
    /\ \A c \in Commands : c.amount \in Nat
    /\ \A a \in Accounts : \A v \in DOMAIN events[a] : events[a][v].amount \in Nat

PutIsCovered(c, i) ==
    i.pc = "put" /\ c.kind = "withdraw" /\ c.account \in Untransferred
        => Balance(View(events[c.account], i.base)) >= c.amount

Covered ==
    /\ AmountsSound
    /\ BalanceNeverNegative
    /\ \A t \in Attempts : PutIsCovered(t[1], attempts[t])

\* A step that puts nothing.
LEMMA ReadKeepsCovered ==
    ASSUME BankingIInv, Covered, NEW t \in Attempts, NEW x, Moves(t, x), events' = events,
           PutIsCovered(t[1], x)
    PROVE  Covered'
<1>1. /\ Attempts' = Attempts /\ Commands' = Commands /\ Untransferred' = Untransferred
      /\ attempts'[t] = x
      /\ \A s \in Attempts \ {t} : attempts'[s] = attempts[s]
  BY WorkloadStays
<1>2. AmountsSound' /\ BalanceNeverNegative'
  BY <1>1 DEF Covered, AmountsSound, BalanceNeverNegative
<1>3. \A s \in Attempts : PutIsCovered(s[1], attempts'[s])
  BY <1>1 DEF Covered
<1>4. \A s \in Attempts' : PutIsCovered(s[1], attempts[s])'
  BY <1>1, <1>3 DEF PutIsCovered
<1>. QED  BY <1>2, <1>4 DEF Covered

\* A put that its account can afford.
LEMMA PutKeepsCovered ==
    ASSUME BankingIInv, BankingIInv', Covered, NEW t \in Attempts, NEW x, Moves(t, x), x.pc # "put",
           NEW a \in Accounts, NEW b \in Nat, b <= Newest(a), NEW e, PutsAt(a, b, e),
           e.amount \in Nat,
           a \in Untransferred => /\ b + 1 \notin DOMAIN events[a]
                                  /\ Balance(View(events[a], b)) + Change(e) >= 0
    PROVE  Covered'
<1>1. /\ Attempts' = Attempts /\ Commands' = Commands /\ Untransferred' = Untransferred
      /\ attempts'[t] = x
      /\ \A s \in Attempts \ {t} : attempts'[s] = attempts[s]
  BY WorkloadStays
<1>2. /\ \A y \in Accounts : Newest(y) <= Newest(y)'
      /\ b + 1 \in DOMAIN events'[a] /\ events'[a][b + 1] = e
      /\ \A y \in Accounts : \A v \in DOMAIN events'[y] :
             (y = a /\ v = b + 1) \/ (v \in DOMAIN events[y] /\ events'[y][v] = events[y][v])
  BY PutEffect DEF BankingIInv
<1>3. ASSUME NEW y \in Accounts
      PROVE  /\ Newest(y) \in Nat /\ DOMAIN events[y] = 1 .. Newest(y)
             /\ Newest(y)' \in Nat /\ DOMAIN events'[y] = 1 .. Newest(y)'
  BY DEF BankingIInv, Gapless
<1>4. AmountsSound'
  <2>1. \A y \in Accounts : \A v \in DOMAIN events'[y] : events'[y][v].amount \in Nat
    BY <1>2 DEF Covered, AmountsSound
  <2>. QED  BY <1>1, <2>1 DEF Covered, AmountsSound
<1>5. ASSUME NEW y \in Accounts \cap Untransferred, NEW v \in Nat, v <= Newest(y)
      PROVE  View(events'[y], v) = View(events[y], v)
  <2>1. \A u \in DOMAIN events[y] : events'[y][u] = events[y][u]
    <3>1. \A u \in DOMAIN events[y] : u \in DOMAIN events'[y]
      BY <1>2, <1>3
    <3>. QED  BY <1>2, <3>1
  <2>. QED  BY <1>2, <1>5, <2>1, ViewsStay DEF BankingIInv
<1>6. BalanceNeverNegative'
  <2> SUFFICES ASSUME NEW y \in Untransferred, NEW v \in DOMAIN events'[y]
               PROVE  Balance(View(events'[y], v)) >= 0
    BY <1>1 DEF BalanceNeverNegative
  <2>1. y \in Accounts
    BY DEF Untransferred
  <2>2. CASE y = a /\ v = b + 1
    <3>1. View(events'[a], b) = View(events[a], b)
      BY <1>5, <2>1, <2>2
    <3>2. \A u \in 1 .. Newest(a)' : events'[a][u].amount \in Nat
      BY <1>3, <1>4 DEF AmountsSound
    <3>3. b + 1 <= Newest(a)'
      BY <1>2, <1>3
    <3>4. Balance(View(events'[a], b + 1)) = Change(e) + Balance(View(events'[a], b))
      <4> HIDE DEF Change
      <4>. QED  BY <1>2, <1>3, <3>2, <3>3, BalanceOfNext
    <3>5. Balance(View(events[a], b)) \in Int /\ Change(e) \in Int
      <4>1. \A u \in 1 .. Newest(a) : events[a][u].amount \in Nat
        BY <1>3 DEF Covered, AmountsSound
      <4>. QED  BY <1>3, <4>1, BalanceIsInt, ChangeIsInt
    <3>6. Balance(View(events[a], b)) + Change(e) >= 0
      BY <2>2
    <3>. QED  BY <2>2, <3>1, <3>4, <3>5, <3>6
  <2>3. CASE ~ (y = a /\ v = b + 1)
    <3>1. v \in DOMAIN events[y]
      BY <1>2, <2>1, <2>3
    <3>2. v \in Nat /\ v <= Newest(y)
      BY <1>3, <2>1, <3>1
    <3>3. View(events'[y], v) = View(events[y], v)
      BY <1>5, <2>1, <3>2
    <3>. QED  BY <3>1, <3>3 DEF Covered, BalanceNeverNegative
  <2>. QED  BY <2>2, <2>3
<1>7. \A s \in Attempts' : PutIsCovered(s[1], attempts[s])'
  <2> SUFFICES ASSUME NEW s \in Attempts,
                      attempts'[s].pc = "put", s[1].kind = "withdraw", s[1].account \in Untransferred
               PROVE  Balance(View(events'[s[1].account], attempts'[s].base)) >= s[1].amount
    BY <1>1 DEF PutIsCovered
  <2> DEFINE y == s[1].account
             w == attempts[s].base
  <2>1. attempts'[s] = attempts[s]
    BY <1>1
  <2>2. y \in Accounts /\ w \in Nat /\ w <= Newest(y)
    BY <2>1, CommandOf DEF Sound, PutIsSound
  <2>3. View(events'[y], w) = View(events[y], w)
    BY <1>5, <2>2
  <2>4. Balance(View(events[y], w)) >= s[1].amount
    BY <2>1 DEF Covered, PutIsCovered
  <2>. QED  BY <2>1, <2>3, <2>4
<1>. QED  BY <1>4, <1>6, <1>7 DEF Covered

\* Accounts start out without an overdraft.
LEMMA InitCovered == Init => Covered
<1> SUFFICES ASSUME Init PROVE Covered
  OBVIOUS
<1>1. PICK cs \in Workloads : attempts = [t \in cs \X (1 .. MaxAttempts) |-> Idle]
  BY DEF Init
<1>2. /\ Attempts = cs \X (1 .. MaxAttempts)
      /\ \A t \in Attempts : t[1] \in cs /\ attempts[t] = Idle
  BY <1>1 DEF Attempts
<1>3. \A c \in Commands : c \in cs
  BY <1>2 DEF Commands
<1>4. AmountsSound
  BY <1>3, OpeningAssumption, AmountsAssumption DEF Init, AmountsSound
<1>5. BalanceNeverNegative
  BY OpeningAssumption, AmountsAssumption DEF Init, BalanceNeverNegative, Untransferred
<1>6. \A t \in Attempts : PutIsCovered(t[1], attempts[t])
  BY <1>2 DEF PutIsCovered, Idle
<1>. QED  BY <1>4, <1>5, <1>6 DEF Covered

\* Every step of the handlers keeps the accounts without an overdraft.
LEMMA NextCovered == BankingIInv /\ BankingIInv' /\ Covered /\ [Next]_vars => Covered'
<1> SUFFICES ASSUME BankingIInv, BankingIInv', Covered, [Next]_vars PROVE Covered'
  OBVIOUS
<1>1. CASE UNCHANGED vars
  BY <1>1 DEF vars, Covered, AmountsSound, BalanceNeverNegative, PutIsCovered, Commands, Attempts,
              Untransferred
<1>2. ASSUME NEW t \in Attempts, NEW k \in Staleness,
             CheckDuplicate(t, k) \/ LoadForDeposit(t, k) \/ LoadSource(t, k) \/ LoadTarget(t, k)
      PROVE  Covered'
  <2>1. t[1].kind = "withdraw" => ~ LoadForDeposit(t, k)
    BY DEF LoadForDeposit
  <2>2. events' = events
    BY <1>2 DEF CheckDuplicate, LoadForDeposit, LoadSource, LoadTarget
  <2>3. PICK x : Moves(t, x) /\ (t[1].kind = "withdraw" => x.pc # "put")
    <3>1. attempts[t] \in [pc : PCs, base : Nat, toBase : Nat]
      BY CommandOf
    <3>2. CASE CheckDuplicate(t, k)
      <4> DEFINE x == [attempts[t] EXCEPT !.pc = IF IsDuplicate(Key(t[1]), k) THEN "stored" ELSE "load"]
      <4>1. Moves(t, x)
        BY <3>2 DEF CheckDuplicate, Goto, Moves
      <4>2. x.pc # "put"
        BY <3>1
      <4> HIDE DEF x
      <4>. QED  BY <4>1, <4>2
    <3>3. CASE LoadForDeposit(t, k)
      <4>1. \E x : Moves(t, x)
        BY <3>3 DEF LoadForDeposit, Moves
      <4>2. t[1].kind # "withdraw"
        BY <3>3 DEF LoadForDeposit
      <4>. QED  BY <4>1, <4>2
    <3>4. CASE LoadSource(t, k)
      <4>1. \E x : Moves(t, x)
        BY <3>4 DEF LoadSource, Moves
      <4>2. t[1].kind # "withdraw"
        BY <3>4 DEF LoadSource
      <4>. QED  BY <4>1, <4>2
    <3>5. CASE LoadTarget(t, k)
      <4> DEFINE x == [attempts[t] EXCEPT !.pc = "putFrom", !.toBase = CurrentVersion(View(events[t[1].to], k))]
      <4>1. Moves(t, x)
        BY <3>5 DEF LoadTarget, Moves
      <4>2. x.pc # "put"
        BY <3>1
      <4> HIDE DEF x
      <4>. QED  BY <4>1, <4>2
    <3>. QED  BY <1>2, <3>2, <3>3, <3>4, <3>5
  <2>4. PutIsCovered(t[1], x)
    BY <2>3 DEF PutIsCovered
  <2>. QED  BY <2>2, <2>3, <2>4, ReadKeepsCovered
<1>3. ASSUME NEW t \in Attempts, NEW k \in Staleness, LoadForWithdraw(t, k)
      PROVE  Covered'
  <2> DEFINE c == t[1]
             a == c.account
             seen == View(events[a], k)
             b == CurrentVersion(seen)
             x == IF Balance(seen) < c.amount THEN [attempts[t] EXCEPT !.pc = "failed"]
                  ELSE [attempts[t] EXCEPT !.pc = "put", !.base = b]
  <2>1. Moves(t, x) /\ events' = events
    BY <1>3 DEF LoadForWithdraw, Moves
  <2>2. /\ c \in Commands /\ a \in Accounts /\ attempts[t] \in [pc : PCs, base : Nat, toBase : Nat]
        /\ b \in Nat /\ b <= Newest(a) /\ seen = View(events[a], b)
    BY CommandOf, ReadIsPrefix
  <2>3. Balance(View(events[a], b)) \in Int /\ c.amount \in Nat
    <3>1. /\ Newest(a) \in Nat /\ DOMAIN events[a] = 1 .. Newest(a)
          /\ \A v \in 1 .. Newest(a) : events[a][v].amount \in Nat
      BY <2>2 DEF BankingIInv, Gapless, Covered, AmountsSound
    <3>2. c.amount \in Nat
      BY <2>2 DEF Covered, AmountsSound
    <3> HIDE DEF b, c, a
    <3>. QED  BY <2>2, <3>1, <3>2, BalanceIsInt
  <2>4. CASE Balance(seen) < c.amount
    <3>1. x.pc = "failed"
      BY <2>2, <2>4
    <3>2. PutIsCovered(t[1], x)
      BY <3>1 DEF PutIsCovered
    <3> HIDE DEF x
    <3>. QED  BY <2>1, <3>2, ReadKeepsCovered
  <2>5. CASE ~ (Balance(seen) < c.amount)
    <3>1. x.base = b
      BY <2>2, <2>5
    <3>2. Balance(View(events[a], b)) >= c.amount
      <4> HIDE DEF b
      <4>. QED  BY <2>2, <2>3, <2>5
    <3>3. PutIsCovered(t[1], x)
      <4> HIDE DEF x, b
      <4>. QED  BY <3>1, <3>2 DEF PutIsCovered
    <3> HIDE DEF x
    <3>. QED  BY <2>1, <3>3, ReadKeepsCovered
  <2>. QED  BY <2>4, <2>5
<1>4. ASSUME NEW t \in Attempts, Conflict(t) \/ SnapshotFails(t) \/ Die(t)
      PROVE  Covered'
  <2>1. Goto(t, "failed") /\ events' = events /\ "failed" \in PCs
    BY <1>4 DEF Conflict, SnapshotFails, Die, PCs
  <2>2. PICK x : Moves(t, x) /\ x.pc = "failed"
    BY <2>1, GotoMoves
  <2>3. PutIsCovered(t[1], x)
    BY <2>2 DEF PutIsCovered
  <2>. QED  BY <2>1, <2>2, <2>3, ReadKeepsCovered
<1>5. ASSUME NEW t \in Attempts, PutConditionally(t)
      PROVE  Covered'
  <2> DEFINE c == t[1]
             a == c.account
             b == attempts[t].base
             e == EventOf(c)
             pc == IF c.kind = "deposit" /\ (b + 1) % SnapshotEvery = 0
                   THEN "snapshot" ELSE "stored"
  <2>1. /\ c \in Commands /\ a \in Accounts /\ Sound(c, attempts[t])
        /\ attempts[t] \in [pc : PCs, base : Nat, toBase : Nat]
    BY CommandOf
  <2>2. /\ attempts[t].pc = "put" /\ b + 1 \notin DOMAIN events[a] /\ PutsAt(a, b, e)
        /\ Goto(t, pc) /\ pc \in PCs /\ pc # "put"
    BY <1>5 DEF PutConditionally, KeyIsFree, PutsAt, PCs
  <2>3. PICK x : Moves(t, x) /\ x.pc = pc
    BY <2>2, GotoMoves
  <2>4. /\ c.kind \in {"deposit", "withdraw"} /\ b \in Nat /\ b <= Newest(a) /\ c.amount \in Nat
    BY <2>1, <2>2 DEF Sound, PutIsSound, Covered, AmountsSound
  <2>5. /\ e.amount = c.amount
        /\ c.kind = "deposit" => Change(e) = c.amount
        /\ c.kind = "withdraw" => Change(e) = - c.amount
    BY <2>4 DEF EventOf, Deposited, Withdrawn, Change
  <2>6. /\ Newest(a) \in Nat /\ DOMAIN events[a] = 1 .. Newest(a)
        /\ \A v \in 1 .. Newest(a) : events[a][v].amount \in Nat
    BY <2>1 DEF BankingIInv, Gapless, Covered, AmountsSound
  <2>7. Balance(View(events[a], b)) \in Int /\ (b = 0 => Balance(View(events[a], b)) = 0)
    <3> HIDE DEF a, b
    <3>. QED  BY <2>4, <2>6, BalanceIsInt
  <2>8. ASSUME a \in Untransferred PROVE Balance(View(events[a], b)) + Change(e) >= 0
    <3>1. Balance(View(events[a], b)) >= 0
      <4>1. b # 0 => b \in DOMAIN events[a]
        BY <2>4, <2>6
      <4>2. b # 0 => Balance(View(events[a], b)) >= 0
        BY <2>8, <4>1 DEF Covered, BalanceNeverNegative
      <4>. QED  BY <2>7, <4>2
    <3>2. c.kind = "withdraw" => Balance(View(events[a], b)) >= c.amount
      BY <2>2, <2>8 DEF Covered, PutIsCovered
    <3> HIDE DEF a, b, c, e
    <3>. QED  BY <2>4, <2>5, <2>7, <3>1, <3>2
  <2> HIDE DEF a, b, e, pc
  <2>. QED  BY <2>1, <2>2, <2>3, <2>4, <2>5, <2>8, PutKeepsCovered
<1>6. ASSUME NEW t \in Attempts, PutWithdrawal(t)
      PROVE  Covered'
  <2> DEFINE c == t[1]
             a == c.account
             b == attempts[t].base
             e == Withdrawn(c.amount, WithdrawKey(c))
  <2>1. /\ c \in Commands /\ a \in Accounts /\ Sound(c, attempts[t])
        /\ attempts[t] \in [pc : PCs, base : Nat, toBase : Nat]
    BY CommandOf
  <2>2. attempts[t].pc = "putFrom" /\ PutsAt(a, b, e) /\ Goto(t, "putTo") /\ "putTo" \in PCs
    BY <1>6 DEF PutWithdrawal, PutsAt, PCs
  <2>3. PICK x : Moves(t, x) /\ x.pc = "putTo"
    BY <2>2, GotoMoves
  <2>4. c.kind = "transfer" /\ b \in Nat /\ b <= Newest(a) /\ c.amount \in Nat
    BY <2>1, <2>2 DEF Sound, TransferIsSound, Covered, AmountsSound
  <2>5. e.amount \in Nat /\ a \notin Untransferred
    BY <2>1, <2>4 DEF Withdrawn, Untransferred
  <2> HIDE DEF a, b, e
  <2>. QED  BY <2>1, <2>2, <2>3, <2>4, <2>5, PutKeepsCovered
<1>7. ASSUME NEW t \in Attempts, PutDeposit(t)
      PROVE  Covered'
  <2> DEFINE c == t[1]
             a == c.to
             b == attempts[t].toBase
             e == Deposited(c.amount, DepositKey(c))
  <2>1. /\ c \in Commands /\ a \in Accounts /\ Sound(c, attempts[t])
        /\ attempts[t] \in [pc : PCs, base : Nat, toBase : Nat]
    BY CommandOf
  <2>2. attempts[t].pc = "putTo" /\ PutsAt(a, b, e) /\ Goto(t, "stored") /\ "stored" \in PCs
    BY <1>7 DEF PutDeposit, PutsAt, PCs
  <2>3. PICK x : Moves(t, x) /\ x.pc = "stored"
    BY <2>2, GotoMoves
  <2>4. c.kind = "transfer" /\ b \in Nat /\ b <= Newest(a) /\ c.amount \in Nat
    BY <2>1, <2>2 DEF Sound, TransferIsSound, Covered, AmountsSound
  <2>5. e.amount \in Nat /\ a \notin Untransferred
    BY <2>1, <2>4 DEF Deposited, Untransferred
  <2> HIDE DEF a, b, e
  <2>. QED  BY <2>1, <2>2, <2>3, <2>4, <2>5, PutKeepsCovered
<1>. QED  BY <1>1, <1>2, <1>3, <1>4, <1>5, <1>6, <1>7 DEF Next

\* The types follow from the invariant.
LEMMA BankingTypes == BankingIInv => TypeOK
<1> SUFFICES ASSUME BankingIInv PROVE TypeOK
  OBVIOUS
<1>1. \A a \in Accounts : Newest(a) \in Nat /\ DOMAIN events[a] = 1 .. Newest(a)
  BY DEF BankingIInv, Gapless
<1>2. \A a \in Accounts : NoGaps(DOMAIN events[a]) /\ 0 \notin DOMAIN events[a]
  BY <1>1 DEF NoGaps
<1>. QED  BY <1>2 DEF TypeOK, BankingIInv, Sound

--------------------------------------------------------------------------------
\* The invariant holds for any accounts, workloads and attempts.
THEOREM Invariance == Spec => []BankingIInv
BY InitBanking, NextBanking, PTL DEF Spec

\* However the attempts interleave, versions have no gap (put_item at the version read
\* plus one) and attempts keep their types.
THEOREM TypeCorrect == Spec => []TypeOK
BY BankingTypes, Invariance, PTL

\* handle_deposit never deposits into a closed account, however stale the status it
\* checks, as long as no transfer touches the account.
THEOREM ClosedStaysClosed == Spec => []NoDepositAfterClosing
<1>1. BankingIInv => NoDepositAfterClosing
  BY DEF BankingIInv
<1>. QED  BY <1>1, Invariance, PTL

\* A client that was told its deposit or withdrawal is stored, or a duplicate, finds it
\* for ever; and the second put of handle_transfer never stands without the first.
THEOREM NothingGetsLost == Spec => []NothingIsLost
<1>1. BankingIInv => AcknowledgedIsStored
  BY DEF BankingIInv, Sound, AnswerIsSound, AcknowledgedIsStored
<1>2. BankingIInv => DebitComesFirst
  BY DEF BankingIInv
<1>3. BankingIInv => NothingIsLost
  BY <1>1, <1>2 DEF NothingIsLost
<1>. QED  BY <1>3, Invariance, PTL

\* No step removes an event, and only the puts of handle_transfer replace one: the
\* condition of the others holds however stale the version they were decided on.
THEOREM EventsStay == Spec => AppendOnly
<1> DEFINE Kept == \A a \in Accounts : \A v \in DOMAIN events[a] :
               /\ v \in DOMAIN events'[a]
               /\ \/ events'[a][v] = events[a][v]
                  \/ \E t \in Attempts : (a = t[1].account /\ PutWithdrawal(t))
                                        \/ (a = t[1].to /\ PutDeposit(t))
<1>1. BankingIInv /\ [Next]_vars => [Kept]_vars
  <2> SUFFICES ASSUME BankingIInv, Next PROVE Kept
    BY DEF vars
  <2>1. PICK t \in Attempts :
            \/ events' = events
            \/ PutConditionally(t) \/ PutWithdrawal(t) \/ PutDeposit(t)
    BY DEF Next, CheckDuplicate, LoadForDeposit, LoadForWithdraw, LoadSource, LoadTarget,
           Conflict, SnapshotFails, Die
  <2>2. t[1].account \in Accounts /\ t[1].to \in Accounts /\ DOMAIN events = Accounts
    BY CommandOf DEF BankingIInv, Gapless
  <2>3. CASE events' = events
    BY <2>3
  <2>4. CASE PutConditionally(t)
    BY <2>2, <2>4 DEF PutConditionally, KeyIsFree, WithItem
  <2>5. CASE PutWithdrawal(t)
    <3> DEFINE e == Withdrawn(t[1].amount, WithdrawKey(t[1]))
    <3>1. events' = [events EXCEPT ![t[1].account] = WithItem(@, attempts[t].base + 1, e)]
      BY <2>5 DEF PutWithdrawal
    <3> HIDE DEF e
    <3>. QED  BY <2>2, <2>5, <3>1 DEF WithItem
  <2>6. CASE PutDeposit(t)
    <3> DEFINE e == Deposited(t[1].amount, DepositKey(t[1]))
    <3>1. events' = [events EXCEPT ![t[1].to] = WithItem(@, attempts[t].toBase + 1, e)]
      BY <2>6 DEF PutDeposit
    <3> HIDE DEF e
    <3>. QED  BY <2>2, <2>6, <3>1 DEF WithItem
  <2>. QED  BY <2>1, <2>3, <2>4, <2>5, <2>6
<1>. QED  BY <1>1, Invariance, PTL DEF Spec, AppendOnly

\* The Withdrawals of handle_withdraw never overdraw.
THEOREM HistoriesLegal == Spec => []HistoriesAreLegal
<1>1. BankingIInv /\ Covered => HistoriesAreLegal
  BY DEF BankingIInv, Covered, HistoriesAreLegal
<1>. QED  BY <1>1, InitBanking, NextBanking, InitCovered, NextCovered, PTL DEF Spec

--------------------------------------------------------------------------------
(* Inventory: what is available is a sum of what commands moved.               *)

\* What a command adds to the sums of its kind.
Quantities(U) == [c \in U |-> c.quantity]
MovedBy(k, kind, cs) == {c \in cs : c.key = k /\ c.kind = kind}

\* What commands moved is a sum.
LEMMA MovedIs ==
    ASSUME NEW U, IsFiniteSet(U), NEW cs \in SUBSET U, NEW k, NEW kind
    PROVE  Inv!Moved(k, kind, cs) = Total(Quantities(U), MovedBy(k, kind, cs))
<1> DEFINE D == MovedBy(k, kind, cs)
           Sums(g) == g = [s \in SUBSET D |->
               IF s = {} THEN 0
               ELSE (CHOOSE x \in s : TRUE).quantity + g[s \ {CHOOSE x \in s : TRUE}]]
<1>1. D \in SUBSET U /\ IsFiniteSet(D)
  <2>1. D \in SUBSET U
    BY DEF MovedBy
  <2> HIDE DEF D
  <2>. QED  BY <2>1, FS_Subset
<1>2. ASSUME NEW g PROVE Sums(g) <=> SumsOver(Quantities(U), D, g)
  <2>1. \A s \in SUBSET D : s # {} => (CHOOSE x \in s : TRUE) \in U
    BY <1>1
  <2>2. \A x \in U : Quantities(U)[x] = x.quantity
    BY DEF Quantities
  <2> HIDE DEF D
  <2>. QED  BY <2>1, <2>2, Zenon DEF SumsOver, Picked
<1>3. \E g : Sums(g)
  <2>1. PICK g : SumsOver(Quantities(U), D, g)
    BY <1>1, SumsExist
  <2> HIDE DEF Sums, D
  <2>. QED  BY <1>2, <2>1
<1>4. \E g : Sums(g) /\ Inv!Moved(k, kind, cs) = g[D]
  BY <1>3, Zenon DEF Inv!Moved, Inv!MapThenSumSet, Inv!MapThenFoldSet, MovedBy
<1>5. PICK g : SumsOver(Quantities(U), D, g) /\ Inv!Moved(k, kind, cs) = g[D]
  BY <1>2, <1>4
<1> HIDE DEF D
<1>6. g[D] = Total(Quantities(U), D)
  BY <1>1, <1>5, TotalIs
<1>. QED  BY <1>5, <1>6 DEF D

\* One more command moves its quantity, of its key and in its way.
LEMMA MovedAdd ==
    ASSUME NEW U, IsFiniteSet(U), \A c \in U : c.quantity \in Nat,
           NEW cs \in SUBSET U, NEW k, NEW kind, NEW c \in U
    PROVE  /\ Inv!Moved(k, kind, cs) \in Int
           /\ Inv!Moved(k, kind, {}) = 0
           /\ c \notin cs => Inv!Moved(k, kind, cs \cup {c})
                  = Inv!Moved(k, kind, cs) + (IF c.key = k /\ c.kind = kind THEN c.quantity ELSE 0)
<1> DEFINE D == MovedBy(k, kind, cs)
           E == MovedBy(k, kind, cs \cup {c})
           f == Quantities(U)
<1>1. /\ D \in SUBSET U /\ E \in SUBSET U /\ MovedBy(k, kind, {}) = {}
      /\ IF c.key = k /\ c.kind = kind THEN E = D \cup {c} ELSE E = D
      /\ c \notin cs => c \notin D
  BY DEF MovedBy
<1>2. cs \in SUBSET U /\ cs \cup {c} \in SUBSET U /\ {} \in SUBSET U
  OBVIOUS
<1>3. /\ Inv!Moved(k, kind, cs) = Total(f, D)
      /\ Inv!Moved(k, kind, cs \cup {c}) = Total(f, E)
      /\ Inv!Moved(k, kind, {}) = Total(f, {})
  <2>1. ASSUME NEW ds \in SUBSET U PROVE Inv!Moved(k, kind, ds) = Total(f, MovedBy(k, kind, ds))
    BY MovedIs
  <2> HIDE DEF f
  <2>. QED  BY <1>1, <1>2, <2>1
<1>4. \A x \in U : f[x] \in Int /\ f[x] = x.quantity
  BY DEF Quantities
<1> HIDE DEF D, E, f
<1>5. IsFiniteSet(D) /\ IsFiniteSet(E)
  BY <1>1, FS_Subset
<1>6. Total(f, D) \in Int /\ Total(f, {}) = 0
  <2>1. \A x \in D : f[x] \in Int
    BY <1>1, <1>4
  <2>. QED  BY <1>5, <2>1, TotalAdd
<1>7. c \notin cs /\ c.key = k /\ c.kind = kind => Total(f, E) = c.quantity + Total(f, D)
  <2> SUFFICES ASSUME c \notin cs, c.key = k, c.kind = kind
               PROVE  Total(f, E) = c.quantity + Total(f, D)
    OBVIOUS
  <2>1. c \in E /\ E \ {c} = D
    BY <1>1
  <2>2. \A x \in E : f[x] \in Int
    BY <1>1, <1>4
  <2>3. Total(f, E) = f[c] + Total(f, E \ {c})
    BY <1>5, <2>1, <2>2, TotalAdd
  <2>. QED  BY <1>4, <2>1, <2>3
<1>8. c.quantity \in Nat
  OBVIOUS
<1>. QED  BY <1>1, <1>3, <1>6, <1>7, <1>8

\* One more command changes what is available after the commands by what it adds.
LEMMA AvailableAdd ==
    ASSUME NEW U, IsFiniteSet(U), \A c \in U : c.quantity \in Nat,
           \A c \in U : c.kind \in {"reserve", "release", "sale"},
           NEW cs \in SUBSET U, NEW k, Inv!Last(Stock[k]).available \in Int, NEW c \in U
    PROVE  /\ Inv!AvailableAfter(k, cs) \in Int
           /\ Inv!AvailableAfter(k, {}) = Inv!Last(Stock[k]).available
           /\ c \notin cs /\ c.key = k => Inv!AvailableAfter(k, cs \cup {c})
                  = Inv!AvailableAfter(k, cs) + Inv!AvailableDelta(c)
<1> DEFINE first == Inv!Last(Stock[k]).available
           r == Inv!Moved(k, "reserve", cs)
           s == Inv!Moved(k, "release", cs)
           more(kind) == IF c.key = k /\ c.kind = kind THEN c.quantity ELSE 0
<1>1. ASSUME NEW kind
      PROVE  /\ Inv!Moved(k, kind, cs) \in Int /\ Inv!Moved(k, kind, {}) = 0
             /\ c \notin cs => Inv!Moved(k, kind, cs \cup {c}) = Inv!Moved(k, kind, cs) + more(kind)
  <2>1. /\ Inv!Moved(k, kind, cs) \in Int /\ Inv!Moved(k, kind, {}) = 0
        /\ c \notin cs => Inv!Moved(k, kind, cs \cup {c})
               = Inv!Moved(k, kind, cs) + (IF c.key = k /\ c.kind = kind THEN c.quantity ELSE 0)
    <3>1. /\ IsFiniteSet(U) /\ \A x \in U : x.quantity \in Nat
          /\ cs \in SUBSET U /\ c \in U
      OBVIOUS
    <3>. QED  BY ONLY <3>1, MovedAdd
  <2>. QED  BY <2>1
<1>2. /\ r \in Int /\ Inv!Moved(k, "reserve", {}) = 0
      /\ s \in Int /\ Inv!Moved(k, "release", {}) = 0
      /\ c \notin cs => /\ Inv!Moved(k, "reserve", cs \cup {c}) = r + more("reserve")
                        /\ Inv!Moved(k, "release", cs \cup {c}) = s + more("release")
  <2> HIDE DEF more
  <2>. QED  BY <1>1
<1>3. /\ Inv!AvailableAfter(k, cs) = first - r + s
      /\ Inv!AvailableAfter(k, {}) = first - Inv!Moved(k, "reserve", {}) + Inv!Moved(k, "release", {})
      /\ Inv!AvailableAfter(k, cs \cup {c})
             = first - Inv!Moved(k, "reserve", cs \cup {c}) + Inv!Moved(k, "release", cs \cup {c})
  BY DEF Inv!AvailableAfter
<1>4. /\ c.kind = "reserve" => Inv!AvailableDelta(c) = - c.quantity
      /\ c.kind = "release" => Inv!AvailableDelta(c) = c.quantity
      /\ c.kind = "sale" => Inv!AvailableDelta(c) = 0
      /\ c.kind \in {"reserve", "release", "sale"} /\ c.quantity \in Nat
  BY DEF Inv!AvailableDelta
<1>5. more("release") - more("reserve") = IF c.key = k THEN Inv!AvailableDelta(c) ELSE 0
  BY <1>4
<1>6. first \in Int /\ more("release") \in Int /\ more("reserve") \in Int
  BY <1>4
<1> HIDE DEF first, r, s, more
<1>7. Inv!AvailableAfter(k, cs) \in Int /\ Inv!AvailableAfter(k, {}) = first
  BY <1>2, <1>3, <1>6
<1>8. ASSUME c \notin cs
      PROVE  Inv!AvailableAfter(k, cs \cup {c})
                 = Inv!AvailableAfter(k, cs) + (more("release") - more("reserve"))
  BY <1>2, <1>3, <1>6, <1>8
<1>9. ASSUME c \notin cs, c.key = k
      PROVE  Inv!AvailableAfter(k, cs \cup {c}) = Inv!AvailableAfter(k, cs) + Inv!AvailableDelta(c)
  BY <1>5, <1>8, <1>9
<1>. QED  BY <1>7, <1>9 DEF first

\* Commands on other keys make no difference.
LEMMA AvailableKept ==
    ASSUME NEW U, IsFiniteSet(U), NEW k, NEW cs \in SUBSET U, NEW ds \in SUBSET U,
           \A d \in U : d.key = k => (d \in cs <=> d \in ds)
    PROVE  Inv!AvailableAfter(k, cs) = Inv!AvailableAfter(k, ds)
<1>1. ASSUME NEW kind PROVE Inv!Moved(k, kind, cs) = Inv!Moved(k, kind, ds)
  <2>1. MovedBy(k, kind, cs) = MovedBy(k, kind, ds)
    BY DEF MovedBy
  <2>2. /\ Inv!Moved(k, kind, cs) = Total(Quantities(U), MovedBy(k, kind, cs))
        /\ Inv!Moved(k, kind, ds) = Total(Quantities(U), MovedBy(k, kind, ds))
    BY MovedIs
  <2>. QED  BY <2>1, <2>2
<1>. QED  BY <1>1 DEF Inv!AvailableAfter

\* A replica of a stock level returns one of its rows, the last one if it does not lag.
LEMMA LevelIsRead ==
    ASSUME NEW k \in Keys, rows \in [Keys -> Seq([available : Int, reserved : Int])], NEW lag \in Nat
    PROVE  /\ Inv!StockLevel(k, lag) \in Int
           /\ rows[k] # << >> => /\ Inv!Level(k) \in [available : Int, reserved : Int]
                                 /\ lag = 0 => Inv!StockLevel(k, lag) = Inv!Level(k).available
<1> DEFINE n == Len(rows[k])
           i == Inv!Max({1, n - lag})
<1>1. rows[k] \in Seq([available : Int, reserved : Int]) /\ n \in Nat
  OBVIOUS
<1>2. CASE rows[k] = << >>
  BY <1>2 DEF Inv!StockLevel
<1>3. CASE rows[k] # << >>
  <2>1. n >= 1
    BY <1>1, <1>3
  <2>2. i = IF n - lag >= 1 THEN n - lag ELSE 1
    <3> DEFINE m == IF n - lag >= 1 THEN n - lag ELSE 1
    <3> HIDE DEF n
    <3>1. m \in {1, n - lag} /\ (\A y \in {1, n - lag} : m >= y) /\ m \in Int
      BY <1>1
    <3>2. \A x \in {1, n - lag} : (\A y \in {1, n - lag} : x >= y) => x = m
      BY <1>1
    <3> HIDE DEF m
    <3>3. i = m
      BY <3>1, <3>2 DEF Inv!Max
    <3>. QED  BY <3>3 DEF m
  <2>3. i \in 1 .. n /\ (lag = 0 => i = n)
    <3> HIDE DEF n, i
    <3>. QED  BY <1>1, <2>1, <2>2
  <2>4. Inv!StockLevel(k, lag) = rows[k][i].available
    BY <1>3 DEF Inv!StockLevel
  <2>5. /\ rows[k][i] \in [available : Int, reserved : Int]
        /\ rows[k][n] \in [available : Int, reserved : Int]
    <3>1. \A j \in 1 .. n : rows[k][j] \in [available : Int, reserved : Int]
      BY <1>1, ElementOfSeq
    <3>2. n \in 1 .. n
      BY <1>1, <2>1
    <3> HIDE DEF n, i
    <3>. QED  BY <2>3, <3>1, <3>2
  <2>6. Inv!Level(k) = rows[k][n] /\ rows[k][n] \in [available : Int, reserved : Int]
    BY <1>1, <2>5 DEF Inv!Level, Inv!Last
  <2> HIDE DEF i, n
  <2>. QED  BY <2>3, <2>4, <2>5, <2>6
<1>. QED  BY <1>2, <1>3

\* The operators on versioned items are those of Inventory.
LEMMA SameItems ==
    ASSUME NEW h, NEW k, NEW e
    PROVE  /\ Inv!CurrentVersion(h) = CurrentVersion(h) /\ Inv!View(h, k) = View(h, k)
           /\ Inv!WithItem(h, k, e) = WithItem(h, k, e)
BY DEF Inv!CurrentVersion, CurrentVersion, Inv!View, View, Inv!WithItem, WithItem

\* A replica that lags behind returns a version that there was, the last one if it does
\* not lag.
LEMMA VersionIsRead ==
    ASSUME NEW n \in Nat, NEW h, DOMAIN h = 1 .. n, NEW lag \in Nat
    PROVE  /\ Inv!CurrentVersion(h) = n
           /\ LET b == Inv!CurrentVersion(Inv!View(h, Inv!CurrentVersion(h) - lag)) IN
              b \in Nat /\ b <= n /\ (lag = 0 => b = n)
<1>1. Inv!CurrentVersion(h) = n
  BY SameItems, CurrentVersionIsLength
<1> DEFINE m == IF n - lag >= 0 THEN n - lag ELSE 0
           p == View(h, n - lag)
<1>2. DOMAIN p = 1 .. m /\ m \in Nat /\ m <= n /\ (lag = 0 => m = n)
  BY DEF View
<1> HIDE DEF m, p
<1>3. CurrentVersion(p) = m
  BY <1>2, CurrentVersionIsLength
<1>4. Inv!CurrentVersion(Inv!View(h, Inv!CurrentVersion(h) - lag)) = m
  BY <1>1, <1>3, SameItems DEF p
<1>. QED  BY <1>1, <1>2, <1>4

--------------------------------------------------------------------------------
(* What holds of the inventory at once and with every disturbance.             *)
Rows == [available : Int, reserved : Int]
Progress == [pc : Inv!PCs, seen : Int, base : Nat]

StockTypes ==
    /\ use \in Uses
    /\ DOMAIN log = Keys
    /\ \A k \in Keys : /\ Inv!CurrentVersion(log[k]) \in Nat
                       /\ DOMAIN log[k] = 1 .. Inv!CurrentVersion(log[k])
    /\ rows \in [Keys -> Seq(Rows)]
    /\ cmds \in [Inv!Commands -> Progress]
    /\ alerts \subseteq Keys \X Int
    /\ lost \in 0 .. use.lost

\* A put follows a version that there was; rows neither come nor go.
PutsFollow ==
    \A c \in Inv!Commands : cmds[c].pc = "put" => cmds[c].base <= Inv!CurrentVersion(log[c.key])
RowsStay == \A k \in Keys : rows[k] = << >> <=> Stock[k] = << >>

StockIInv == StockTypes /\ PutsFollow /\ RowsStay /\ Inv!NoStockFromNothing /\ Inv!UpdatesAddUp

\* The commands of a use.
LEMMA UseIs ==
    ASSUME StockTypes
    PROVE  /\ IsFiniteSet(Inv!Commands)
           /\ \A c \in Inv!Commands : /\ c.kind \in {"reserve", "release", "sale"}
                                      /\ c.key \in Keys /\ c.quantity \in Nat
           /\ use.concurrent \in Nat /\ use.lag \in Nat /\ use.lost \in Nat
BY UsesAssumption DEF StockTypes, Inv!Commands

\* What a key had at first.
LEMMA FirstIs ==
    ASSUME NEW k \in Keys, Stock[k] # << >>
    PROVE  Inv!Last(Stock[k]) \in Rows /\ Inv!Last(Stock[k]).available >= 0
<1>1. Stock[k] \in Seq(Rows) /\ Len(Stock[k]) \in Nat /\ Len(Stock[k]) # 0
  BY UsesAssumption DEF Rows
<1>2. Len(Stock[k]) \in 1 .. Len(Stock[k])
  BY <1>1
<1>3. Stock[k][Len(Stock[k])] \in Rows
  BY <1>1, <1>2, ElementOfSeq
<1>. QED  BY <1>3, UsesAssumption DEF Inv!Last

\* What an update makes of a row.
LEMMA UpdateIs ==
    ASSUME NEW c, c.kind \in {"reserve", "release", "sale"}, c.quantity \in Nat, NEW r \in Rows
    PROVE  LET q == Inv!Updated(r, c) IN
           /\ q \in Rows /\ Inv!AvailableDelta(c) \in Int
           /\ q.available = r.available + Inv!AvailableDelta(c)
           /\ q.available + q.reserved <= r.available + r.reserved
<1>1. /\ Inv!AvailableDelta(c) \in Int /\ Inv!ReservedDelta(c) \in Int
      /\ Inv!AvailableDelta(c) + Inv!ReservedDelta(c) <= 0
  BY DEF Inv!AvailableDelta, Inv!ReservedDelta
<1>2. r.available \in Int /\ r.reserved \in Int
  BY DEF Rows
<1> DEFINE q == Inv!Updated(r, c)
<1>3. /\ q = [available |-> r.available + Inv!AvailableDelta(c),
              reserved |-> r.reserved + Inv!ReservedDelta(c)]
      /\ q.available = r.available + Inv!AvailableDelta(c)
      /\ q.reserved = r.reserved + Inv!ReservedDelta(c)
  BY DEF Inv!Updated
<1>4. q \in Rows
  <2>1. r.available + Inv!AvailableDelta(c) \in Int /\ r.reserved + Inv!ReservedDelta(c) \in Int
    BY <1>1, <1>2
  <2> HIDE DEF q
  <2>. QED  BY <1>3, <2>1 DEF Rows
<1> HIDE DEF q
<1>5. q.available + q.reserved <= r.available + r.reserved
  BY <1>1, <1>2, <1>3
<1>. QED  BY <1>1, <1>3, <1>4, <1>5 DEF q

\* The update_item of a command on a row.
AddsRow(k, c) == rows' = [rows EXCEPT ![k] = Append(@, Inv!Updated(Inv!Last(@), c))]

\* One more row for a key is its level then, and no other level changes.
LEMMA RowIsAdded ==
    ASSUME rows \in [Keys -> Seq(Rows)], NEW k \in Keys, rows[k] # << >>, NEW c,
           c.kind \in {"reserve", "release", "sale"}, c.quantity \in Nat,
           AddsRow(k, c)
    PROVE  /\ rows' \in [Keys -> Seq(Rows)]
           /\ \A j \in Keys : /\ rows'[j] = << >> <=> rows[j] = << >>
                              /\ j # k => rows'[j] = rows[j]
           /\ Inv!Level(k) \in Rows
           /\ Inv!Level(k)' = Inv!Updated(Inv!Level(k), c)
<1> DEFINE s == rows[k]
           q == Inv!Updated(Inv!Level(k), c)
<1>1. s \in Seq(Rows) /\ Len(s) \in Nat /\ Len(s) # 0
  OBVIOUS
<1>2. Inv!Last(s) = s[Len(s)] /\ Inv!Level(k) = s[Len(s)] /\ s[Len(s)] \in Rows
  <2>1. Len(s) \in 1 .. Len(s)
    BY <1>1
  <2>. QED  BY <1>1, <2>1, ElementOfSeq DEF Inv!Last, Inv!Level
<1>3. q \in Rows
  BY <1>2, UpdateIs
<1>4. rows' = [rows EXCEPT ![k] = Append(s, q)]
  BY <1>2 DEF AddsRow
<1> HIDE DEF q, s
<1>5. Append(s, q) \in Seq(Rows) /\ Len(Append(s, q)) = Len(s) + 1 /\ Append(s, q)[Len(s) + 1] = q
  BY <1>1, <1>3, AppendProperties
<1>6. Append(s, q) # << >>
  BY <1>1, <1>5
<1>7. rows' \in [Keys -> Seq(Rows)] /\ rows'[k] = Append(s, q) /\ \A j \in Keys : j # k => rows'[j] = rows[j]
  BY <1>4, <1>5
<1>8. \A j \in Keys : rows'[j] = << >> <=> rows[j] = << >>
  BY <1>6, <1>7 DEF s
<1>9. Inv!Level(k)' = q
  BY <1>5, <1>7 DEF Inv!Level, Inv!Last
<1>. QED  BY <1>2, <1>7, <1>8, <1>9 DEF q

--------------------------------------------------------------------------------
(* A step moves one command.                                                   *)
CommandMoves(c, x) == use' = use /\ cmds' = [cmds EXCEPT ![c] = x]

\* The other commands stay where they are.
LEMMA OthersStay ==
    ASSUME StockTypes, NEW c \in Inv!Commands, NEW x \in Progress, CommandMoves(c, x)
    PROVE  /\ Inv!Commands' = Inv!Commands
           /\ cmds' \in [Inv!Commands -> Progress]
           /\ cmds'[c] = x
           /\ \A d \in Inv!Commands : d # c => cmds'[d] = cmds[d]
<1>1. cmds \in [Inv!Commands -> Progress]
  BY DEF StockTypes
<1>. QED  BY <1>1 DEF CommandMoves, Inv!Commands

\* Going on to the next call of the handler.
LEMMA GotoMovesCommand ==
    ASSUME StockTypes, NEW c \in Inv!Commands, NEW pc \in Inv!PCs, Inv!Goto(c, pc), use' = use
    PROVE  LET x == [cmds[c] EXCEPT !.pc = pc] IN
           /\ x \in Progress /\ CommandMoves(c, x)
           /\ x.pc = pc /\ x.seen = cmds[c].seen /\ x.base = cmds[c].base
<1>1. cmds[c] \in Progress
  BY DEF StockTypes
<1>2. [cmds EXCEPT ![c].pc = pc] = [cmds EXCEPT ![c] = [cmds[c] EXCEPT !.pc = pc]]
  OBVIOUS
<1>. QED  BY <1>1, <1>2 DEF Inv!Goto, CommandMoves, Progress

\* A step that changes no row and completes no command, but may make it fail.
LEMMA RowsUntouched ==
    ASSUME StockIInv, NEW c \in Inv!Commands, NEW x \in Progress, CommandMoves(c, x),
           rows' = rows, lost' = lost, cmds[c].pc # "failed",
           x.pc # "failed" => (x.pc \in {"alert", "done"} <=> cmds[c].pc \in {"alert", "done"})
    PROVE  RowsStay' /\ Inv!NoStockFromNothing' /\ Inv!UpdatesAddUp'
<1>1. /\ Inv!Commands' = Inv!Commands /\ cmds'[c] = x
      /\ \A d \in Inv!Commands : d # c => cmds'[d] = cmds[d]
  BY OthersStay DEF StockIInv
<1>2. Inv!HasRow' = Inv!HasRow /\ \A k \in Keys : Inv!Level(k)' = Inv!Level(k)
  BY DEF Inv!HasRow, Inv!Level
<1>3. RowsStay' /\ Inv!NoStockFromNothing'
  BY <1>2 DEF StockIInv, RowsStay, Inv!NoStockFromNothing, Inv!HasRow
<1>4. Inv!UpdatesAddUp'
  <2> SUFFICES ASSUME lost = 0, \A d \in Inv!Commands : cmds'[d].pc # "failed", NEW k \in Inv!HasRow
               PROVE  Inv!Level(k).available = Inv!AvailableAfter(k, Inv!Through')
    BY <1>1, <1>2 DEF Inv!UpdatesAddUp, Inv!HasRow
  <2>1. \A d \in Inv!Commands : cmds[d].pc # "failed"
    BY <1>1
  <2>2. Inv!Through' = Inv!Through
    BY <1>1 DEF Inv!Through
  <2>. QED  BY <2>1, <2>2 DEF StockIInv, Inv!UpdatesAddUp
<1>. QED  BY <1>3, <1>4

\* The checks and reads of a command.
LEMMA StockReads ==
    ASSUME StockIInv, NEW c \in Inv!Commands, NEW lag \in 0 .. use.lag, use' = use,
           Inv!CheckStock(c, lag) \/ Inv!GetVersion(c, lag)
    PROVE  StockIInv'
<1>1. /\ c.key \in Keys /\ lag \in Nat /\ cmds[c] \in Progress
      /\ rows \in [Keys -> Seq(Rows)] /\ log[c.key] = log[c.key]
      /\ Inv!CurrentVersion(log[c.key]) \in Nat
      /\ DOMAIN log[c.key] = 1 .. Inv!CurrentVersion(log[c.key])
  BY UseIs DEF StockIInv, StockTypes
<1> DEFINE seen == Inv!StockLevel(c.key, lag)
           base == Inv!CurrentVersion(Inv!View(log[c.key], Inv!CurrentVersion(log[c.key]) - lag))
           x == IF Inv!CheckStock(c, lag)
                THEN IF seen < c.quantity THEN [cmds[c] EXCEPT !.pc = "refused"]
                     ELSE [cmds[c] EXCEPT !.pc = "version", !.seen = seen]
                ELSE [cmds[c] EXCEPT !.pc = "put", !.base = base]
<1>2. seen \in Int
  BY <1>1, LevelIsRead DEF Rows
<1>3. base \in Nat /\ base <= Inv!CurrentVersion(log[c.key])
  BY <1>1, VersionIsRead
<1>4. CommandMoves(c, x) /\ UNCHANGED <<log, rows, alerts, lost>>
  BY DEF CommandMoves, Inv!CheckStock, Inv!GetVersion
<1>5. cmds[c].pc \in {"new", "version"}
  BY DEF Inv!CheckStock, Inv!GetVersion, Inv!MayBegin
<1> HIDE DEF base, seen
<1>6. /\ x \in Progress /\ x.pc \in {"refused", "version", "put"}
      /\ x.pc = "put" => x.base = base
  BY <1>1, <1>2, <1>3 DEF Progress, Inv!PCs
<1> HIDE DEF x
<1>7. /\ Inv!Commands' = Inv!Commands /\ cmds' \in [Inv!Commands -> Progress] /\ cmds'[c] = x
      /\ \A d \in Inv!Commands : d # c => cmds'[d] = cmds[d]
  BY <1>4, <1>6, OthersStay DEF StockIInv
<1>8. StockTypes'
  BY <1>4, <1>7 DEF StockIInv, StockTypes
<1>9. PutsFollow'
  <2>1. \A d \in Inv!Commands : cmds'[d].pc = "put" => cmds'[d].base <= Inv!CurrentVersion(log[d.key])
    BY <1>3, <1>6, <1>7 DEF StockIInv, PutsFollow
  <2>. QED  BY <1>4, <1>7, <2>1 DEF PutsFollow
<1>. QED  BY <1>4, <1>5, <1>6, <1>8, <1>9, RowsUntouched DEF StockIInv

\* The put of an event without a condition.
LEMMA StockPut ==
    ASSUME StockIInv, NEW c \in Inv!Commands, use' = use, Inv!PutEvent(c)
    PROVE  StockIInv'
<1> DEFINE k == c.key
           b == cmds[c].base
           h == Inv!WithItem(log[k], b + 1, c)
<1>1. /\ k \in Keys /\ cmds[c] \in Progress /\ DOMAIN log = Keys
      /\ Inv!CurrentVersion(log[k]) \in Nat
      /\ DOMAIN log[k] = 1 .. Inv!CurrentVersion(log[k])
      /\ cmds[c].pc = "put" /\ b \in Nat /\ b <= Inv!CurrentVersion(log[k])
  BY UseIs DEF StockIInv, StockTypes, PutsFollow, Progress, Inv!PutEvent
<1>2. /\ log' = [log EXCEPT ![k] = h] /\ Inv!Goto(c, "update")
      /\ UNCHANGED <<rows, alerts, lost>> /\ "update" \in Inv!PCs
  BY DEF Inv!PutEvent, Inv!PCs
<1>3. /\ DOMAIN h = 1 .. Inv!CurrentVersion(h) /\ Inv!CurrentVersion(h) \in Nat
      /\ Inv!CurrentVersion(log[k]) <= Inv!CurrentVersion(h)
  <2>1. /\ DOMAIN h = 1 .. CurrentVersion(h) /\ CurrentVersion(h) \in Nat
        /\ Inv!CurrentVersion(log[k]) <= CurrentVersion(h)
    <3>1. h = WithItem(log[k], b + 1, c)
      BY SameItems
    <3> HIDE DEF h, k, b
    <3>. QED  BY <1>1, <3>1, PutLeavesNoGap
  <2> HIDE DEF h
  <2>. QED  BY <2>1, SameItems
<1> HIDE DEF h, b
<1>4. DOMAIN log' = Keys /\ log'[k] = h /\ \A j \in Keys : j # k => log'[j] = log[j]
  BY <1>1, <1>2
<1>5. PICK x \in Progress : CommandMoves(c, x) /\ x.pc = "update"
  <2> DEFINE y == [cmds[c] EXCEPT !.pc = "update"]
  <2>1. y \in Progress /\ CommandMoves(c, y) /\ y.pc = "update"
    BY <1>2, GotoMovesCommand DEF StockIInv
  <2> HIDE DEF y
  <2>. QED  BY <2>1
<1>6. /\ Inv!Commands' = Inv!Commands /\ cmds' \in [Inv!Commands -> Progress] /\ cmds'[c] = x
      /\ \A d \in Inv!Commands : d # c => cmds'[d] = cmds[d]
  BY <1>5, OthersStay DEF StockIInv
<1>7. \A j \in Keys : /\ Inv!CurrentVersion(log'[j]) \in Nat
                      /\ DOMAIN log'[j] = 1 .. Inv!CurrentVersion(log'[j])
                      /\ Inv!CurrentVersion(log[j]) \in Nat
                      /\ Inv!CurrentVersion(log[j]) <= Inv!CurrentVersion(log'[j])
  BY <1>1, <1>3, <1>4 DEF StockIInv, StockTypes
<1>8. StockTypes'
  BY <1>2, <1>4, <1>6, <1>7 DEF StockIInv, StockTypes
<1>9. PutsFollow'
  <2>1. ASSUME NEW d \in Inv!Commands, cmds'[d].pc = "put"
        PROVE  cmds'[d].base <= Inv!CurrentVersion(log'[d.key])
    <3>1. cmds'[d] = cmds[d] /\ d.key \in Keys /\ cmds[d].base \in Nat
      BY <1>5, <1>6, <2>1, UseIs DEF StockIInv, StockTypes, Progress
    <3>2. cmds[d].base <= Inv!CurrentVersion(log[d.key])
      BY <2>1, <3>1 DEF StockIInv, PutsFollow
    <3>. QED  BY <1>7, <3>1, <3>2
  <2>. QED  BY <1>6, <2>1 DEF PutsFollow
<1>. QED  BY <1>1, <1>2, <1>5, <1>8, <1>9, RowsUntouched DEF StockIInv

\* A command that fails, and one that sends its alert.
LEMMA StockFails ==
    ASSUME StockIInv, NEW c \in Inv!Commands, use' = use,
           Inv!UpdateFails(c) \/ Inv!SendLowStockAlert(c) \/ Inv!Die(c)
    PROVE  StockIInv'
<1>1. PICK pc \in Inv!PCs : /\ Inv!Goto(c, pc) /\ pc \in {"failed", "done"}
                            /\ pc = "done" => cmds[c].pc = "alert"
  BY DEF Inv!UpdateFails, Inv!SendLowStockAlert, Inv!Die, Inv!PCs
<1>2. /\ UNCHANGED <<log, rows, lost>> /\ cmds[c].pc # "failed"
      /\ alerts' = alerts \/ alerts' = alerts \cup {<<c.key, Inv!NewStock(c)>>}
  BY DEF Inv!UpdateFails, Inv!SendLowStockAlert, Inv!Die, Inv!Running
<1>3. PICK x \in Progress : CommandMoves(c, x) /\ x.pc = pc
  <2> DEFINE y == [cmds[c] EXCEPT !.pc = pc]
  <2>1. y \in Progress /\ CommandMoves(c, y) /\ y.pc = pc
    BY <1>1, GotoMovesCommand DEF StockIInv
  <2> HIDE DEF y
  <2>. QED  BY <2>1
<1>4. /\ Inv!Commands' = Inv!Commands /\ cmds' \in [Inv!Commands -> Progress] /\ cmds'[c] = x
      /\ \A d \in Inv!Commands : d # c => cmds'[d] = cmds[d]
  BY <1>3, OthersStay DEF StockIInv
<1>5. alerts' \subseteq Keys \X Int
  <2>1. c.key \in Keys /\ c.quantity \in Nat /\ cmds[c].seen \in Int
    BY UseIs DEF StockIInv, StockTypes, Progress
  <2>2. Inv!NewStock(c) \in Int
    BY <2>1 DEF Inv!NewStock
  <2>. QED  BY <1>2, <2>1, <2>2 DEF StockIInv, StockTypes
<1>6. StockTypes'
  BY <1>2, <1>3, <1>4, <1>5 DEF StockIInv, StockTypes, CommandMoves
<1>7. PutsFollow'
  <2>1. \A d \in Inv!Commands : cmds'[d].pc = "put" => cmds'[d].base <= Inv!CurrentVersion(log[d.key])
    BY <1>1, <1>3, <1>4 DEF StockIInv, PutsFollow
  <2>. QED  BY <1>2, <1>4, <2>1 DEF PutsFollow
<1>. QED  BY <1>1, <1>2, <1>3, <1>6, <1>7, RowsUntouched DEF StockIInv

\* The update of the view, acknowledged or not.
LEMMA StockUpdate ==
    ASSUME StockIInv, NEW c \in Inv!Commands, use' = use,
           Inv!UpdateView(c) \/ Inv!UpdateUnacknowledged(c)
    PROVE  StockIInv'
<1> DEFINE k == c.key
<1>1. /\ k \in Keys /\ c.kind \in {"reserve", "release", "sale"} /\ c.quantity \in Nat
      /\ IsFiniteSet(Inv!Commands) /\ StockTypes /\ lost \in Nat /\ use.lost \in Nat
  BY UseIs DEF StockIInv, StockTypes
<1>2. /\ rows[k] # << >> /\ cmds[c].pc = "update"
      /\ AddsRow(k, c)
      /\ UNCHANGED <<log, alerts>>
  BY DEF AddsRow, Inv!UpdateView, Inv!UpdateUnacknowledged
<1>3. /\ rows' \in [Keys -> Seq(Rows)]
      /\ \A j \in Keys : /\ rows'[j] = << >> <=> rows[j] = << >>
                         /\ j # k => rows'[j] = rows[j]
      /\ Inv!Level(k) \in Rows
      /\ Inv!Level(k)' = Inv!Updated(Inv!Level(k), c)
  <2>1. /\ rows \in [Keys -> Seq(Rows)] /\ k \in Keys /\ rows[k] # << >>
        /\ c.kind \in {"reserve", "release", "sale"} /\ c.quantity \in Nat
        /\ AddsRow(k, c)
    BY <1>1, <1>2 DEF StockTypes
  <2> HIDE DEF k
  <2>. QED  BY ONLY <2>1, RowIsAdded
<1>4. \A j \in Keys : j # k => Inv!Level(j)' = Inv!Level(j)
  BY <1>3 DEF Inv!Level
<1>5. LET q == Inv!Level(k)' IN
      /\ q \in Rows /\ Inv!AvailableDelta(c) \in Int
      /\ q.available = Inv!Level(k).available + Inv!AvailableDelta(c)
      /\ q.available + q.reserved <= Inv!Level(k).available + Inv!Level(k).reserved
  BY <1>1, <1>3, UpdateIs
<1>6. Inv!HasRow' = Inv!HasRow /\ RowsStay'
  BY <1>3 DEF Inv!HasRow, StockIInv, RowsStay
<1>7. Inv!NoStockFromNothing'
  <2> SUFFICES ASSUME NEW j \in Inv!HasRow
               PROVE  Inv!Level(j)'.available + Inv!Level(j)'.reserved
                          <= Inv!Last(Stock[j]).available + Inv!Last(Stock[j]).reserved
    BY <1>6 DEF Inv!NoStockFromNothing
  <2>1. /\ j \in Keys
        /\ Inv!Level(j).available + Inv!Level(j).reserved
               <= Inv!Last(Stock[j]).available + Inv!Last(Stock[j]).reserved
    BY DEF Inv!HasRow, StockIInv, Inv!NoStockFromNothing
  <2>2. Inv!Last(Stock[j]) \in Rows
    BY <2>1, FirstIs DEF Inv!HasRow, StockIInv, RowsStay
  <2>3. CASE j # k
    BY <1>4, <2>1, <2>3
  <2>4. CASE j = k
    BY <1>3, <1>5, <2>1, <2>2, <2>4 DEF Rows
  <2>. QED  BY <2>3, <2>4
<1>8. CASE Inv!UpdateUnacknowledged(c)
  <2>1. lost < use.lost /\ lost' = lost + 1 /\ UNCHANGED cmds
    BY <1>8 DEF Inv!UpdateUnacknowledged
  <2>2. lost' \in 0 .. use.lost /\ lost' # 0
    BY <1>1, <2>1
  <2>3. StockTypes'
    BY <1>2, <1>3, <2>1, <2>2 DEF StockTypes, StockIInv, Inv!Commands
  <2>4. PutsFollow' /\ Inv!UpdatesAddUp'
    BY <1>2, <2>1, <2>2 DEF StockIInv, PutsFollow, Inv!Commands, Inv!UpdatesAddUp
  <2>. QED  BY <1>6, <1>7, <2>3, <2>4 DEF StockIInv
<1>9. CASE Inv!UpdateView(c)
  <2>1. PICK pc \in Inv!PCs : Inv!Goto(c, pc) /\ pc \in {"alert", "done"} /\ UNCHANGED lost
    BY <1>9 DEF Inv!UpdateView, Inv!PCs
  <2>2. PICK x \in Progress : CommandMoves(c, x) /\ x.pc = pc
    <3> DEFINE y == [cmds[c] EXCEPT !.pc = pc]
    <3>1. y \in Progress /\ CommandMoves(c, y) /\ y.pc = pc
      BY <1>1, <2>1, GotoMovesCommand
    <3> HIDE DEF y
    <3>. QED  BY <3>1
  <2>3. /\ Inv!Commands' = Inv!Commands /\ cmds' \in [Inv!Commands -> Progress] /\ cmds'[c] = x
        /\ \A d \in Inv!Commands : d # c => cmds'[d] = cmds[d]
    BY <1>1, <2>2, OthersStay
  <2>4. StockTypes'
    <3>1. use' \in Uses /\ lost' \in 0 .. use'.lost
      BY <1>1, <2>1 DEF StockTypes
    <3>2. cmds' \in [Inv!Commands' -> Progress] /\ rows' \in [Keys -> Seq(Rows)]
      BY <1>3, <2>3
    <3>3. /\ DOMAIN log' = Keys /\ alerts' \subseteq Keys \X Int
          /\ \A j \in Keys : /\ Inv!CurrentVersion(log'[j]) \in Nat
                             /\ DOMAIN log'[j] = 1 .. Inv!CurrentVersion(log'[j])
      BY <1>1, <1>2 DEF StockTypes
    <3>. QED  BY <3>1, <3>2, <3>3 DEF StockTypes
  <2>5. PutsFollow'
    <3>1. \A d \in Inv!Commands : cmds'[d].pc = "put" => cmds'[d].base <= Inv!CurrentVersion(log[d.key])
      BY <2>1, <2>2, <2>3 DEF StockIInv, PutsFollow
    <3>. QED  BY <1>2, <2>3, <3>1 DEF PutsFollow
  <2>6. Inv!Through' = Inv!Through \cup {c} /\ c \notin Inv!Through /\ Inv!Through \in SUBSET Inv!Commands
    BY <1>2, <2>1, <2>2, <2>3 DEF Inv!Through
  <2>7. Inv!UpdatesAddUp'
    <3> SUFFICES ASSUME lost = 0, \A d \in Inv!Commands : cmds'[d].pc # "failed", NEW j \in Inv!HasRow
                 PROVE  Inv!Level(j)'.available = Inv!AvailableAfter(j, Inv!Through')
      BY <1>6, <2>1, <2>3 DEF Inv!UpdatesAddUp
    <3>1. j \in Keys /\ \A d \in Inv!Commands : cmds[d].pc # "failed"
      BY <1>2, <2>3 DEF Inv!HasRow
    <3>2. Inv!Level(j).available = Inv!AvailableAfter(j, Inv!Through)
      BY <3>1 DEF StockIInv, Inv!UpdatesAddUp
    <3>3. /\ Inv!AvailableAfter(j, Inv!Through) \in Int
          /\ c.key = j => Inv!AvailableAfter(j, Inv!Through \cup {c})
                = Inv!AvailableAfter(j, Inv!Through) + Inv!AvailableDelta(c)
      <4>1. Inv!Last(Stock[j]).available \in Int
        BY <3>1, FirstIs DEF Inv!HasRow, StockIInv, RowsStay, Rows
      <4>2. /\ IsFiniteSet(Inv!Commands)
            /\ \A d \in Inv!Commands : d.quantity \in Nat
            /\ \A d \in Inv!Commands : d.kind \in {"reserve", "release", "sale"}
        BY <1>1, UseIs
      <4>3. c \in Inv!Commands /\ c \notin Inv!Through /\ Inv!Through \in SUBSET Inv!Commands
        BY <2>6
      <4>4. Inv!AvailableAfter(j, Inv!Through) \in Int
        BY ONLY <4>1, <4>2, <4>3, AvailableAdd
      <4>5. c.key = j => Inv!AvailableAfter(j, Inv!Through \cup {c})
                = Inv!AvailableAfter(j, Inv!Through) + Inv!AvailableDelta(c)
        BY ONLY <4>1, <4>2, <4>3, AvailableAdd
      <4>. QED  BY <4>4, <4>5
    <3>5. CASE j = k
      BY <1>5, <2>6, <3>2, <3>3, <3>5
    <3>6. CASE j # k
      <4>1. Inv!AvailableAfter(j, Inv!Through \cup {c}) = Inv!AvailableAfter(j, Inv!Through)
        <5>1. /\ IsFiniteSet(Inv!Commands)
              /\ Inv!Through \in SUBSET Inv!Commands /\ Inv!Through \cup {c} \in SUBSET Inv!Commands
              /\ \A d \in Inv!Commands :
                     d.key = j => (d \in Inv!Through \cup {c} <=> d \in Inv!Through)
          BY <1>1, <2>6, <3>6
        <5>. QED  BY ONLY <5>1, AvailableKept
      <4>. QED  BY <1>4, <2>6, <3>1, <3>2, <3>6, <4>1
    <3>. QED  BY <3>5, <3>6
  <2>. QED  BY <1>6, <1>7, <2>4, <2>5, <2>7 DEF StockIInv
<1>. QED  BY <1>8, <1>9

\* The first state of the inventory.
LEMMA InitStock == Inv!Init => StockIInv
<1> SUFFICES ASSUME Inv!Init PROVE StockIInv
  OBVIOUS
<1>1. /\ use \in Uses /\ log = [k \in Keys |-> << >>] /\ rows = Stock
      /\ cmds = [c \in Inv!Commands |-> [pc |-> "new", seen |-> 0, base |-> 0]]
      /\ alerts = {} /\ lost = 0
  BY DEF Inv!Init
<1>2. \A k \in Keys : Inv!CurrentVersion(log[k]) = 0 /\ DOMAIN log[k] = {}
  BY <1>1 DEF Inv!CurrentVersion
<1>3. /\ use.lost \in Nat /\ Stock \in [Keys -> Seq(Rows)]
  BY <1>1, UsesAssumption DEF Rows
<1>4. 1 .. 0 = {} /\ 0 \in 0 .. use.lost
  BY <1>3
<1>5. cmds \in [Inv!Commands -> Progress] /\ \A c \in Inv!Commands : cmds[c].pc = "new"
  BY <1>1 DEF Progress, Inv!PCs
<1>6. StockTypes
  BY <1>1, <1>2, <1>3, <1>4, <1>5 DEF StockTypes
<1>7. PutsFollow /\ RowsStay
  BY <1>1, <1>5 DEF PutsFollow, RowsStay
<1>8. \A k \in Inv!HasRow : Inv!Level(k) = Inv!Last(Stock[k]) /\ Inv!Last(Stock[k]) \in Rows
  BY <1>1, FirstIs DEF Inv!HasRow, Inv!Level
<1>9. Inv!NoStockFromNothing
  <2>1. \A k \in Inv!HasRow : Inv!Last(Stock[k]).available + Inv!Last(Stock[k]).reserved \in Int
    BY <1>8 DEF Rows
  <2>. QED  BY <1>8, <2>1 DEF Inv!NoStockFromNothing
<1>10. Inv!UpdatesAddUp
  <2>1. Inv!Through = {}
    BY <1>5 DEF Inv!Through
  <2>2. ASSUME NEW k \in Inv!HasRow
        PROVE  Inv!AvailableAfter(k, {}) = Inv!Last(Stock[k]).available
    <3>1. Inv!Moved(k, "reserve", {}) = 0 /\ Inv!Moved(k, "release", {}) = 0
      <4>1. IsFiniteSet({}) /\ {} \in SUBSET {} /\ (\A kind : MovedBy(k, kind, {}) = {})
        BY FS_EmptySet DEF MovedBy
      <4>2. \A kind : Inv!Moved(k, kind, {}) = Total(Quantities({}), {})
        BY <4>1, MovedIs
      <4>3. Total(Quantities({}), {}) = 0
        BY <4>1, TotalAdd
      <4>. QED  BY <4>2, <4>3
    <3>. QED  BY <1>8, <3>1 DEF Inv!AvailableAfter, Rows
  <2>. QED  BY <1>8, <2>1, <2>2 DEF Inv!UpdatesAddUp
<1>. QED  BY <1>6, <1>7, <1>9, <1>10 DEF StockIInv

\* Every step of the inventory keeps the invariant.
LEMMA NextStock == StockIInv /\ [Inv!Next]_InventoryVars => StockIInv'
<1>1. CASE StockIInv /\ UNCHANGED InventoryVars
  BY <1>1 DEF InventoryVars, StockIInv, StockTypes, PutsFollow, RowsStay, Inv!NoStockFromNothing,
              Inv!UpdatesAddUp, Inv!Commands, Inv!HasRow, Inv!Level, Inv!Through
<1>2. CASE StockIInv /\ Inv!Next
  BY <1>2, StockReads, StockPut, StockFails, StockUpdate DEF Inv!Next
<1>. QED  BY <1>1, <1>2

--------------------------------------------------------------------------------
(* What holds of the inventory when commands come in turn: one runs at a time, *)
(* what it has read is still so, and its event is in the log before the view   *)
(* shows it.                                                                   *)
InLog(c) == \E v \in DOMAIN log[c.key] : log[c.key][v] = c

\* What a command knows, i being its progress.
KnowsInTurn(c, i) ==
    /\ i.pc \in {"version", "put", "update"} /\ c.kind = "reserve" =>
           /\ i.seen >= c.quantity
           /\ rows[c.key] # << >> => i.seen = Inv!Level(c.key).available
    /\ i.pc = "put" => i.base = Inv!CurrentVersion(log[c.key])
    /\ i.pc \in {"update", "alert", "done"} => InLog(c)

Alone == \A c, d \in Inv!Commands : Inv!Running(c) /\ Inv!Running(d) => c = d

\* The log holds commands.
LogSound == \A k \in Keys : \A v \in DOMAIN log[k] : log[k][v] \in Inv!Commands

Failed(k) == {c \in Inv!Range(log[k]) : cmds[c].pc = "failed"}
ViewFollows ==
    \A k \in Inv!HasRow : \E failed \in SUBSET Failed(k) :
        Inv!Level(k).available = Inv!AvailableAfter(k, Inv!Through \cup failed)

\* A key that came down to the threshold was reported or will be, unless something failed.
Reported(k) ==
    \/ \E a \in alerts : a[1] = k
    \/ \E c \in Inv!Commands : cmds[c].pc = "alert" /\ c.key = k
    \/ \E c \in Inv!Commands : cmds[c].pc = "failed"
LowIsReported ==
    \A k \in Inv!HasRow :
        Inv!Level(k).available <= Threshold /\ Inv!Last(Stock[k]).available > Threshold
            => Reported(k)

TurnIInv ==
    Inv!InTurn =>
        /\ Alone
        /\ \A c \in Inv!Commands : KnowsInTurn(c, cmds[c])
        /\ LogSound
        /\ Inv!NeverOversold
        /\ ViewFollows
        /\ LowIsReported

\* A step of a command while no other one runs keeps what the commands know.
LEMMA TurnOfOne ==
    ASSUME StockTypes, Inv!InTurn, TurnIInv, NEW c \in Inv!Commands, NEW x \in Progress,
           CommandMoves(c, x), \A d \in Inv!Commands : d # c => ~ Inv!Running(d),
           \A k \in Keys : \A v \in DOMAIN log[k] : v \in DOMAIN log'[k] /\ log'[k][v] = log[k][v],
           KnowsInTurn(c, x)'
    PROVE  Alone' /\ \A d \in Inv!Commands' : KnowsInTurn(d, cmds[d])'
<1>1. /\ Inv!Commands' = Inv!Commands /\ cmds'[c] = x
      /\ \A d \in Inv!Commands : d # c => cmds'[d] = cmds[d]
  BY OthersStay
<1>2. Alone'
  BY <1>1 DEF Alone, Inv!Running
<1>3. ASSUME NEW d \in Inv!Commands, d # c PROVE KnowsInTurn(d, cmds[d])'
  <2>1. cmds'[d] = cmds[d] /\ ~ Inv!Running(d) /\ KnowsInTurn(d, cmds[d]) /\ d.key \in Keys
    BY <1>1, <1>3, UseIs DEF TurnIInv
  <2>2. InLog(d) => InLog(d)'
    BY <2>1 DEF InLog
  <2>. QED  BY <2>1, <2>2 DEF KnowsInTurn, Inv!Running
<1>4. KnowsInTurn(c, cmds[c])'
  BY <1>1 DEF KnowsInTurn
<1>. QED  BY <1>1, <1>2, <1>3, <1>4

\* While nobody else runs, a step that changes no row keeps what the view promises.
LEMMA TurnWithoutRows ==
    ASSUME StockIInv, Inv!InTurn, TurnIInv, NEW c \in Inv!Commands, NEW x \in Progress,
           CommandMoves(c, x), rows' = rows, cmds[c].pc # "failed",
           x.pc # "failed" => (x.pc \in {"alert", "done"} <=> cmds[c].pc \in {"alert", "done"}),
           cmds[c].pc = "alert" => (x.pc = "failed" \/ \E a \in alerts' : a[1] = c.key),
           alerts \subseteq alerts',
           \A k \in Keys : \A v \in DOMAIN log[k] : v \in DOMAIN log'[k] /\ log'[k][v] = log[k][v]
    PROVE  Inv!NeverOversold' /\ ViewFollows' /\ LowIsReported'
<1>1. /\ Inv!Commands' = Inv!Commands /\ cmds'[c] = x
      /\ \A d \in Inv!Commands : d # c => cmds'[d] = cmds[d]
  BY OthersStay DEF StockIInv
<1>2. /\ Inv!HasRow' = Inv!HasRow /\ Inv!HasRow \in SUBSET Keys
      /\ \A k \in Keys : Inv!Level(k)' = Inv!Level(k)
  BY DEF Inv!HasRow, Inv!Level
<1>3. Inv!NeverOversold'
  BY <1>2 DEF TurnIInv, Inv!NeverOversold
<1>4. LowIsReported'
  <2> SUFFICES ASSUME NEW k \in Inv!HasRow, Reported(k)
               PROVE  Reported(k)'
    BY <1>2 DEF TurnIInv, LowIsReported
  <2>1. CASE \E a \in alerts : a[1] = k
    BY <2>1 DEF Reported
  <2>2. CASE \E d \in Inv!Commands : cmds[d].pc = "alert" /\ d.key = k
    BY <1>1, <2>2 DEF Reported
  <2>3. CASE \E d \in Inv!Commands : cmds[d].pc = "failed"
    BY <1>1, <2>3 DEF Reported
  <2>. QED  BY <2>1, <2>2, <2>3 DEF Reported
<1>5. ViewFollows'
  <2> SUFFICES ASSUME NEW k \in Inv!HasRow
               PROVE  \E failed \in SUBSET Failed(k)' :
                          Inv!Level(k).available = Inv!AvailableAfter(k, Inv!Through' \cup failed)
    BY <1>2 DEF ViewFollows
  <2>1. k \in Keys
    BY <1>2
  <2>2. PICK failed \in SUBSET Failed(k) :
            Inv!Level(k).available = Inv!AvailableAfter(k, Inv!Through \cup failed)
    BY DEF TurnIInv, ViewFollows
  <2>3. /\ Inv!Range(log[k]) \in SUBSET Inv!Range(log'[k])
        /\ Inv!Range(log[k]) \in SUBSET Inv!Commands
    BY <2>1 DEF TurnIInv, LogSound, Inv!Range
  <2>4. failed \in SUBSET Failed(k)' /\ c \notin failed /\ failed \in SUBSET Inv!Commands
    BY <1>1, <2>3 DEF Failed
  <2>5. CASE x.pc # "failed" \/ c \notin Inv!Through
    <3>1. Inv!Through' = Inv!Through
      BY <1>1, <2>5 DEF Inv!Through
    <3>. QED  BY <2>2, <2>4, <3>1
  <2>6. CASE x.pc = "failed" /\ c \in Inv!Through /\ c.key = k
    <3>1. Inv!Through' = Inv!Through \ {c}
      BY <1>1, <2>6 DEF Inv!Through
    <3>2. c \in Inv!Range(log[k])
      <4>1. InLog(c)
        BY <2>6 DEF TurnIInv, KnowsInTurn, Inv!Through
      <4>. QED  BY <2>6, <4>1 DEF InLog, Inv!Range
    <3>3. c \in Failed(k)'
      BY <1>1, <2>3, <2>6, <3>2 DEF Failed
    <3>4. /\ failed \cup {c} \in SUBSET Failed(k)'
          /\ Inv!Through' \cup (failed \cup {c}) = Inv!Through \cup failed
      BY <2>4, <2>6, <3>1, <3>3
    <3>5. Inv!Level(k).available = Inv!AvailableAfter(k, Inv!Through' \cup (failed \cup {c}))
      BY <2>2, <3>4
    <3>. QED  BY <3>4, <3>5
  <2>7. CASE x.pc = "failed" /\ c \in Inv!Through /\ c.key # k
    <3>1. Inv!Through' = Inv!Through \ {c}
      BY <1>1, <2>7 DEF Inv!Through
    <3>2. /\ IsFiniteSet(Inv!Commands)
          /\ Inv!Through \cup failed \in SUBSET Inv!Commands
          /\ (Inv!Through \ {c}) \cup failed \in SUBSET Inv!Commands
          /\ \A d \in Inv!Commands :
                 d.key = k => (d \in Inv!Through \cup failed <=> d \in (Inv!Through \ {c}) \cup failed)
      <4>1. IsFiniteSet(Inv!Commands) /\ Inv!Through \in SUBSET Inv!Commands
        BY UseIs DEF StockIInv, Inv!Through
      <4>. QED  BY <2>4, <2>7, <4>1
    <3>3. Inv!AvailableAfter(k, Inv!Through \cup failed)
              = Inv!AvailableAfter(k, (Inv!Through \ {c}) \cup failed)
      BY ONLY <3>2, AvailableKept
    <3>. QED  BY <2>2, <2>4, <3>1, <3>3
  <2>. QED  BY <2>5, <2>6, <2>7
<1>. QED  BY <1>3, <1>4, <1>5

\* Nobody runs when a command may begin.
LEMMA BeginsAlone ==
    ASSUME StockTypes, Inv!InTurn, NEW c \in Inv!Commands, Inv!MayBegin(c)
    PROVE  \A d \in Inv!Commands : ~ Inv!Running(d)
<1> DEFINE R == {d \in Inv!Commands : Inv!Running(d)}
<1>1. Cardinality(R) < 1
  <2>1. Inv!Cardinality(R) < 1
    BY DEF Inv!MayBegin, Inv!InTurn
  <2>. QED  BY <2>1 DEF Inv!Cardinality, Cardinality
<1>2. IsFiniteSet(R)
  BY UseIs, FS_Subset
<1> HIDE DEF R
<1>3. Cardinality(R) \in Nat /\ (Cardinality(R) = 0 <=> R = {})
  BY <1>2, FS_CardinalityType, FS_EmptySet
<1>4. R = {}
  BY <1>1, <1>3
<1>. QED  BY <1>4 DEF R

\* A command that is at work is the only one.
LEMMA RunsAlone ==
    ASSUME Inv!InTurn, TurnIInv, NEW c \in Inv!Commands, Inv!Running(c)
    PROVE  \A d \in Inv!Commands : d # c => ~ Inv!Running(d)
BY DEF TurnIInv, Alone

\* A check of the stock sees what there is.
LEMMA TurnCheck ==
    ASSUME StockIInv, Inv!InTurn, TurnIInv, NEW c \in Inv!Commands, NEW lag \in 0 .. use.lag,
           use' = use, Inv!CheckStock(c, lag)
    PROVE  TurnIInv'
<1> DEFINE seen == Inv!StockLevel(c.key, lag)
           y == IF seen < c.quantity THEN [cmds[c] EXCEPT !.pc = "refused"]
                ELSE [cmds[c] EXCEPT !.pc = "version", !.seen = seen]
<1>1. /\ c.key \in Keys /\ c.quantity \in Nat /\ lag = 0 /\ cmds[c] \in Progress /\ StockTypes
      /\ rows \in [Keys -> Seq([available : Int, reserved : Int])]
  BY UseIs DEF StockIInv, StockTypes, Inv!InTurn, Rows
<1>2. seen \in Int /\ (rows[c.key] # << >> => seen = Inv!Level(c.key).available)
  <2>1. lag \in Nat
    BY <1>1
  <2>. QED  BY <1>1, <2>1, LevelIsRead
<1>3. CommandMoves(c, y) /\ UNCHANGED <<log, rows, alerts, lost>>
  BY DEF CommandMoves, Inv!CheckStock
<1>4. \A d \in Inv!Commands : ~ Inv!Running(d)
  BY <1>1, BeginsAlone DEF Inv!CheckStock
<1>5. cmds[c].pc = "new"
  BY DEF Inv!CheckStock, Inv!MayBegin
<1> HIDE DEF seen
<1>6. PICK x \in Progress :
          /\ CommandMoves(c, x)
          /\ \/ x.pc = "refused"
             \/ x.pc = "version" /\ x.seen = seen /\ seen >= c.quantity
  <2>1. CASE seen < c.quantity
    <3>1. y = [cmds[c] EXCEPT !.pc = "refused"]
      BY <2>1
    <3> HIDE DEF y
    <3>2. y \in Progress /\ y.pc = "refused"
      BY <1>1, <3>1 DEF Progress, Inv!PCs
    <3>. QED  BY <1>3, <3>2
  <2>2. CASE ~ (seen < c.quantity)
    <3>1. y = [cmds[c] EXCEPT !.pc = "version", !.seen = seen] /\ seen >= c.quantity
      BY <1>1, <1>2, <2>2
    <3> HIDE DEF y
    <3>2. y \in Progress /\ y.pc = "version" /\ y.seen = seen
      BY <1>1, <1>2, <3>1 DEF Progress, Inv!PCs
    <3>. QED  BY <1>3, <3>1, <3>2
  <2>. QED  BY <2>1, <2>2
<1>7. KnowsInTurn(c, x)'
  <2>1. rows' = rows /\ Inv!Level(c.key)' = Inv!Level(c.key)
    BY <1>3 DEF Inv!Level
  <2>2. x.pc = "refused" \/ (x.pc = "version" /\ x.seen = seen /\ seen >= c.quantity)
    BY <1>6
  <2>. QED  BY <1>2, <2>1, <2>2 DEF KnowsInTurn
<1>8. Alone' /\ \A d \in Inv!Commands' : KnowsInTurn(d, cmds[d])'
  <2>1. /\ StockTypes /\ Inv!InTurn /\ TurnIInv /\ c \in Inv!Commands /\ x \in Progress
        /\ CommandMoves(c, x) /\ \A d \in Inv!Commands : d # c => ~ Inv!Running(d)
    BY <1>1, <1>3, <1>4, <1>6
  <2>2. \A k \in Keys : \A v \in DOMAIN log[k] : v \in DOMAIN log'[k] /\ log'[k][v] = log[k][v]
    BY <1>3
  <2>. QED  BY ONLY <1>7, <2>1, <2>2, TurnOfOne
<1>9. Inv!NeverOversold' /\ ViewFollows' /\ LowIsReported'
  BY <1>3, <1>5, <1>6, TurnWithoutRows
<1>10. LogSound'
  BY <1>3 DEF TurnIInv, LogSound, Inv!Commands
<1>. QED  BY <1>8, <1>9, <1>10 DEF TurnIInv

\* The version a command reads is the last one.
LEMMA TurnVersion ==
    ASSUME StockIInv, Inv!InTurn, TurnIInv, NEW c \in Inv!Commands, NEW lag \in 0 .. use.lag,
           use' = use, Inv!GetVersion(c, lag)
    PROVE  TurnIInv'
<1> DEFINE h == log[c.key]
           base == Inv!CurrentVersion(Inv!View(h, Inv!CurrentVersion(h) - lag))
           y == [cmds[c] EXCEPT !.pc = "put", !.base = base]
<1>1. /\ c.key \in Keys /\ c.quantity \in Nat /\ lag = 0 /\ cmds[c] \in Progress /\ StockTypes
      /\ Inv!CurrentVersion(h) \in Nat /\ DOMAIN h = 1 .. Inv!CurrentVersion(h)
  BY UseIs DEF StockIInv, StockTypes, Inv!InTurn
<1>2. base \in Nat /\ base = Inv!CurrentVersion(h)
  <2>1. lag \in Nat
    BY <1>1
  <2> HIDE DEF h
  <2>. QED  BY <1>1, <2>1, VersionIsRead
<1>3. CommandMoves(c, y) /\ UNCHANGED <<log, rows, alerts, lost>>
  BY DEF CommandMoves, Inv!GetVersion
<1>4. \A d \in Inv!Commands : d # c => ~ Inv!Running(d)
  <2>1. CASE c.kind = "reserve"
    <3>1. Inv!Running(c)
      BY <2>1 DEF Inv!GetVersion, Inv!Running
    <3>. QED  BY <3>1, RunsAlone
  <2>2. CASE c.kind # "reserve"
    BY <1>1, <2>2, BeginsAlone DEF Inv!GetVersion
  <2>. QED  BY <2>1, <2>2
<1>5. cmds[c].pc \in {"new", "version"} /\ (c.kind = "reserve" => cmds[c].pc = "version")
  BY DEF Inv!GetVersion, Inv!MayBegin
<1> HIDE DEF base, h
<1>6. PICK x \in Progress :
          CommandMoves(c, x) /\ x.pc = "put" /\ x.base = base /\ x.seen = cmds[c].seen
  <2>1. y \in Progress /\ y.pc = "put" /\ y.base = base /\ y.seen = cmds[c].seen
    BY <1>1, <1>2 DEF Progress, Inv!PCs
  <2> HIDE DEF y
  <2>. QED  BY <1>3, <2>1
<1>7. KnowsInTurn(c, x)'
  <2>1. KnowsInTurn(c, cmds[c])
    BY DEF TurnIInv
  <2>2. /\ rows' = rows /\ Inv!Level(c.key)' = Inv!Level(c.key)
        /\ Inv!CurrentVersion(log[c.key])' = Inv!CurrentVersion(log[c.key])
    BY <1>3 DEF Inv!Level, Inv!CurrentVersion
  <2>3. base = Inv!CurrentVersion(log[c.key])
    BY <1>2 DEF h
  <2>. QED  BY <1>5, <1>6, <2>1, <2>2, <2>3 DEF KnowsInTurn
<1>8. Alone' /\ \A d \in Inv!Commands' : KnowsInTurn(d, cmds[d])'
  <2>1. /\ StockTypes /\ Inv!InTurn /\ TurnIInv /\ c \in Inv!Commands /\ x \in Progress
        /\ CommandMoves(c, x) /\ \A d \in Inv!Commands : d # c => ~ Inv!Running(d)
    BY <1>1, <1>3, <1>4, <1>6
  <2>2. \A k \in Keys : \A v \in DOMAIN log[k] : v \in DOMAIN log'[k] /\ log'[k][v] = log[k][v]
    BY <1>3
  <2>. QED  BY ONLY <1>7, <2>1, <2>2, TurnOfOne
<1>9. Inv!NeverOversold' /\ ViewFollows' /\ LowIsReported'
  BY <1>3, <1>5, <1>6, TurnWithoutRows
<1>10. LogSound'
  BY <1>3 DEF TurnIInv, LogSound, Inv!Commands
<1>. QED  BY <1>8, <1>9, <1>10 DEF TurnIInv

\* An event is put after the last one.
LEMMA TurnPut ==
    ASSUME StockIInv, Inv!InTurn, TurnIInv, NEW c \in Inv!Commands, use' = use, Inv!PutEvent(c)
    PROVE  TurnIInv'
<1> DEFINE k == c.key
           b == cmds[c].base
           n == Inv!CurrentVersion(log[k])
<1>1. /\ k \in Keys /\ cmds[c] \in Progress /\ StockTypes /\ DOMAIN log = Keys
      /\ n \in Nat /\ DOMAIN log[k] = 1 .. n
      /\ cmds[c].pc = "put" /\ KnowsInTurn(c, cmds[c])
  BY UseIs DEF StockIInv, StockTypes, Inv!PutEvent, TurnIInv
<1>2. b = n /\ Inv!Running(c)
  BY <1>1 DEF KnowsInTurn, Inv!Running
<1>3. /\ log' = [log EXCEPT ![k] = Inv!WithItem(log[k], b + 1, c)] /\ Inv!Goto(c, "update")
      /\ UNCHANGED <<rows, alerts, lost>> /\ "update" \in Inv!PCs
  BY DEF Inv!PutEvent, Inv!PCs
<1>4. /\ \A j \in Keys : j # k => log'[j] = log[j]
      /\ DOMAIN log'[k] = 1 .. (n + 1) /\ log'[k][n + 1] = c
      /\ \A v \in 1 .. n : log'[k][v] = log[k][v]
  <2> DEFINE h == Inv!WithItem(log[k], b + 1, c)
  <2>1. DOMAIN h = 1 .. (n + 1) /\ h[n + 1] = c /\ \A v \in 1 .. n : h[v] = log[k][v]
    <3> HIDE DEF n
    <3>. QED  BY <1>1, <1>2 DEF Inv!WithItem
  <2> HIDE DEF h
  <2>2. log'[k] = h /\ \A j \in Keys : j # k => log'[j] = log[j]
    <3>1. log' = [log EXCEPT ![k] = h] /\ k \in Keys /\ DOMAIN log = Keys
      BY <1>1, <1>3 DEF h
    <3> HIDE DEF k
    <3>. QED  BY <3>1
  <2>. QED  BY <2>1, <2>2
<1> HIDE DEF b, n
<1>5. \A j \in Keys : \A v \in DOMAIN log[j] : v \in DOMAIN log'[j] /\ log'[j][v] = log[j][v]
  <2>1. \A v \in 1 .. n : v \in 1 .. (n + 1)
    BY <1>1
  <2>. QED  BY <1>1, <1>4, <2>1
<1>6. PICK x \in Progress : CommandMoves(c, x) /\ x.pc = "update" /\ x.seen = cmds[c].seen
  <2> DEFINE y == [cmds[c] EXCEPT !.pc = "update"]
  <2>1. y \in Progress /\ CommandMoves(c, y) /\ y.pc = "update" /\ y.seen = cmds[c].seen
    BY <1>1, <1>3, GotoMovesCommand
  <2> HIDE DEF y
  <2>. QED  BY <2>1
<1>7. InLog(c)'
  <2>1. n + 1 \in DOMAIN log'[k]
    BY <1>1, <1>4
  <2>. QED  BY <1>4, <2>1 DEF InLog
<1>8. KnowsInTurn(c, x)'
  BY <1>1, <1>3, <1>6, <1>7 DEF KnowsInTurn, Inv!Level
<1>9. Alone' /\ \A d \in Inv!Commands' : KnowsInTurn(d, cmds[d])'
  BY <1>1, <1>2, <1>5, <1>6, <1>8, RunsAlone, TurnOfOne
<1>10. Inv!NeverOversold' /\ ViewFollows' /\ LowIsReported'
  BY <1>1, <1>3, <1>5, <1>6, TurnWithoutRows
<1>11. LogSound'
  <2>1. \A v \in DOMAIN log'[k] : v = n + 1 \/ v \in 1 .. n
    BY <1>1, <1>4
  <2>2. \A j \in Keys : \A v \in DOMAIN log[j] : log[j][v] \in Inv!Commands
    BY DEF TurnIInv, LogSound
  <2>3. \A v \in DOMAIN log'[k] : log'[k][v] \in Inv!Commands
    BY <1>1, <1>4, <2>1, <2>2
  <2>4. Inv!Commands' = Inv!Commands
    BY DEF Inv!Commands
  <2>. QED  BY <1>4, <2>2, <2>3, <2>4 DEF LogSound
<1>. QED  BY <1>9, <1>10, <1>11 DEF TurnIInv

\* A command that fails, and one that sends its alert.
LEMMA TurnFails ==
    ASSUME StockIInv, Inv!InTurn, TurnIInv, NEW c \in Inv!Commands, use' = use,
           Inv!UpdateFails(c) \/ Inv!SendLowStockAlert(c) \/ Inv!Die(c)
    PROVE  TurnIInv'
<1>1. PICK pc \in Inv!PCs : /\ Inv!Goto(c, pc) /\ pc \in {"failed", "done"}
                            /\ pc = "done" => /\ cmds[c].pc = "alert"
                                              /\ alerts' = alerts \cup {<<c.key, Inv!NewStock(c)>>}
                            /\ pc = "failed" => alerts' = alerts
  BY DEF Inv!UpdateFails, Inv!SendLowStockAlert, Inv!Die, Inv!PCs
<1>2. UNCHANGED <<log, rows, lost>> /\ Inv!Running(c) /\ cmds[c].pc # "failed" /\ StockTypes
  BY DEF Inv!UpdateFails, Inv!SendLowStockAlert, Inv!Die, Inv!Running, StockIInv
<1>3. PICK x \in Progress : CommandMoves(c, x) /\ x.pc = pc
  <2> DEFINE y == [cmds[c] EXCEPT !.pc = pc]
  <2>1. y \in Progress /\ CommandMoves(c, y) /\ y.pc = pc
    BY <1>1, <1>2, GotoMovesCommand
  <2> HIDE DEF y
  <2>. QED  BY <2>1
<1>4. KnowsInTurn(c, x)'
  BY <1>1, <1>2, <1>3 DEF TurnIInv, KnowsInTurn, InLog
<1>5. Alone' /\ \A d \in Inv!Commands' : KnowsInTurn(d, cmds[d])'
  BY <1>2, <1>3, <1>4, RunsAlone, TurnOfOne
<1>6. Inv!NeverOversold' /\ ViewFollows' /\ LowIsReported'
  <2>1. pc = "done" => \E a \in alerts' : a[1] = c.key
    <3>1. pc = "done" => <<c.key, Inv!NewStock(c)>> \in alerts'
      BY <1>1
    <3>2. <<c.key, Inv!NewStock(c)>>[1] = c.key
      OBVIOUS
    <3>. QED  BY <3>1, <3>2
  <2>2. alerts \subseteq alerts'
    BY <1>1
  <2>. QED  BY <1>1, <1>2, <1>3, <2>1, <2>2, TurnWithoutRows
<1>7. LogSound'
  BY <1>2 DEF TurnIInv, LogSound, Inv!Commands
<1>. QED  BY <1>5, <1>6, <1>7 DEF TurnIInv

\* The update of the view, which in turn is always acknowledged.
LEMMA TurnUpdate ==
    ASSUME StockIInv, Inv!InTurn, TurnIInv, NEW c \in Inv!Commands, use' = use,
           Inv!UpdateView(c)
    PROVE  TurnIInv'
<1> DEFINE k == c.key
           pc == IF c.kind = "reserve" /\ Inv!IsLow(Inv!NewStock(c)) THEN "alert" ELSE "done"
<1>1. /\ k \in Keys /\ c.kind \in {"reserve", "release", "sale"} /\ c.quantity \in Nat
      /\ IsFiniteSet(Inv!Commands) /\ StockTypes /\ rows \in [Keys -> Seq(Rows)]
      /\ cmds[c] \in Progress /\ KnowsInTurn(c, cmds[c])
  BY UseIs DEF StockIInv, StockTypes, TurnIInv
<1>2. /\ rows[k] # << >> /\ cmds[c].pc = "update" /\ AddsRow(k, c)
      /\ Inv!Goto(c, pc) /\ pc \in {"alert", "done"} /\ pc \in Inv!PCs
      /\ UNCHANGED <<log, alerts, lost>>
  BY DEF AddsRow, Inv!UpdateView, Inv!PCs
<1>3. /\ \A j \in Keys : /\ rows'[j] = << >> <=> rows[j] = << >>
                         /\ j # k => rows'[j] = rows[j]
      /\ Inv!Level(k) \in Rows
      /\ Inv!Level(k)' = Inv!Updated(Inv!Level(k), c)
  <2>1. /\ rows \in [Keys -> Seq(Rows)] /\ k \in Keys /\ rows[k] # << >>
        /\ c.kind \in {"reserve", "release", "sale"} /\ c.quantity \in Nat
        /\ AddsRow(k, c)
    BY <1>1, <1>2
  <2> HIDE DEF k
  <2>. QED  BY ONLY <2>1, RowIsAdded
<1>4. \A j \in Keys : j # k => Inv!Level(j)' = Inv!Level(j)
  BY <1>3 DEF Inv!Level
<1> DEFINE old == Inv!Level(k).available
           new == Inv!Level(k)'.available
<1>5. /\ old \in Int /\ new \in Int /\ Inv!AvailableDelta(c) \in Int
      /\ new = old + Inv!AvailableDelta(c)
  BY <1>1, <1>3, UpdateIs DEF Rows
<1>6. /\ c.kind = "reserve" => /\ cmds[c].seen = old /\ old >= c.quantity
                               /\ Inv!AvailableDelta(c) = - c.quantity
                               /\ Inv!NewStock(c) = old - c.quantity
      /\ c.kind # "reserve" => Inv!AvailableDelta(c) >= 0
  BY <1>1, <1>2 DEF KnowsInTurn, Inv!AvailableDelta, Inv!NewStock
<1>7. /\ Inv!HasRow' = Inv!HasRow /\ Inv!HasRow \in SUBSET Keys /\ k \in Inv!HasRow
  BY <1>1, <1>2, <1>3 DEF Inv!HasRow
<1>8. PICK x \in Progress : CommandMoves(c, x) /\ x.pc = pc
  <2> DEFINE y == [cmds[c] EXCEPT !.pc = pc]
  <2>1. y \in Progress /\ CommandMoves(c, y) /\ y.pc = pc
    BY <1>1, <1>2, GotoMovesCommand
  <2> HIDE DEF y
  <2>. QED  BY <2>1
<1>9. /\ Inv!Commands' = Inv!Commands /\ cmds'[c] = x
      /\ \A d \in Inv!Commands : d # c => cmds'[d] = cmds[d]
  BY <1>1, <1>8, OthersStay
<1> HIDE DEF old, new
<1>10. Inv!NeverOversold'
  <2> SUFFICES ASSUME NEW j \in Inv!HasRow PROVE Inv!Level(j)'.available >= 0
    BY <1>7 DEF Inv!NeverOversold
  <2>1. Inv!Level(j).available >= 0
    BY DEF TurnIInv, Inv!NeverOversold
  <2>2. CASE j # k
    BY <1>4, <1>7, <2>1, <2>2
  <2>3. CASE j = k
    <3>1. old >= 0
      BY <2>1, <2>3 DEF old
    <3>2. new >= 0
      BY <1>1, <1>5, <1>6, <3>1
    <3>. QED  BY <2>3, <3>2 DEF new
  <2>. QED  BY <2>2, <2>3
<1>11. LowIsReported'
  <2> SUFFICES ASSUME NEW j \in Inv!HasRow, Inv!Level(j)'.available <= Threshold,
                      Inv!Last(Stock[j]).available > Threshold
               PROVE  Reported(j)'
    BY <1>7 DEF LowIsReported
  <2>1. ASSUME Reported(j) PROVE Reported(j)'
    BY <1>2, <1>9, <2>1 DEF Reported
  <2>2. CASE Inv!Level(j).available <= Threshold
    BY <2>1, <2>2 DEF TurnIInv, LowIsReported
  <2>3. CASE ~ (Inv!Level(j).available <= Threshold)
    <3>1. j = k
      BY <1>4, <1>7, <2>3
    <3>2. ~ (old <= Threshold) /\ new <= Threshold /\ Threshold \in Int
      BY <2>3, <3>1, UsesAssumption DEF old, new
    <3>3. c.kind = "reserve"
      BY <1>5, <1>6, <3>2
    <3>4. Inv!IsLow(Inv!NewStock(c))
      BY <1>1, <1>5, <1>6, <3>2, <3>3 DEF Inv!IsLow
    <3>5. cmds'[c].pc = "alert"
      BY <1>8, <1>9, <3>3, <3>4
    <3>. QED  BY <1>9, <3>1, <3>5 DEF Reported
  <2>. QED  BY <2>2, <2>3
<1> HIDE DEF pc
<1>12. ViewFollows'
  <2> SUFFICES ASSUME NEW j \in Inv!HasRow
               PROVE  \E failed \in SUBSET Failed(j)' :
                          Inv!Level(j)'.available = Inv!AvailableAfter(j, Inv!Through' \cup failed)
    BY <1>7 DEF ViewFollows
  <2>1. j \in Keys
    BY <1>7
  <2>2. PICK failed \in SUBSET Failed(j) :
            Inv!Level(j).available = Inv!AvailableAfter(j, Inv!Through \cup failed)
    BY DEF TurnIInv, ViewFollows
  <2>3. Inv!Range(log'[j]) = Inv!Range(log[j]) /\ Inv!Range(log[j]) \in SUBSET Inv!Commands
    BY <1>2, <2>1 DEF TurnIInv, LogSound, Inv!Range
  <2>4. failed \in SUBSET Failed(j)' /\ c \notin failed /\ failed \in SUBSET Inv!Commands
    BY <1>2, <1>9, <2>3 DEF Failed
  <2> DEFINE cs == Inv!Through \cup failed
  <2>5. Inv!Through' = Inv!Through \cup {c} /\ c \notin Inv!Through /\ Inv!Through \in SUBSET Inv!Commands
    BY <1>2, <1>8, <1>9 DEF Inv!Through
  <2>6. /\ Inv!Through' \cup failed = cs \cup {c} /\ c \notin cs /\ c \in Inv!Commands
        /\ cs \in SUBSET Inv!Commands /\ cs \cup {c} \in SUBSET Inv!Commands
    BY <2>4, <2>5
  <2>7. /\ IsFiniteSet(Inv!Commands)
        /\ \A d \in Inv!Commands : d.quantity \in Nat
        /\ \A d \in Inv!Commands : d.kind \in {"reserve", "release", "sale"}
    BY <1>1, UseIs
  <2> HIDE DEF cs
  <2>8. Inv!Level(j)'.available = Inv!AvailableAfter(j, cs \cup {c})
    <3>1. CASE j = k
      <4>1. Inv!Last(Stock[j]).available \in Int
        BY <2>1, FirstIs DEF Inv!HasRow, StockIInv, RowsStay, Rows
      <4>2. c.key = j
        BY <3>1
      <4>3. Inv!AvailableAfter(j, cs \cup {c}) = Inv!AvailableAfter(j, cs) + Inv!AvailableDelta(c)
        BY ONLY <2>6, <2>7, <4>1, <4>2, AvailableAdd
      <4>4. old = Inv!AvailableAfter(j, cs)
        BY <2>2, <3>1 DEF old, cs
      <4>5. new = Inv!AvailableAfter(j, cs \cup {c})
        BY <1>5, <4>3, <4>4
      <4>. QED  BY <3>1, <4>5 DEF new
    <3>2. CASE j # k
      <4>1. \A d \in Inv!Commands : d.key = j => (d \in cs <=> d \in cs \cup {c})
        BY <3>2
      <4>2. Inv!AvailableAfter(j, cs) = Inv!AvailableAfter(j, cs \cup {c})
        BY ONLY <2>6, <2>7, <4>1, AvailableKept
      <4>. QED  BY <1>4, <2>1, <2>2, <3>2, <4>2 DEF cs
    <3>. QED  BY <3>1, <3>2
  <2>. QED  BY <2>4, <2>6, <2>8
<1>13. KnowsInTurn(c, x)'
  <2>1. InLog(c)'
    BY <1>1, <1>2 DEF KnowsInTurn, InLog
  <2>. QED  BY <1>2, <1>8, <2>1 DEF KnowsInTurn
<1>14. Alone' /\ \A d \in Inv!Commands' : KnowsInTurn(d, cmds[d])'
  <2>1. Inv!Running(c)
    BY <1>2 DEF Inv!Running
  <2>. QED  BY <1>1, <1>2, <1>8, <1>13, <2>1, RunsAlone, TurnOfOne
<1>15. LogSound'
  BY <1>2, <1>9 DEF TurnIInv, LogSound
<1>. QED  BY <1>10, <1>11, <1>12, <1>14, <1>15 DEF TurnIInv

\* In turn no response is lost.
LEMMA InTurnAcknowledged ==
    ASSUME StockTypes, Inv!InTurn, NEW c \in Inv!Commands
    PROVE  ~ Inv!UpdateUnacknowledged(c)
<1>1. lost \in Nat /\ use.lost = 0
  BY DEF StockTypes, Inv!InTurn
<1>. QED  BY <1>1 DEF Inv!UpdateUnacknowledged

\* Nothing has been read or put at first.
LEMMA InitTurn == Inv!Init => TurnIInv
<1> SUFFICES ASSUME Inv!Init, Inv!InTurn
             PROVE  /\ Alone /\ \A c \in Inv!Commands : KnowsInTurn(c, cmds[c])
                    /\ LogSound /\ Inv!NeverOversold /\ ViewFollows /\ LowIsReported
  BY DEF TurnIInv
<1>1. /\ use \in Uses /\ log = [k \in Keys |-> << >>] /\ rows = Stock
      /\ cmds = [c \in Inv!Commands |-> [pc |-> "new", seen |-> 0, base |-> 0]]
      /\ alerts = {} /\ lost = 0
  BY DEF Inv!Init
<1>2. \A c \in Inv!Commands : cmds[c].pc = "new"
  BY <1>1
<1>3. Alone /\ \A c \in Inv!Commands : KnowsInTurn(c, cmds[c])
  BY <1>2 DEF Alone, Inv!Running, KnowsInTurn
<1>4. LogSound
  BY <1>1 DEF LogSound
<1>5. \A k \in Inv!HasRow : /\ k \in Keys /\ Stock[k] # << >>
                            /\ Inv!Level(k) = Inv!Last(Stock[k]) /\ Inv!Last(Stock[k]) \in Rows
                            /\ Inv!Last(Stock[k]).available >= 0
  BY <1>1, FirstIs DEF Inv!HasRow, Inv!Level
<1>6. Inv!NeverOversold
  BY <1>5 DEF Inv!NeverOversold
<1>7. LowIsReported
  <2>1. Threshold \in Int /\ \A k \in Inv!HasRow : Inv!Last(Stock[k]).available \in Int
    BY <1>5, UsesAssumption DEF Rows
  <2>. QED  BY <1>5, <2>1 DEF LowIsReported
<1>8. ViewFollows
  <2>1. StockIInv
    BY InitStock
  <2>2. /\ \A c \in Inv!Commands : cmds[c].pc # "failed"
        /\ lost = 0
    BY <1>1, <1>2
  <2>3. \A k \in Inv!HasRow : Inv!Level(k).available = Inv!AvailableAfter(k, Inv!Through)
    BY <2>1, <2>2 DEF StockIInv, Inv!UpdatesAddUp
  <2>4. {} \cup Inv!Through = Inv!Through /\ Inv!Through \cup {} = Inv!Through
    OBVIOUS
  <2>. QED  BY <2>3, <2>4 DEF ViewFollows
<1>. QED  BY <1>3, <1>4, <1>6, <1>7, <1>8

\* Every step of the inventory keeps what holds in turn.
LEMMA NextTurn == StockIInv /\ TurnIInv /\ [Inv!Next]_InventoryVars => TurnIInv'
<1>1. CASE TurnIInv /\ UNCHANGED InventoryVars
  <2>1. /\ use' = use /\ log' = log /\ rows' = rows /\ cmds' = cmds /\ alerts' = alerts
        /\ Inv!Commands' = Inv!Commands /\ Inv!HasRow' = Inv!HasRow /\ (Inv!InTurn' <=> Inv!InTurn)
    BY <1>1 DEF InventoryVars, Inv!Commands, Inv!HasRow, Inv!InTurn
  <2>2. /\ Inv!Through' = Inv!Through
        /\ \A k : Inv!Level(k)' = Inv!Level(k) /\ Failed(k)' = Failed(k)
    BY <2>1 DEF Inv!Through, Inv!Level, Failed, Inv!Range
  <2>3. (Alone <=> Alone') /\ (LogSound <=> LogSound')
    BY <2>1 DEF Alone, Inv!Running, LogSound
  <2>4. (\A c \in Inv!Commands : KnowsInTurn(c, cmds[c]))
            => \A c \in Inv!Commands' : KnowsInTurn(c, cmds[c])'
    BY <2>1, <2>2 DEF KnowsInTurn, InLog
  <2>5. (Inv!NeverOversold <=> Inv!NeverOversold') /\ (ViewFollows => ViewFollows')
    BY <2>1, <2>2 DEF Inv!NeverOversold, ViewFollows
  <2>6. LowIsReported => LowIsReported'
    BY <2>1, <2>2 DEF LowIsReported, Reported
  <2>. QED  BY <1>1, <2>1, <2>3, <2>4, <2>5, <2>6 DEF TurnIInv
<1>2. ASSUME StockIInv, TurnIInv, Inv!Next PROVE TurnIInv'
  <2>1. use' = use
    BY <1>2 DEF Inv!Next
  <2>2. CASE ~ Inv!InTurn
    BY <2>1, <2>2 DEF TurnIInv, Inv!InTurn
  <2>3. CASE Inv!InTurn
    <3>1. \A c \in Inv!Commands : ~ Inv!UpdateUnacknowledged(c)
      BY <1>2, <2>3, InTurnAcknowledged DEF StockIInv
    <3>. QED  BY <1>2, <2>1, <2>3, <3>1, TurnCheck, TurnVersion, TurnPut, TurnFails, TurnUpdate
              DEF Inv!Next
  <2>. QED  BY <2>2, <2>3
<1>. QED  BY <1>1, <1>2

\* Types, sums, and the promises for commands in turn follow.
LEMMA StockIsSound == StockIInv /\ TurnIInv => Inv!TypeOK /\ StockAddsUp /\ InTurnPromisesKept
<1> SUFFICES ASSUME StockIInv, TurnIInv PROVE Inv!TypeOK /\ StockAddsUp /\ InTurnPromisesKept
  OBVIOUS
<1>1. Inv!TypeOK
  <2>1. \A k \in Keys : Inv!NoGaps(DOMAIN log[k])
    <3>1. \A k \in Keys : /\ Inv!CurrentVersion(log[k]) \in Nat
                          /\ DOMAIN log[k] = 1 .. Inv!CurrentVersion(log[k])
      BY DEF StockIInv, StockTypes
    <3>. QED  BY <3>1 DEF Inv!NoGaps
  <2>2. \A k \in Keys : \A i \in DOMAIN rows[k] : rows[k][i] \in Rows
    <3> SUFFICES ASSUME NEW k \in Keys, NEW i \in DOMAIN rows[k] PROVE rows[k][i] \in Rows
      OBVIOUS
    <3>1. rows[k] \in Seq(Rows)
      BY DEF StockIInv, StockTypes
    <3>2. i \in 1 .. Len(rows[k])
      BY <3>1
    <3>. QED  BY <3>1, <3>2, ElementOfSeq
  <2>. QED  BY <2>1, <2>2 DEF Inv!TypeOK, StockIInv, StockTypes, Rows, Progress
<1>2. StockAddsUp
  BY DEF StockAddsUp, Inv!StockAddsUp, StockIInv
<1>3. Inv!InTurnNeverOversold
  BY DEF TurnIInv, Inv!InTurnNeverOversold
<1>4. Inv!InTurnAuditTrail
  BY DEF TurnIInv, Inv!InTurnAuditTrail, KnowsInTurn, InLog
<1>5. Inv!InTurnViewFollowsLog
  BY DEF TurnIInv, Inv!InTurnViewFollowsLog, ViewFollows, Failed
<1>6. Inv!InTurnLowStockAlerted
  BY DEF TurnIInv, Inv!InTurnLowStockAlerted, LowIsReported, Reported
<1>. QED  BY <1>1, <1>2, <1>3, <1>4, <1>5, <1>6 DEF InTurnPromisesKept, Inv!InTurnPromisesKept

--------------------------------------------------------------------------------
(* DataAccess: a listing follows its cursor.                                   *)

\* The copies of the library's operators that DataAccess uses are the library's.
LEMMA FirstOfIs == ASSUME NEW n, NEW S PROVE Data!FirstOf(n, S) = Firsts(n, S)
BY DEF Data!FirstOf, Firsts, Below, Data!Cardinality, Cardinality

\* The greatest member of a finite set of numbers is one of them.
LEMMA MaxIs ==
    ASSUME NEW S \in SUBSET Nat, IsFiniteSet(S), S # {}
    PROVE  Data!Max(S) \in S /\ \A y \in S : Data!Max(S) >= y
<1>1. \E m \in S : \A y \in S : m >= y
  BY GreatestIs
<1>. QED  BY <1>1 DEF Data!Max

\* The client of list_org_invoices.
Listings == [pc : {"idle", "page", "done"}, status : Statuses \cup {Data!AnyStatus},
             last : Nat, got : [InvoiceKeys -> Nat], steady : SUBSET InvoiceKeys]

\* What a listing with the status s lets pass.
Shown(s, x) == x # Data!None /\ (s = Data!AnyStatus \/ x.status = s)

\* Where a listing is, each steady invoice at or before its cursor was listed once, and
\* no other one; whatever a query sees of a steady invoice passes the filter.
ListingFollows ==
    /\ \A i \in InvoiceKeys :
           listing.got[i] = 0 \/ (listing.got[i] = 1 /\ i <= listing.last)
    /\ listing.pc = "idle" => listing.last = 0
    /\ listing.pc = "page" => \A i \in listing.steady :
           /\ Shown(listing.status, invoices[i])
           /\ \A x \in older[i] : Shown(listing.status, x)
           /\ i <= listing.last => listing.got[i] = 1
    /\ listing.pc = "done" => \A i \in listing.steady : listing.got[i] = 1

DataIInv == Data!TypeOK /\ ListingFollows

\* The first state of the client.
LEMMA InitData == Data!Init => DataIInv
<1> SUFFICES ASSUME Data!Init PROVE DataIInv
  OBVIOUS
<1>1. /\ invoices = [i \in InvoiceKeys |-> Data!None]
      /\ older = [i \in InvoiceKeys |-> {}] /\ used = {} /\ writes = 0
      /\ listing \in [pc : {"idle"}, status : Statuses \cup {Data!AnyStatus}, last : {0},
                      got : {[i \in InvoiceKeys |-> 0]}, steady : {{}}]
  BY DEF Data!Init
<1>2. 0 \in 0 .. MaxWrites
  BY DataAssumption
<1>3. listing \in Listings
  BY <1>1 DEF Listings
<1>4. Data!TypeOK
  BY <1>1, <1>2, <1>3 DEF Data!TypeOK, Listings
<1>5. ListingFollows
  BY <1>1 DEF ListingFollows
<1>. QED  BY <1>4, <1>5 DEF DataIInv

\* What was written before settles.
LEMMA DataSettles ==
    ASSUME DataIInv, NEW i \in InvoiceKeys, Data!Settle(i)
    PROVE  DataIInv'
<1>1. /\ older' = [older EXCEPT ![i] = {}]
      /\ UNCHANGED <<invoices, used, writes, listing>>
  BY DEF Data!Settle
<1>2. /\ older' \in [InvoiceKeys -> SUBSET (Data!Items \cup {Data!None})]
      /\ \A j \in InvoiceKeys : older'[j] \subseteq older[j]
  BY <1>1 DEF DataIInv, Data!TypeOK
<1>3. listing.steady \subseteq InvoiceKeys
  BY DEF DataIInv, Data!TypeOK
<1>4. ListingFollows'
  BY <1>1, <1>2, <1>3 DEF DataIInv, ListingFollows
<1>. QED  BY <1>1, <1>2, <1>4 DEF DataIInv, Data!TypeOK

\* Writes to invoices: one of which no state fails the filter stays steady.
LEMMA DataPuts ==
    ASSUME DataIInv, NEW i \in InvoiceKeys,
           \/ Data!CreateInvoice(i) \/ Data!Expire(i)
           \/ \E s \in Statuses : Data!UpdateInvoiceStatus(i, s)
           \/ \E x \in Data!Items : Data!BatchWriteItem(i, x)
    PROVE  DataIInv'
<1>1. PICK item \in Data!Items \cup {Data!None} : Data!PutInvoice(i, item)
  <2>1. CASE Data!CreateInvoice(i)
    <3>1. Data!PutInvoice(i, [status |-> "pending", ttl |-> TRUE])
      BY <2>1 DEF Data!CreateInvoice
    <3>. QED  BY <3>1, DataAssumption DEF Data!Items
  <2>2. CASE Data!Expire(i)
    BY <2>2 DEF Data!Expire
  <2>3. CASE \E s \in Statuses : Data!UpdateInvoiceStatus(i, s)
    <3>1. PICK s \in Statuses : Data!UpdateInvoiceStatus(i, s)
      BY <2>3
    <3>2. CASE invoices[i] = Data!None
      <4>1. Data!PutInvoice(i, [status |-> s, ttl |-> FALSE])
        BY <3>1, <3>2 DEF Data!UpdateInvoiceStatus
      <4>. QED  BY <4>1 DEF Data!Items
    <3>3. CASE invoices[i] # Data!None
      <4>1. Data!PutInvoice(i, [invoices[i] EXCEPT !.status = s])
        BY <3>1, <3>3 DEF Data!UpdateInvoiceStatus
      <4>2. invoices[i] \in Data!Items
        BY <3>3 DEF DataIInv, Data!TypeOK
      <4>3. [invoices[i] EXCEPT !.status = s] \in Data!Items
        BY <4>2 DEF Data!Items
      <4>. QED  BY <4>1, <4>3
    <3>. QED  BY <3>2, <3>3
  <2>4. CASE \E x \in Data!Items : Data!BatchWriteItem(i, x)
    BY <2>4 DEF Data!BatchWriteItem
  <2>. QED  BY <2>1, <2>2, <2>3, <2>4
<1>2. writes' = writes \/ (writes < MaxWrites /\ writes' = writes + 1)
  BY DEF Data!CreateInvoice, Data!Expire, Data!UpdateInvoiceStatus, Data!BatchWriteItem, Data!Write
<1>3. writes' \in 0 .. MaxWrites
  <2>1. writes \in 0 .. MaxWrites /\ MaxWrites \in Nat
    BY DataAssumption DEF DataIInv, Data!TypeOK
  <2>. QED  BY <1>2, <2>1
<1>4. /\ invoices' \in [InvoiceKeys -> Data!Items \cup {Data!None}] /\ invoices'[i] = item
      /\ \A j \in InvoiceKeys : j # i => invoices'[j] = invoices[j]
      /\ used' \subseteq InvoiceKeys
  BY <1>1 DEF Data!PutInvoice, DataIInv, Data!TypeOK
<1>5. /\ older' \in [InvoiceKeys -> SUBSET (Data!Items \cup {Data!None})]
      /\ older'[i] = older[i] \cup {invoices[i]}
      /\ \A j \in InvoiceKeys : j # i => older'[j] = older[j]
  BY <1>1 DEF Data!PutInvoice, DataIInv, Data!TypeOK
<1>6. PICK steady \in SUBSET InvoiceKeys :
          /\ listing' = [listing EXCEPT !.steady = steady]
          /\ steady \subseteq listing.steady
          /\ i \in steady => Shown(listing.status, item)
  <2>1. listing.steady \subseteq InvoiceKeys
    BY DEF DataIInv, Data!TypeOK
  <2>2. Data!Passes(item) <=> Shown(listing.status, item)
    BY DEF Data!Passes, Shown
  <2>3. listing' = [listing EXCEPT !.steady = IF Data!Passes(item) THEN listing.steady
                                                                  ELSE listing.steady \ {i}]
    BY <1>1 DEF Data!PutInvoice
  <2>4. CASE Data!Passes(item)
    <3>1. listing' = [listing EXCEPT !.steady = listing.steady]
      BY <2>3, <2>4
    <3>. QED  BY <2>1, <2>2, <2>4, <3>1
  <2>5. CASE ~ Data!Passes(item)
    <3>1. listing' = [listing EXCEPT !.steady = listing.steady \ {i}]
      BY <2>3, <2>5
    <3>2. PICK kept \in SUBSET InvoiceKeys : kept = listing.steady \ {i}
      BY <2>1
    <3>3. listing' = [listing EXCEPT !.steady = kept]
      BY <3>1, <3>2
    <3>4. kept \subseteq listing.steady /\ i \notin kept
      BY <3>2
    <3>. QED  BY <3>3, <3>4
  <2>. QED  BY <2>4, <2>5
<1>7. /\ listing' \in Listings /\ listing'.pc = listing.pc
      /\ listing'.status = listing.status /\ listing'.last = listing.last
      /\ listing'.got = listing.got /\ listing'.steady = steady
  BY <1>6 DEF DataIInv, Data!TypeOK, Listings
<1>8. Data!TypeOK'
  BY <1>3, <1>4, <1>5, <1>7 DEF Data!TypeOK, Listings
<1>9. ASSUME listing.pc = "page", NEW j \in steady
      PROVE  /\ Shown(listing.status, invoices'[j])
             /\ \A x \in older'[j] : Shown(listing.status, x)
             /\ j <= listing.last => listing.got[j] = 1
  <2>1. /\ j \in InvoiceKeys /\ Shown(listing.status, invoices[j])
        /\ \A x \in older[j] : Shown(listing.status, x)
        /\ j <= listing.last => listing.got[j] = 1
    BY <1>6, <1>9 DEF DataIInv, ListingFollows
  <2>2. CASE j = i
    BY <1>4, <1>5, <1>6, <2>1, <2>2
  <2>3. CASE j # i
    BY <1>4, <1>5, <2>1, <2>3
  <2>. QED  BY <2>2, <2>3
<1>10. ListingFollows'
  <2>1. /\ \A j \in InvoiceKeys :
               listing.got[j] = 0 \/ (listing.got[j] = 1 /\ j <= listing.last)
        /\ listing.pc = "idle" => listing.last = 0
        /\ listing.pc = "done" => \A j \in steady : listing.got[j] = 1
    BY <1>6 DEF DataIInv, ListingFollows
  <2>. QED  BY <1>7, <1>9, <2>1 DEF ListingFollows
<1>. QED  BY <1>8, <1>10 DEF DataIInv

\* A listing begins before the first sort key.
LEMMA DataBegins == ASSUME DataIInv, Data!BeginListing PROVE DataIInv'
<1> DEFINE steady == {i \in InvoiceKeys : \A x \in Data!Visible(i) : Data!Passes(x)}
<1>1. /\ listing' = [listing EXCEPT !.pc = "page", !.steady = steady] /\ listing.pc = "idle"
      /\ UNCHANGED <<invoices, older, used, writes>>
  BY DEF Data!BeginListing
<1>2. steady \in SUBSET InvoiceKeys
  OBVIOUS
<1>3. \A i \in steady : /\ Shown(listing.status, invoices[i])
                        /\ \A x \in older[i] : Shown(listing.status, x)
  BY DEF Data!Visible, Data!Passes, Shown
<1> HIDE DEF steady
<1>4. /\ listing' \in Listings
      /\ listing'.pc = "page" /\ listing'.status = listing.status
      /\ listing'.last = listing.last /\ listing'.got = listing.got /\ listing'.steady = steady
  BY <1>1, <1>2 DEF DataIInv, Data!TypeOK, Listings
<1>5. listing.last = 0 /\ \A i \in InvoiceKeys : i \in Nat /\ ~ (i <= 0)
  BY <1>1, DataAssumption DEF DataIInv, ListingFollows
<1>6. ListingFollows'
  <2>1. \A i \in steady : /\ Shown(listing'.status, invoices'[i])
                          /\ \A x \in older'[i] : Shown(listing'.status, x)
                          /\ ~ (i <= listing'.last)
    BY <1>1, <1>2, <1>3, <1>4, <1>5
  <2>. QED  BY <1>4, <2>1 DEF DataIInv, ListingFollows
<1>. QED  BY <1>1, <1>4, <1>6 DEF DataIInv, Data!TypeOK, Listings

\* One page of the listing, as the query happens to see the table.
LEMMA DataPage ==
    ASSUME DataIInv, NEW v \in Data!Views, Data!ListOrgInvoices(v)
    PROVE  DataIInv'
<1> DEFINE after == {i \in InvoiceKeys : v[i] # Data!None /\ i > listing.last}
           read == Firsts(PageLimit, after)
           pc == IF Data!Cardinality(read) = PageLimit THEN "page" ELSE "done"
           last == IF read = {} THEN listing.last ELSE Data!Max(read)
           got == [i \in InvoiceKeys |-> IF i \in read /\ Shown(listing.status, v[i])
                                         THEN listing.got[i] + 1 ELSE listing.got[i]]
<1>1. /\ listing' = [listing EXCEPT !.pc = pc, !.last = last, !.got = got]
      /\ listing.pc = "page"
      /\ UNCHANGED <<invoices, older, used, writes>>
  <2>1. Data!PageRead(listing.last, v) = read
    BY FirstOfIs DEF Data!PageRead
  <2>2. \A x : Data!Passes(x) <=> Shown(listing.status, x)
    BY DEF Data!Passes, Shown
  <2>. QED  BY <2>1, <2>2 DEF Data!ListOrgInvoices
<1>2. /\ listing \in Listings
      /\ InvoiceKeys \in SUBSET Nat /\ IsFiniteSet(InvoiceKeys) /\ PageLimit \in Nat
  BY DataAssumption DEF DataIInv, Data!TypeOK, Listings
<1>3. after \in SUBSET InvoiceKeys /\ after \in SUBSET Nat /\ IsFiniteSet(after)
  <2>1. after \in SUBSET InvoiceKeys
    OBVIOUS
  <2> HIDE DEF after
  <2>. QED  BY <1>2, <2>1, FS_Subset
<1>4. \A i \in InvoiceKeys : i \in after <=> v[i] # Data!None /\ i > listing.last
  OBVIOUS
<1> HIDE DEF after
<1>5. /\ read \in SUBSET after /\ IsFiniteSet(read)
      /\ \A x \in after : x \notin read => \A r \in read : r < x
      /\ read # after => Cardinality(read) = PageLimit
  BY <1>2, <1>3, FirstsAre
<1>6. pc \in {"page", "done"} /\ (pc = "done" => read = after)
  BY <1>5 DEF Data!Cardinality, Cardinality
<1> HIDE DEF read, pc
<1>7. /\ last \in Nat /\ last >= listing.last
      /\ \A r \in read : r <= last
      /\ \A x \in after : x \notin read => last < x
  <2>0. listing.last \in Nat
    BY <1>2 DEF Listings
  <2>1. CASE read = {}
    BY <2>0, <1>2, <1>3, <1>4, <2>1
  <2>2. CASE read # {}
    <3>1. Data!Max(read) \in read /\ \A r \in read : Data!Max(read) >= r
      BY <1>3, <1>5, <2>2, MaxIs
    <3>2. last = Data!Max(read)
      BY <2>2
    <3> HIDE DEF last
    <3>3. last \in after /\ last \in Nat /\ last > listing.last
      BY <1>3, <1>4, <1>5, <3>1, <3>2
    <3>4. \A r \in read : r \in Nat /\ last >= r
      BY <1>3, <1>5, <3>1, <3>2
    <3>5. \A x \in after : x \notin read => last < x
      BY <1>5, <3>1, <3>2
    <3>. QED  BY <2>0, <3>3, <3>4, <3>5
  <2>. QED  BY <2>1, <2>2
<1> HIDE DEF last
<1>8. \A i \in InvoiceKeys :
          /\ listing.got[i] \in Nat
          /\ i \in read /\ Shown(listing.status, v[i]) => got[i] = listing.got[i] + 1
          /\ ~ (i \in read /\ Shown(listing.status, v[i])) => got[i] = listing.got[i]
  BY <1>2 DEF Listings
<1>9. got \in [InvoiceKeys -> Nat]
  BY <1>8
<1> HIDE DEF got
<1>10. /\ listing' \in Listings
       /\ listing'.pc = pc /\ listing'.status = listing.status /\ listing'.last = last
       /\ listing'.got = got /\ listing'.steady = listing.steady
       /\ listing.steady \in SUBSET InvoiceKeys /\ listing.last \in Nat
  BY <1>1, <1>2, <1>6, <1>7, <1>9 DEF Listings
<1>11. \A i \in InvoiceKeys : got[i] = 0 \/ (got[i] = 1 /\ i <= last)
  <2> TAKE i \in InvoiceKeys
  <2>1. listing.got[i] = 0 \/ (listing.got[i] = 1 /\ i <= listing.last)
    BY DEF DataIInv, ListingFollows
  <2>2. i \in Nat /\ last \in Nat /\ listing.last \in Nat /\ listing.last <= last
    BY <1>2, <1>7, <1>10
  <2>3. CASE i \in read /\ Shown(listing.status, v[i])
    <3>1. i > listing.last /\ i <= last
      BY <1>3, <1>4, <1>5, <1>7, <2>3
    <3>2. listing.got[i] = 0
      BY <2>1, <2>2, <3>1
    <3>. QED  BY <1>8, <2>3, <3>1, <3>2
  <2>4. CASE ~ (i \in read /\ Shown(listing.status, v[i]))
    <3>1. got[i] = listing.got[i]
      BY <1>8, <2>4
    <3>. QED  BY <2>1, <2>2, <3>1
  <2>. QED  BY <2>3, <2>4
<1>12. ASSUME NEW i \in listing.steady
       PROVE  /\ Shown(listing.status, invoices[i])
              /\ \A x \in older[i] : Shown(listing.status, x)
              /\ i <= last \/ pc = "done" => got[i] = 1
  <2>1. /\ i \in InvoiceKeys /\ Shown(listing.status, invoices[i])
        /\ \A x \in older[i] : Shown(listing.status, x)
        /\ i <= listing.last => listing.got[i] = 1
    BY <1>1, <1>10 DEF DataIInv, ListingFollows
  <2>2. i \in Nat /\ last \in Nat /\ listing.last \in Nat
    BY <1>2, <1>7, <1>10, <2>1
  <2>3. Shown(listing.status, v[i])
    BY <2>1 DEF Data!Views, Data!Visible
  <2>4. CASE i <= listing.last
    <3>1. i \notin read
      BY <1>3, <1>4, <1>5, <2>1, <2>2, <2>4
    <3>. QED  BY <1>8, <2>1, <2>4, <3>1
  <2>5. CASE ~ (i <= listing.last)
    <3>1. i \in after
      BY <1>4, <2>1, <2>2, <2>3, <2>5 DEF Shown
    <3>2. ASSUME i <= last \/ pc = "done" PROVE i \in read
      BY <1>6, <1>7, <2>2, <3>1, <3>2
    <3>3. ASSUME i \in read PROVE got[i] = 1
      <4>1. got[i] = listing.got[i] + 1
        BY <1>8, <2>1, <2>3, <3>3
      <4>2. listing.got[i] = 0
        BY <2>1, <2>5 DEF DataIInv, ListingFollows
      <4>. QED  BY <4>1, <4>2
    <3>. QED  BY <2>1, <3>2, <3>3
  <2>. QED  BY <2>4, <2>5
<1>13. ListingFollows'
  <2>1. invoices' = invoices /\ older' = older
    BY <1>1
  <2>. QED  BY <1>6, <1>10, <1>11, <1>12, <2>1 DEF ListingFollows
<1>14. Data!TypeOK'
  BY <1>1, <1>10 DEF DataIInv, Data!TypeOK, Listings
<1>. QED  BY <1>13, <1>14 DEF DataIInv

\* Every step of the client keeps the invariant.
LEMMA NextData == DataIInv /\ [Data!Next]_DataVars => DataIInv'
<1>1. CASE DataIInv /\ UNCHANGED DataVars
  BY <1>1 DEF DataVars, DataIInv, Data!TypeOK, ListingFollows
<1>2. CASE DataIInv /\ Data!Next
  BY <1>2, DataSettles, DataPuts, DataBegins, DataPage DEF Data!Next
<1>. QED  BY <1>1, <1>2

\* A listing that follows its invariant is complete.
LEMMA ListingIsSound == DataIInv => ListingIsComplete
<1> SUFFICES ASSUME DataIInv PROVE ListingIsComplete
  OBVIOUS
<1>1. \A i \in InvoiceKeys : listing.got[i] <= 1
  BY DEF DataIInv, ListingFollows
<1>. QED  BY <1>1 DEF DataIInv, ListingFollows, ListingIsComplete, Data!ListingIsComplete

--------------------------------------------------------------------------------
(* The three together: each runs alone and leaves the variables of the others. *)
AllIInv == BankingIInv /\ Covered /\ StockIInv /\ TurnIInv /\ DataIInv

\* In every reachable state of the programs their invariants hold.
THEOREM AllInvariance == AllSpec => []AllIInv
<1>1. AllInit => AllIInv
  BY InitBanking, InitCovered, InitStock, InitTurn, InitData DEF AllInit, AllIInv
<1>2. AllIInv /\ [AllNext]_<<part, vars, InventoryVars, DataVars>> => AllIInv'
  <2> SUFFICES ASSUME AllIInv, [AllNext]_<<part, vars, InventoryVars, DataVars>>
               PROVE  AllIInv'
    OBVIOUS
  <2>1. [Next]_vars /\ [Inv!Next]_InventoryVars /\ [Data!Next]_DataVars
    BY DEF AllNext
  <2>2. BankingIInv' /\ Covered'
    BY <2>1, NextBanking, NextCovered DEF AllIInv
  <2>3. StockIInv' /\ TurnIInv' /\ DataIInv'
    BY <2>1, NextStock, NextTurn, NextData DEF AllIInv
  <2>. QED  BY <2>2, <2>3 DEF AllIInv
<1>. QED  BY <1>1, <1>2, PTL DEF AllSpec

\* The variables of the banking, inventory and data access programs have their types.
THEOREM TypesCorrect == AllSpec => []TypesOK
<1>1. AllIInv => TypesOK
  BY BankingTypes, StockIsSound DEF AllIInv, DataIInv, TypesOK
<1>. QED  BY <1>1, AllInvariance, PTL

\* update_inventory_view and adjust (inventory command handlers) make no stock from
\* nothing, and none of their concurrent updates is lost.
THEOREM StockSound == AllSpec => []StockAddsUp
<1>1. AllIInv => StockAddsUp
  BY StockIsSound DEF AllIInv
<1>. QED  BY <1>1, AllInvariance, PTL

\* Commands that come in turn never oversell, are all in the log, are followed by the
\* view, and report low stock: the promises of the inventory's README.
THEOREM InTurnSound == AllSpec => []InTurnPromisesKept
<1>1. AllIInv => InTurnPromisesKept
  BY StockIsSound DEF AllIInv
<1>. QED  BY <1>1, AllInvariance, PTL

\* Following last_key of list_org_invoices lists every invoice of which no state that an
\* eventually consistent query could see failed the filter exactly once, and none twice,
\* for any sort keys, statuses, limit and writes.
THEOREM ListingComplete == AllSpec => []ListingIsComplete
<1>1. AllIInv => ListingIsComplete
  BY ListingIsSound DEF AllIInv
<1>. QED  BY <1>1, AllInvariance, PTL
================================================================================
