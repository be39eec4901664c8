-------------------------------- MODULE Parsing --------------------------------
(***************************************************************************)
(* TokenAnalyzer._extract_all_data and what follows it: the list of        *)
(* transactions of a token is gone through once, in the order in which it  *)
(* was collected, and leaves the fields that all metrics read.             *)
(*                                                                         *)
(* A transaction names its accounts in order, the signer first, and the    *)
(* balances that owners had before and after it.  The ledger of the chain, *)
(* at the last of them, is part of the model, so that the fields can be    *)
(* held against it.  An owner may have several token accounts, of which a  *)
(* transaction moves one; of what was asked for, the collector may have    *)
(* lost a part that its success rate allows.                               *)
(***************************************************************************)
EXTENDS Integers, Sequences, FiniteSets, SequencesExt

CONSTANTS
    Owners,
    TokenAccounts,
    OwnerOf,        \* the owner of each
    Program,        \* the programs of pump and raydium, an account too
    FirstBalances,  \* balances there may be when the collected data begin
    KeyLists(_, _), \* accounts of a transfer from one owner to another
    Gaps,           \* seconds between two transactions
    Start,          \* before the first one
    MinRate,        \* 70: per cent of the transactions that must be received
    MaxTrades       \* bound on the transactions

ParsingAssumption ==
    /\ Program \notin Owners
    /\ OwnerOf \in [TokenAccounts -> Owners]
    /\ FirstBalances \subseteq [TokenAccounts -> Nat]
    /\ Gaps \subseteq Nat /\ Start \in Nat \ {0} /\ MaxTrades \in Nat

VARIABLES
    ledger,             \* the balances of the token accounts on the chain
    clock,
    transactions,       \* those that are received
    lost,               \* how many are not
    shown,              \* token accounts whose last transaction is received
    parsed,             \* how many of them, or -1 while they are collected
    current_holders, historical_holders,
    address_activity, first_seen,
    tx_timestamps,      \* as a set
    buy_volume, sell_volume,
    migration_time      \* 0 for None

chain == <<ledger, clock, transactions, lost, shown>>
balances == <<current_holders, historical_holders>>
seen == <<address_activity, first_seen, tx_timestamps>>
volumes == <<buy_volume, sell_volume>>
parsing == <<chain, parsed, balances, seen, volumes, migration_time>>

Accounts == Owners \union {Program}

Zero(S) == [x \in S |-> 0]

InitParsing ==
    /\ ledger \in FirstBalances
    /\ clock = Start
    /\ transactions = <<>> /\ lost = 0 /\ shown = {}
    /\ parsed = -1
    /\ current_holders = Zero(Owners) /\ historical_holders = Zero(Owners)
    /\ address_activity = Zero(Accounts) /\ first_seen = Zero(Accounts)
    /\ tx_timestamps = {}
    /\ buy_volume = Zero(Owners) /\ sell_volume = Zero(Owners)
    /\ migration_time = 0

(* One of a token, moved from one owner to another.                        *)
Move(from, to) ==
    /\ parsed = -1 /\ Len(transactions) + lost < MaxTrades
    /\ OwnerOf[from] # OwnerOf[to]
    /\ ledger[from] > 0
    /\ ledger' = [ledger EXCEPT ![from] = @ - 1, ![to] = @ + 1]
    /\ UNCHANGED <<parsed, balances, seen, volumes, migration_time>>

(* Token accounts as a transaction lists them: by their owners.            *)
ByOwner(accounts, amounts) ==
    [o \in {OwnerOf[w] : w \in accounts} |-> amounts[CHOOSE w \in accounts : OwnerOf[w] = o]]

(* It is moved some seconds later or in a transaction without a time.      *)
(* Accounts without a balance are not listed before it.                    *)
Trade(from, to) ==
    /\ Move(from, to)
    /\ \E gap \in Gaps \union {0}, keys \in KeyLists(OwnerOf[from], OwnerOf[to]) :
           /\ transactions' = Append(transactions,
                  [time |-> IF gap = 0 THEN 0 ELSE clock + gap, keys |-> keys,
                   pre |-> ByOwner({w \in {from, to} : ledger[w] > 0}, ledger),
                   post |-> ByOwner({from, to}, ledger')])
           /\ clock' = clock + gap
    /\ shown' = shown \union {from, to}
    /\ UNCHANGED lost

(* The collector asks for a transaction in vain.                           *)
Lose(from, to) ==
    /\ Move(from, to)
    /\ lost' = lost + 1
    /\ shown' = shown \ {from, to}
    /\ UNCHANGED <<clock, transactions>>

(* The collection ends, valid: the latest transactions come newest first,  *)
(* the earliest ones, which are turned round, oldest first.                *)
Collected ==
    /\ parsed = -1 /\ transactions # <<>>
    /\ 100 * Len(transactions) >= MinRate * (Len(transactions) + lost)
    /\ parsed' = 0
    /\ transactions' \in {transactions, Reverse(transactions)}
    /\ UNCHANGED <<ledger, clock, lost, shown, balances, seen, volumes, migration_time>>

-------------------------------------------------------------------------------
Names(t, a) == a \in ToSet(t.keys)

(* _identify_pools, before there are holders: every account of a           *)
(* transaction that names a program.                                       *)
ProgramPools ==
    UNION {ToSet(transactions[i].keys) :
               i \in {j \in DOMAIN transactions : Names(transactions[j], Program)}}

(* What an owner has in a list of balances, which may not name it.         *)
Amount(list, o) == IF o \in DOMAIN list THEN list[o] ELSE 0

SumOver(f, S) == FoldFunctionOnSet(LAMBDA x, y : x + y, 0, f, S)

(* Outside of the pools, who is named and how much they gain, together.    *)
Changed(t) == (DOMAIN t.pre \union DOMAIN t.post) \ ProgramPools

TotalChange(t) ==
    SumOver([o \in Owners |-> Amount(t.post, o) - Amount(t.pre, o)], Changed(t))

HasPool(t) == ToSet(t.keys) \intersect ProgramPools # {}

(* The gain, or the loss, of all is credited to each.                      *)
ParseVolumes(t) ==
    LET change == IF HasPool(t) THEN TotalChange(t) ELSE 0
    IN  /\ buy_volume' = [o \in Owners |-> buy_volume[o] +
               IF change > 0 /\ o \in Changed(t) THEN change ELSE 0]
        /\ sell_volume' = [o \in Owners |-> sell_volume[o] +
               IF change < 0 /\ o \in Changed(t) THEN -change ELSE 0]

Larger(x, y) == IF x > y THEN x ELSE y

(* Mutant: the balance after a transaction replaces the one that is there. *)
ParseLatestBalances(t) ==
    /\ historical_holders' = [o \in Owners |->
           Larger(historical_holders[o], Larger(Amount(t.pre, o), Amount(t.post, o)))]
    /\ current_holders' = [o \in Owners |->
           IF o \in DOMAIN t.post THEN t.post[o] ELSE current_holders[o]]

(* Both keep the largest balance, of before and after or of after.         *)
ParseBalances(t) ==
    /\ historical_holders' = [o \in Owners |->
           Larger(historical_holders[o], Larger(Amount(t.pre, o), Amount(t.post, o)))]
    /\ current_holders' = [o \in Owners |-> Larger(current_holders[o], Amount(t.post, o))]

(* An address first seen without a time keeps it, and 0 stands for it.     *)
ParseKeys(t) ==
    /\ address_activity' = [a \in Accounts |->
           address_activity[a] + Cardinality({i \in DOMAIN t.keys : t.keys[i] = a})]
    /\ first_seen' = [a \in Accounts |->
           IF Names(t, a) /\ (address_activity[a] = 0 \/ t.time \in 1..(first_seen[a] - 1))
           THEN t.time ELSE first_seen[a]]

Parse ==
    /\ parsed \in 0..(Len(transactions) - 1)
    /\ LET t == transactions[parsed + 1]
       IN  /\ tx_timestamps' = IF t.time # 0 THEN tx_timestamps \union {t.time} ELSE tx_timestamps
           /\ ParseVolumes(t)
           /\ ParseBalances(t)
           /\ ParseKeys(t)
    /\ parsed' = parsed + 1
    /\ UNCHANGED <<chain, migration_time>>

Least(S) == CHOOSE x \in S : \A y \in S : x <= y

creation_time == IF tx_timestamps = {} THEN 0 ELSE Least(tx_timestamps)

(* _find_migration_time: the first transaction with a program, but those   *)
(* of the time of creation.                                                *)
FindMigrationTime ==
    /\ parsed = Len(transactions)
    /\ LET times == {transactions[i].time : i \in {j \in DOMAIN transactions :
                         Names(transactions[j], Program)}} \ {0, creation_time}
       IN  migration_time' = IF times = {} THEN 0 ELSE Least(times)
    /\ parsed' = parsed + 1
    /\ UNCHANGED <<chain, balances, seen, volumes>>

(* _identify_transferred_holders; SOLD is who never had a balance after.   *)
TransferStatus(o) ==
    IF historical_holders[o] = 0 THEN "none"
    ELSE IF current_holders[o] = 0 THEN "SOLD"
    ELSE IF 2 * current_holders[o] < historical_holders[o] THEN "PARTIAL_TRANSFER" ELSE "none"

Parsed == parsed = Len(transactions) + 1

NextParsing ==
    \/ \E from, to \in TokenAccounts : Trade(from, to) \/ Lose(from, to)
    \/ Collected \/ Parse \/ FindMigrationTime

-------------------------------------------------------------------------------
(* Whatever the order of the transactions, whichever of them are lost and  *)
(* however many token accounts an owner has: it is never taken to hold     *)
(* less than a transaction leaves it, nor less than the chain has in any   *)
(* account whose last transaction was received; who ever held tokens after *)
(* one of them is a holder for good, and not SOLD, even with nothing left; *)
(* and an address was not seen before the time that is kept for it.        *)
HoldersKeepPeaks ==
    parsed >= Len(transactions) =>
        /\ \A w \in shown : current_holders[OwnerOf[w]] >= ledger[w]
        /\ \A o \in Owners :
               LET listed == {transactions[i].post[o] : i \in {j \in DOMAIN transactions :
                                                    o \in DOMAIN transactions[j].post}}
                   times == {transactions[i].time :
                                 i \in {j \in DOMAIN transactions : Names(transactions[j], o)}}
               IN  /\ \A amount \in listed : current_holders[o] >= amount
                   /\ (\E amount \in listed : amount > 0) => TransferStatus(o) # "SOLD"
                   /\ first_seen[o] # 0 => first_seen[o] = Least(times \ {0})
===============================================================================
