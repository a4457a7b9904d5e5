---------------------------- MODULE AccountStore ----------------------------
(***************************************************************************)
(* What the persistence layer of the database server promises to the login *)
(* servers, without saying how: every account has a durable content, the   *)
(* latest content that was committed for it, and at most one login server  *)
(* that owns it.  Contents are numbered in the order they were committed;  *)
(* 0 is "no character".                                                    *)
(*                                                                         *)
(* PersistLayer implements it with a write-back cache, an update queue and *)
(* the columns warehouse.serverid and property.databuf of the database.    *)
(***************************************************************************)
EXTENDS Naturals

CONSTANTS Accounts,     \* the accounts known to the cluster
          Servers,      \* the login servers that share the database
          NoServer,     \* nobody owns the account (serverid = 0)
          NoRow         \* the account has no row in table warehouse yet

VARIABLES stored,       \* stored[a]: the content that survives a crash
          latest,       \* latest[a]: the last content that was committed
          owner         \* owner[a]: the login server holding the account

vars == <<stored, latest, owner>>

TypeOK == /\ stored \in [Accounts -> Nat]
          /\ latest \in [Accounts -> Nat]
          /\ owner \in [Accounts -> Servers \cup {NoServer, NoRow}]

Init == /\ stored \in [Accounts -> {0, 1}]
        /\ latest = stored
        /\ owner \in [Accounts -> {NoServer, NoRow}]

(* A login server takes an account nobody owns; a new account gets its row *)
(* and, unless that fails half way, its first character.                   *)
Acquire(a, s) ==
  /\ owner[a] \in {NoServer, NoRow}
  /\ owner' = [owner EXCEPT ![a] = s]
  /\ UNCHANGED <<stored, latest>>

Create(a, s) ==
  /\ owner[a] \in {NoRow, s}
  /\ stored[a] = 0 /\ latest[a] = 0
  /\ owner' = [owner EXCEPT ![a] = s]
  /\ stored' = [stored EXCEPT ![a] = 1]
  /\ latest' = [latest EXCEPT ![a] = 1]

(* A save message replaces the latest content by a newer one.              *)
Commit(a) ==
  /\ latest'[a] \in Nat /\ latest'[a] > latest[a]
  /\ latest' = [latest EXCEPT ![a] = latest'[a]]
  /\ UNCHANGED <<stored, owner>>

(* Some content committed since the last flush becomes durable.            *)
Flush(a) ==
  /\ stored'[a] \in (stored[a] + 1)..latest[a]
  /\ stored' = [stored EXCEPT ![a] = stored'[a]]
  /\ UNCHANGED <<latest, owner>>

(* An account is given up only when nothing committed is still unsaved.    *)
Release(a) ==
  /\ owner[a] \in Servers
  /\ stored[a] = latest[a]
  /\ owner' = [owner EXCEPT ![a] = NoServer]
  /\ UNCHANGED <<stored, latest>>

Delete(a) ==
  /\ stored[a] = latest[a]
  /\ stored' = [stored EXCEPT ![a] = 0]
  /\ latest' = [latest EXCEPT ![a] = 0]
  /\ UNCHANGED owner

(* The server process ends: what was not flushed is forgotten.             *)
Forget == latest' = stored /\ UNCHANGED <<stored, owner>>

Next == \/ \E a \in Accounts : \/ Commit(a) \/ Flush(a) \/ Release(a) \/ Delete(a)
                               \/ \E s \in Servers : Acquire(a, s) \/ Create(a, s)
        \/ Forget

Spec == Init /\ [][Next]_vars
=============================================================================
