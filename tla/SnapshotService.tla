--------------------------- MODULE SnapshotService ---------------------------
(****************************************************************************)
(* What the live snapshot service of one producer process promises to the   *)
(* clients of its measurements, with no cache, no lock, no worker thread    *)
(* and no event loop: SnapshotServer is shown to implement it.              *)
(*                                                                          *)
(* Time stands for the producer's progress: the data a snapshot callback    *)
(* returns is identified by the time at which the callback ran.             *)
(****************************************************************************)
EXTENDS Naturals

CONSTANTS
    Ids,            \* measurement identifiers
    Connections,    \* client connections, one outstanding request each
    None            \* stands for the absence of either

NoEntry == 0        \* no provider is registered under the identifier
NotAsked == [id |-> None, entry |-> NoEntry, floor |-> 0, tracked |-> FALSE]
NoReply == [status |-> "none", entry |-> NoEntry, at |-> 0]
ErrorReply == [status |-> "error", entry |-> NoEntry, at |-> 0]

VARIABLES
    current,    \* per identifier, the provider registered under it
    entries,    \* providers registered so far
    asked,      \* per connection, the request being answered
    reply,      \* per connection, the response being sent
    newest,     \* per identifier, the newest snapshot a client has of `current`
    now

serviceVars == <<current, entries, asked, reply, newest, now>>

ServiceInit ==
    /\ current = [m \in Ids |-> NoEntry]
    /\ entries = 0
    /\ asked = [c \in Connections |-> NotAsked]
    /\ reply = [c \in Connections |-> NoReply]
    /\ newest = [m \in Ids |-> 0]
    /\ now = 0

Publish(m) ==
    /\ entries' = entries + 1
    /\ current' = [current EXCEPT ![m] = entries + 1]
    /\ newest' = [newest EXCEPT ![m] = 0]
    /\ UNCHANGED <<asked, reply, now>>

Withdraw(m) ==
    /\ current' = [current EXCEPT ![m] = NoEntry]
    /\ UNCHANGED <<entries, asked, reply, newest, now>>

(* A request is admitted for the provider published at that moment.  A      *)
(* tracked request (a snapshot) must not go back behind what a client has   *)
(* already been given; any other must be computed after it was asked.       *)
Ask(c, m, tracked) ==
    /\ asked[c] = NotAsked /\ reply[c] = NoReply
    /\ current[m] # NoEntry
    /\ asked' = [asked EXCEPT ![c] =
                    [id |-> m, entry |-> current[m],
                     floor |-> IF tracked THEN newest[m] ELSE now,
                     tracked |-> tracked]]
    /\ UNCHANGED <<current, entries, reply, newest, now>>

NotFound(c, m) ==
    /\ asked[c] = NotAsked /\ reply[c] = NoReply
    /\ current[m] = NoEntry
    /\ reply' = [reply EXCEPT ![c] = ErrorReply]
    /\ UNCHANGED <<current, entries, asked, newest, now>>

Answer(c, at) ==
    /\ asked[c] # NotAsked
    /\ asked[c].floor <= at
    /\ reply' = [reply EXCEPT ![c] =
                    [status |-> "data", entry |-> asked[c].entry, at |-> at]]
    /\ newest' = IF asked[c].tracked /\ current[asked[c].id] = asked[c].entry
                    /\ newest[asked[c].id] < at
                 THEN [newest EXCEPT ![asked[c].id] = at]
                 ELSE newest
    /\ asked' = [asked EXCEPT ![c] = NotAsked]
    /\ UNCHANGED <<current, entries, now>>

Fail(c) ==
    /\ asked[c] # NotAsked
    /\ reply' = [reply EXCEPT ![c] = ErrorReply]
    /\ asked' = [asked EXCEPT ![c] = NotAsked]
    /\ UNCHANGED <<current, entries, newest, now>>

Send(c) ==
    /\ reply[c] # NoReply
    /\ reply' = [reply EXCEPT ![c] = NoReply]
    /\ UNCHANGED <<current, entries, asked, newest, now>>

Advance ==
    /\ now' = now + 1
    /\ UNCHANGED <<current, entries, asked, reply, newest>>

ServiceNext ==
    \/ \E m \in Ids : Publish(m) \/ Withdraw(m)
    \/ \E c \in Connections, m \in Ids :
          NotFound(c, m) \/ \E tracked \in BOOLEAN : Ask(c, m, tracked)
    \/ \E c \in Connections : Fail(c) \/ Send(c) \/ \E at \in 0..now : Answer(c, at)
    \/ Advance

ServiceSpec == ServiceInit /\ [][ServiceNext]_serviceVars
=============================================================================
