--------------------------- MODULE SignatureMonitor ---------------------------
(***************************************************************************)
(* ZeroClawSignatureMonitorService: every fifteen seconds a poll asks the  *)
(* chain for the signatures of each monitored address and records the      *)
(* payments it finds.  A poll does not wait for the one before it, and     *)
(* what has been seen is remembered in the process only.                   *)
(***************************************************************************)
EXTENDS Integers

CONSTANTS
    Polls,          \* polls that may overlap
    Sigs,           \* signatures of payments
    Refs,           \* reference keys of invoices
    Merchant,       \* the merchant address, monitored from the start
    NoSig, NoAddr,
    Mentions,       \* [Sigs -> SUBSET (Refs \cup {Merchant})], the accounts of a payment
    Underpaying,    \* the payments below the invoice's amount
    MaxTroubles     \* bound: requests of the monitor that fail and restarts of the process

Addresses == Refs \cup {Merchant}

ASSUME MonitorAssumption ==
    /\ Merchant \notin Refs
    /\ {NoSig, "none", "unstored", "active"} \cap Sigs = {} /\ NoAddr \notin Addresses
    /\ Mentions \in [Sigs -> SUBSET Addresses]
    /\ Underpaying \subseteq Sigs
    /\ MaxTroubles \in Nat

VARIABLES
    monitored,      \* monitoredAddresses: the invoice each address was registered for
    processed,      \* processedSignatures
    notified,       \* sentTelegramReceiptSignatures
    poll,           \* the local state of each poll
    bills,          \* zeroclaw_invoices: the status of a reference key, or the payment that settled it
    members,        \* the invoices billed by a user whom the settlements table accepts
    settlements,    \* zeroclaw_solana_settlements: the signature of a reference key
    landed,         \* payments on the chain
    receipts,       \* receipts sent since the process started (history)
    refused,        \* payments whose row was refused for its user (history)
    stops, faults   \* counters of the bounds

monitorVars == <<monitored, processed, notified, poll, bills, members, settlements,
                 landed, receipts, refused, stops, faults>>

\* An address is registered for an invoice, whose user and customer its entry
\* has; the merchant's first entry is the system's and has no customer.
System == Merchant
Entries == Refs \cup {System, NoAddr}

\* A poll awaits the invoices, the signatures of an address, the row of a
\* signature, its transaction and invoice, the insertion, the update.  It goes
\* by the entries as they were when it started.
PollPcs  == {"off", "invoices", "fetch", "lookup", "guards", "upsert", "patch"}
PollType == [pc : PollPcs, items : [Addresses -> Entries], todo : SUBSET Addresses,
             addr : Addresses \cup {NoAddr}, sigs : SUBSET Sigs, sig : Sigs \cup {NoSig}]
OffPoll  == [pc |-> "off", items |-> [a \in Addresses |-> NoAddr], todo |-> {},
             addr |-> NoAddr, sigs |-> {}, sig |-> NoSig]

MonitorTypeOK ==
    /\ monitored \in [Addresses -> Entries]
    /\ processed \subseteq Sigs
    /\ notified \subseteq Sigs
    /\ poll \in [Polls -> PollType]
    /\ bills \in [Refs -> {"none", "unstored", "active"} \cup Sigs]
    /\ members \subseteq Refs
    /\ settlements \in [Addresses -> Sigs \cup {NoSig}]
    /\ landed \subseteq Sigs
    /\ receipts \in [Sigs -> Nat]
    /\ refused \subseteq Sigs
    /\ stops \in Nat /\ faults \in Nat
    /\ stops + faults <= MaxTroubles

\* The merchant's address is the only one registered when the process starts.
Seed == [a \in Addresses |-> IF a = Merchant THEN System ELSE NoAddr]

MonitorInit ==
    /\ monitored = Seed
    /\ processed = {}
    /\ notified = {}
    /\ poll = [p \in Polls |-> OffPoll]
    /\ bills = [a \in Refs |-> "none"]
    /\ members = {}
    /\ settlements = [a \in Addresses |-> NoSig]
    /\ landed = {}
    /\ receipts = [s \in Sigs |-> 0]
    /\ refused = {}
    /\ stops = 0
    /\ faults = 0

Goto(p, pc) == poll' = [poll EXCEPT ![p].pc = pc]

\* What the loop over the addresses goes on to (the merchant's address was
\* registered first) ...
NextAddress(items, todo) ==
    IF todo = {} THEN {OffPoll}
    ELSE {[OffPoll EXCEPT !.pc = "fetch", !.items = items, !.todo = todo \ {a}, !.addr = a] :
            a \in IF Merchant \in todo THEN {Merchant} ELSE todo}

\* ... and the loop over an address's signatures, where those processed by now
\* are passed over.
NextSignature(p, sigs, seen) ==
    LET left == sigs \ seen
        next == IF left = {} THEN NextAddress(poll[p].items, poll[p].todo)
                ELSE {[poll[p] EXCEPT !.pc = "lookup", !.sigs = left \ {s}, !.sig = s] : s \in left}
    IN  \E state \in next : poll' = [poll EXCEPT ![p] = state]

Continue(p, seen) == NextSignature(p, poll[p].sigs, seen)

\* A request of the monitor fails.
Fault == stops + faults < MaxTroubles /\ faults' = faults + 1

Recorded(s) == \E a \in Addresses : settlements[a] = s

-----------------------------------------------------------------------------
(* What happens around the monitor *)

\* A checkout route registers the reference key and the merchant's address
\* for the invoice, of a member or of a user known by another name, and stores
\* the invoice, unless the database refuses it.
Bill(a) ==
    /\ bills[a] = "none"
    /\ monitored' = [monitored EXCEPT ![a] = a, ![Merchant] = a]
    /\ members' \in {members, members \cup {a}}
    /\ \E status \in {"active", "unstored"} : bills' = [bills EXCEPT ![a] = status]
    /\ UNCHANGED <<processed, notified, poll, settlements, landed, receipts, refused, stops, faults>>

\* Another route settles the invoice by a payment that has no other row, which
\* mentions it or only went to the merchant; in the first case it sends the
\* receipt, unless one was sent.
SettleBill(a, s) ==
    /\ bills[a] \in {"unstored", "active"}
    /\ s \in landed /\ Mentions[s] \cap {a, Merchant} # {}
    /\ ~\E b \in Addresses \ {a} : settlements[b] = s
    /\ bills' = [bills EXCEPT ![a] = s]
    /\ settlements' = [settlements EXCEPT ![a] = s]
    /\ \/ /\ a \in Mentions[s] /\ s \notin notified
          /\ notified' = notified \cup {s}
          /\ receipts' = [receipts EXCEPT ![s] = @ + 1]
       \/ (a \notin Mentions[s] \/ s \in notified) /\ UNCHANGED <<notified, receipts>>
    /\ UNCHANGED <<monitored, processed, poll, members, landed, refused, stops, faults>>

\* A customer pays.
Pay(s) ==
    /\ s \notin landed
    /\ \A a \in Mentions[s] \ {Merchant} : bills[a] # "none"
    /\ landed' = landed \cup {s}
    /\ UNCHANGED <<monitored, processed, notified, poll, bills, members, settlements, receipts,
                   refused, stops, faults>>

-----------------------------------------------------------------------------
(* A poll *)

\* The entries are listed before anything is asked for.
StartPoll(p) ==
    /\ poll[p].pc = "off"
    /\ poll' = [poll EXCEPT ![p] = [OffPoll EXCEPT !.pc = "invoices", !.items = monitored,
                                        !.todo = {a \in Addresses : monitored[a] # NoAddr}]]
    /\ UNCHANGED <<monitored, processed, notified, bills, members, settlements, landed,
                   receipts, refused, stops, faults>>

\* The poll asks for active invoices, to register their reference keys, by a
\* column that zeroclaw_invoices does not have: it gets none.
RegisterInvoices(p) ==
    /\ poll[p].pc = "invoices"
    /\ \E state \in NextAddress(poll[p].items, poll[p].todo) : poll' = [poll EXCEPT ![p] = state]
    /\ UNCHANGED <<monitored, processed, notified, bills, members, settlements, landed,
                   receipts, refused, stops, faults>>

ListSignatures(p) ==
    /\ poll[p].pc = "fetch"
    /\ \/ /\ NextSignature(p, {s \in landed : poll[p].addr \in Mentions[s]}, processed)
          /\ UNCHANGED faults
       \/ Fault /\ NextSignature(p, {}, processed)
    /\ UNCHANGED <<monitored, processed, notified, bills, members, settlements, landed, receipts, refused, stops>>

\* Mutant: the address is marked processed in place of the signature.
LookupSettlement_Address(p) ==
    /\ poll[p].pc = "lookup"
    /\ \/ /\ Recorded(poll[p].sig)
          /\ processed' = processed \cup {poll[p].addr}
          /\ notified' = notified \cup {poll[p].sig}
          /\ Continue(p, processed)
       \/ /\ ~Recorded(poll[p].sig)
          /\ Goto(p, "guards")
          /\ UNCHANGED <<processed, notified>>
    /\ UNCHANGED <<monitored, bills, members, settlements, landed,
                   receipts, refused, stops, faults>>

\* A signature that is recorded already counts as processed and as notified.
LookupSettlement(p) ==
    LET s == poll[p].sig
    IN  /\ poll[p].pc = "lookup"
        /\ \/ /\ Recorded(s)
              /\ processed' = processed \cup {s}
              /\ notified' = notified \cup {s}
              /\ Continue(p, processed')
              /\ UNCHANGED faults
           \/ /\ ~Recorded(s)
              /\ Goto(p, "guards")
              /\ UNCHANGED <<processed, notified, faults>>
           \/ /\ Fault
              /\ Goto(p, "guards")
              /\ UNCHANGED <<processed, notified>>
        /\ UNCHANGED <<monitored, bills, members, settlements, landed, receipts, refused, stops>>

\* The transaction cannot be parsed: it stays to be processed.
ParseFails(p) ==
    /\ poll[p].pc = "guards"
    /\ Fault
    /\ Continue(p, processed)
    /\ UNCHANGED <<monitored, processed, notified, bills, members, settlements, landed, receipts, refused, stops>>

\* What the guards let pass: under the merchant's address, payments that
\* mention an active invoice; under a reference key, payments of an invoice that
\* is stored, unless they are too small and another has settled it.
Passes(s, a) ==
    IF a = Merchant
    THEN \E k \in Mentions[s] \cap Refs : bills[k] = "active"
    ELSE bills[a] # "unstored" /\ ~(bills[a] \in Sigs \ {s} /\ s \in Underpaying)

\* A payment that does not pass is processed; under the merchant's address it
\* does not pass either if the invoices cannot be read.
SkipSignature(p) ==
    /\ poll[p].pc = "guards"
    /\ \/ ~Passes(poll[p].sig, poll[p].addr) /\ UNCHANGED faults
       \/ poll[p].addr = Merchant /\ Fault
    /\ processed' = processed \cup {poll[p].sig}
    /\ Continue(p, processed')
    /\ UNCHANGED <<monitored, notified, bills, members, settlements, landed, receipts, refused, stops>>

\* Mutant: the invoice is updated before the payment is recorded.
Accept_PatchFirst(p) ==
    /\ poll[p].pc = "guards"
    /\ Passes(poll[p].sig, poll[p].addr)
    /\ processed' = processed \cup {poll[p].sig}
    /\ Goto(p, "patch")
    /\ UNCHANGED <<monitored, notified, bills, members, settlements, landed,
                   receipts, refused, stops, faults>>

\* A payment that passes is processed before anything is stored.  Under a
\* reference key it passes too if the invoice cannot be read.
Accept(p) ==
    /\ poll[p].pc = "guards"
    /\ \/ Passes(poll[p].sig, poll[p].addr) /\ UNCHANGED faults
       \/ poll[p].addr \in Refs /\ Fault
    /\ processed' = processed \cup {poll[p].sig}
    /\ Goto(p, "upsert")
    /\ UNCHANGED <<monitored, notified, bills, members, settlements, landed, receipts, refused, stops>>

\* The row of the address is inserted or overwritten, for the user of the
\* entry.  The database refuses a user who is no member and a signature that
\* another row has, which the monitor does not notice; it gives up only when
\* the request itself fails.
UpsertSettlement(p) ==
    LET a == poll[p].addr
        s == poll[p].sig
        taken == \E b \in Addresses \ {a} : settlements[b] = s
        owned == poll[p].items[a] \in members
    IN  /\ poll[p].pc = "upsert"
        /\ \/ /\ Goto(p, "patch")
              /\ settlements' = IF owned /\ ~taken THEN [settlements EXCEPT ![a] = s] ELSE settlements
              /\ refused' = IF owned THEN refused ELSE refused \cup {s}
              /\ UNCHANGED faults
           \/ /\ Fault
              /\ Goto(p, "patch") \/ Continue(p, processed)
              /\ UNCHANGED <<settlements, refused>>
        /\ UNCHANGED <<monitored, processed, notified, bills, members, landed, receipts, stops>>

\* The entry of the address names a customer.
HasCustomer(p) == poll[p].items[poll[p].addr] \in Refs

\* Mutant: the receipt is sent whoever sent one before.
Notify_Again(p) ==
    LET s == poll[p].sig
    IN  /\ poll[p].pc = "patch"
        /\ notified' = notified \cup {s}
        /\ receipts' = IF HasCustomer(p) THEN [receipts EXCEPT ![s] = @ + 1] ELSE receipts
        /\ Continue(p, processed)
        /\ UNCHANGED <<monitored, processed, bills, members, settlements, landed, refused, stops, faults>>

\* The invoice is updated, and the customer gets a receipt unless one was
\* sent for the signature.  The statuses the monitor writes (confirmed,
\* underpaid, overpaid) are not among those zeroclaw_invoices allows, so that
\* the row stays as it is.  Under the merchant's address the customer is that
\* of the invoice it was registered for last.
Notify(p) ==
    LET s == poll[p].sig
    IN  /\ poll[p].pc = "patch"
        /\ Continue(p, processed)
        /\ \/ /\ HasCustomer(p) /\ s \notin notified
              /\ notified' = notified \cup {s}
              /\ receipts' = [receipts EXCEPT ![s] = @ + 1]
              /\ UNCHANGED faults
           \/ /\ ~HasCustomer(p) \/ s \in notified
              /\ UNCHANGED <<notified, receipts, faults>>
           \/ Fault /\ UNCHANGED <<notified, receipts>>
        /\ UNCHANGED <<monitored, processed, bills, members, settlements, landed, refused, stops>>

\* Mutant: the signatures seen survive a restart, their settlements may not.
Stop_KeepsProcessed ==
    /\ stops + faults < MaxTroubles
    /\ stops' = stops + 1
    /\ poll' = [p \in Polls |-> OffPoll]
    /\ UNCHANGED <<monitored, processed, notified, bills, members, settlements, landed, receipts, refused, faults>>

\* The process stops and starts again, with empty memory: the registrations of
\* the checkout routes are gone too.
Stop ==
    /\ stops + faults < MaxTroubles
    /\ stops' = stops + 1
    /\ monitored' = Seed
    /\ processed' = {}
    /\ notified' = {}
    /\ poll' = [p \in Polls |-> OffPoll]
    /\ receipts' = [s \in Sigs |-> 0]
    /\ refused' = {}
    /\ UNCHANGED <<bills, members, settlements, landed, faults>>

-----------------------------------------------------------------------------
PollStep(p) ==
    \/ StartPoll(p)
    \/ RegisterInvoices(p)
    \/ ListSignatures(p)
    \/ LookupSettlement(p)
    \/ ParseFails(p)
    \/ SkipSignature(p)
    \/ Accept(p)
    \/ UpsertSettlement(p)
    \/ Notify(p)

MonitorNext ==
    \/ \E p \in Polls : PollStep(p)
    \/ \E a \in Refs : Bill(a) \/ \E s \in Sigs : SettleBill(a, s)
    \/ \E s \in Sigs : Pay(s)
    \/ Stop

MonitorSpec == MonitorInit /\ [][MonitorNext]_monitorVars

-----------------------------------------------------------------------------
(* A customer gets one receipt for a payment while the process runs,       *)
(* however polls overlap and whichever of its addresses finds it.          *)
OneReceipt == \A s \in Sigs : receipts[s] <= 1

(* No other payment mentions an address of s.                              *)
Lone(s) == \A t \in Sigs \ {s} : Mentions[s] \cap Mentions[t] = {}

(* Another route has settled an invoice, so that it writes rows too.       *)
Settled == \E a \in Refs : bills[a] \in Sigs

(* The customer gets a receipt for a payment that is recorded: two polls   *)
(* that work on one signature, under two of its addresses, do not leave it *)
(* without a row.  Excepted are a payment whose row the database has       *)
(* refused for its user, which the monitor does not notice, failed         *)
(* requests, and the routes that settle invoices, which overwrite rows.    *)
ReceiptsAreRecorded ==
    \A s \in Sigs : Lone(s) /\ receipts[s] > 0 =>
        Recorded(s) \/ s \in refused \/ faults > 0 \/ Settled

(* A payment of an invoice that is marked processed, and so will not be    *)
(* looked at again while the process runs, is recorded or is about to be,  *)
(* with the same exceptions, although the mark comes before the row and    *)
(* the process may stop in between.  An invoice without a row is passed    *)
(* over.                                                                   *)
ProcessedIsRecorded ==
    \A s \in processed, a \in Refs : Lone(s) /\ Mentions[s] = {a} =>
        \/ Recorded(s) \/ s \in refused
        \/ \E p \in Polls : poll[p].pc = "upsert" /\ poll[p].sig = s
        \/ bills[a] = "unstored" \/ faults > 0 \/ Settled
===============================================================================
