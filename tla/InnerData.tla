----------------------------- MODULE InnerData -----------------------------
(***************************************************************************)
(* The data of a contract call is a CBOR map inside the transaction.  Its  *)
(* review item reads "{...}"; in expert mode the user may open it and walk *)
(* through its levels.  The walk is driven by the view of ledger-zxlib,    *)
(* which is external; what it shows comes from tx_getInnerItem,            *)
(* tx_getNumInnerItems and tx_canInspectItem.  Between two calls these     *)
(* remember two counts and two flags, across transactions as well.         *)
(*                                                                         *)
(* A datum has a kind (leaf, array or map), kids (in a map names and       *)
(* values by turns) and a name, which stands for the text of a leaf.  The  *)
(* data is taken to be well-formed.                                        *)
(***************************************************************************)
EXTENDS Naturals, SequencesExt

CONSTANTS
  Datum,        \* data of any depth: what is in a datum is one
  Transaction,  \* what the device reviews: its method, tokens and data, NoData without
  NoData,
  Index,        \* positions the view asks for, a byte each
  MaxDepth      \* MAX_DEPTH: levels the view can trace

ASSUME InnerAssumption == Index \subseteq 0..255 /\ MaxDepth \in Nat \ {0}

\* The data is well-formed, and a transaction's is NoData or such.  Its items are
\* fewer than the byte that counts them can hold.
ASSUME DataAssumption ==
  /\ \A d \in Datum :
       /\ d.kind \in {"leaf", "array", "map"}
       /\ d.kids \in Seq(Datum)
       /\ d.kind = "map" => Len(d.kids) % 2 = 0
  /\ \A t \in Transaction : /\ t.data \in Datum \cup {NoData}
                           /\ t.tokens \in Nat /\ t.tokens < 249

VARIABLES
  tx,                     \* the transaction under review
  page,                   \* the item of it on the screen
  view,                   \* where the user is, and what the view has asked there
  on_data_field,          \* the page shown last is the data of a contract call
  num_items_initialized,  \* the counts are those of this data
  base_level_item_cnt,    \* the length of the data
  current_type_item_cnt,  \* the length of the level read last
  answer                  \* what the last call of the view returned

flags  == <<on_data_field, num_items_initialized>>
counts == <<base_level_item_cnt, current_type_item_cnt>>
vars   == <<tx, page, view, flags, counts, answer>>

-----------------------------------------------------------------------------
\* Iterators of tinycbor.  A CborValue inside a container is the sequence of the
\* data from there to its end: Advanced by n, and entered at its head.
Advanced(at, n) == SubSeq(at, n + 1, Len(at))

Stride(type) == IF type = "map" THEN 2 ELSE 1

Length(n) == Len(n.kids) \div Stride(n.kind)

\* Mutant of Followed: the name of the entry is not skipped.
FollowedByName(l, i) ==
  LET item == Head(Advanced(l.at, Stride(l.type) * i))
  IN [at |-> item.kids, type |-> item.kind, cnt |-> Length(item)]

\* One level of the trace: i entries are skipped, in a map also the name of the
\* next, and the container found there is entered.
Followed(l, i) ==
  LET item == Head(Advanced(l.at, Stride(l.type) * i + Stride(l.type) - 1))
  IN [at |-> item.kids, type |-> item.kind, cnt |-> Length(item)]

\* parser_getInnerField: the level that the trace leads to.  The data's own level
\* has the length that was counted once.
parser_getInnerField(trace) ==
  LET level[k \in 0..Len(trace)] ==
        IF k = 0
        THEN [at |-> tx.data.kids, type |-> "map", cnt |-> base_level_item_cnt]
        ELSE Followed(level[k - 1], trace[k])
  IN level[Len(trace)]

\* parser_printInnerField: a container is shown by its brackets.
Shown(n) == IF n.kind = "leaf" THEN n.name ELSE n.kind

Printed(at, type, i) ==
  LET rest == Advanced(at, Stride(type) * i)
  IN [k \in 1..(IF Len(rest) < Stride(type) THEN Len(rest) ELSE Stride(type))
        |-> Shown(rest[k])]

-----------------------------------------------------------------------------
(* What the view calls.                                                    *)

Nothing == [op |-> "none"]

Inspecting == view.mode = "inspect"

\* parser_init_innerNumItems
Counted == base_level_item_cnt' = Length(tx.data)

\* tx_getNumInnerItems: the data is counted first where that is due.
GetCount ==
  /\ Inspecting
  /\ num_items_initialized' = TRUE
  /\ IF num_items_initialized THEN UNCHANGED counts
     ELSE Counted /\ current_type_item_cnt' = base_level_item_cnt'
  /\ answer' = [op |-> "count", num |-> current_type_item_cnt' % 256]
  /\ view' = [view EXCEPT !.counted = TRUE]
  /\ UNCHANGED <<tx, page, on_data_field>>

\* tx_getInnerItem for the item i of the level.  The view has counted the data
\* before, when it opened it: the count would move the iterator back.
GetItem(i) ==
  /\ Inspecting
  /\ view.counted
  /\ LET l == parser_getInnerField(view.trace) IN
     /\ current_type_item_cnt' = l.cnt
     /\ answer' = [op |-> "item", at |-> i, ok |-> i < l.cnt % 256,
                   shown |-> IF i < l.cnt % 256 THEN Printed(l.at, l.type, i) ELSE <<>>]
  /\ view' = [view EXCEPT !.read = view.trace]
  /\ UNCHANGED <<tx, page, flags, base_level_item_cnt>>

\* parser_canInspectItem below the level of the data's page: whether the item i
\* of the level is a container.
IsContainer(trace, i) ==
  LET l    == parser_getInnerField(trace)
      rest == Advanced(l.at, Stride(l.type) * i + Stride(l.type) - 1)
  IN rest # <<>> /\ rest[1].kind \in {"array", "map"}

\* tx_canInspectItem for the item on the screen; the view goes down where it can.
Descend(i) ==
  /\ Inspecting
  /\ answer.op = "item" /\ answer.at = i /\ answer.ok
  /\ Len(view.trace) + 1 < MaxDepth
  /\ LET yes == IsContainer(view.trace, i) IN
     /\ answer' = [op |-> "can", at |-> i, yes |-> yes, from |-> view.trace]
     /\ view' = IF yes THEN [view EXCEPT !.trace = Append(view.trace, i)] ELSE view
  /\ UNCHANGED <<tx, page, flags, counts>>

-----------------------------------------------------------------------------
(* The review around it.                                                   *)

DATA_INDEX == 2

IsContract(t) == t.method \in {"call", "instantiate", "upgrade"}

\* _readRuntimeContractsBody: data that is no map, or an empty one, is no item.
DataValid(t) ==
  /\ IsContract(t)
  /\ t.data # NoData
  /\ t.data.kind = "map"
  /\ t.data.kids # <<>>

\* _getNumItems: fee, gas and ParaTime, and what the method has of its own, an
\* item for every token of a contract call.  The pages of other methods, here
\* three, touch no flag.
LastPage(t) ==
  2 + (IF ~IsContract(t) THEN 3
       ELSE (IF t.method = "upgrade" THEN 3 ELSE 2)
            + t.tokens + (IF DataValid(t) THEN 1 ELSE 0))

Pages(t) == 0..LastPage(t)

\* Mutants of Displayed: the flag stays behind the data's page; the counts of the
\* data shown before are kept, as for Upgrade.
DisplayedFlagStays(f, t, p) ==
  IF ~IsContract(t) THEN f
  ELSE IF DataValid(t) /\ p = DATA_INDEX
  THEN [data |-> TRUE, counted |-> f.counted /\ t.method = "upgrade"]
  ELSE f

DisplayedKeepsCount(f, t, p) ==
  IF ~IsContract(t) THEN f
  ELSE [data |-> DataValid(t) /\ p = DATA_INDEX, counted |-> f.counted]

\* What parser_getItemRuntimeContracts and parser_getItemRuntimeContractsUpgrade
\* leave in the flags for the page p of t.
Displayed(f, t, p) ==
  IF ~IsContract(t) THEN f
  ELSE IF DataValid(t) /\ p = DATA_INDEX
  THEN [data |-> TRUE, counted |-> f.counted /\ t.method = "upgrade"]
  ELSE [f EXCEPT !.data = FALSE]

Flags == [data |-> on_data_field, counted |-> num_items_initialized]

SetFlags(f) == on_data_field' = f.data /\ num_items_initialized' = f.counted

Reviewing ==
  [mode |-> "review", trace |-> <<>>, read |-> <<>>, counted |-> FALSE, stale |-> FALSE]
Closed    == [Reviewing EXCEPT !.mode = "idle"]

\* parser_validate walks over all items.
Validated(t) ==
  LET walked[p \in Pages(t)] ==
        Displayed(IF p = 0 THEN Flags ELSE walked[p - 1], t, p)
  IN walked[LastPage(t)]

\* After the walk the view shows the first item.
Receive(t) ==
  /\ view.mode = "idle"
  /\ SetFlags(Displayed(Validated(t), t, 0))
  /\ tx' = t
  /\ page' = 0
  /\ view' = Reviewing
  /\ answer' = Nothing
  /\ UNCHANGED counts

\* The view turns to a neighbouring page.
Turn(p) ==
  /\ view.mode = "review"
  /\ p \in Pages(tx) /\ (p = page + 1 \/ page = p + 1)
  /\ page' = p
  /\ SetFlags(Displayed(Flags, tx, p))
  /\ answer' = Nothing
  /\ UNCHANGED <<tx, view, counts>>

\* tx_canInspectItem at level 0: the page on the screen, once.
Open ==
  /\ view.mode = "review"
  /\ answer' = [op |-> "open", yes |-> on_data_field]
  /\ on_data_field' = FALSE
  /\ view' = IF on_data_field THEN [view EXCEPT !.mode = "inspect",
                                                 !.stale = num_items_initialized]
             ELSE view
  /\ UNCHANGED <<tx, page, num_items_initialized, counts>>

\* One level up, or back to the page of the data, which is shown again.
Ascend ==
  /\ Inspecting
  /\ IF view.trace # <<>>
     THEN view' = [view EXCEPT !.trace = Front(view.trace)] /\ UNCHANGED flags
     ELSE view' = Reviewing /\ SetFlags(Displayed(Flags, tx, page))
  /\ answer' = Nothing
  /\ UNCHANGED <<tx, page, counts>>

\* Approval and rejection stand behind the last page, which is also before the
\* first.
Leave ==
  /\ view.mode = "review"
  /\ page = 0 \/ page + 1 \notin Pages(tx)
  /\ view' = Closed
  /\ answer' = Nothing
  /\ UNCHANGED <<tx, page, flags, counts>>

Init ==
  /\ tx = [method |-> "other", tokens |-> 0, data |-> NoData]
  /\ page = 0
  /\ view = Closed
  /\ on_data_field = FALSE
  /\ num_items_initialized = FALSE
  /\ base_level_item_cnt = 0
  /\ current_type_item_cnt = 0
  /\ answer = Nothing

Next ==
  \/ \E t \in Transaction : Receive(t)
  \/ \E p \in Pages(tx) : Turn(p)
  \/ Open \/ GetCount \/ Ascend \/ Leave
  \/ \E i \in Index : GetItem(i) \/ Descend(i)

Spec == Init /\ [][Next]_vars

-----------------------------------------------------------------------------
(* What a walk should show, by the structure of the data.                  *)

\* The entries of a container: a name and a value, or a value.
Entries(n) ==
  [k \in 1..Length(n) |->
     IF n.kind = "map" THEN <<n.kids[2 * k - 1], n.kids[2 * k]>> ELSE <<n.kids[k]>>]

\* The container at the end of a trace.
Below(trace) ==
  LET below[k \in 0..Len(trace)] ==
        IF k = 0 THEN tx.data ELSE Last(Entries(below[k - 1])[trace[k] + 1])
  IN below[Len(trace)]

\* An Upgrade is opened with the counts of an earlier walk, through its own data
\* or that of a transaction before it.
CountsOfEarlier == tx.method = "upgrade" /\ view.stale

TypeOK ==
  /\ page \in Nat
  /\ view.mode \in {"idle", "review", "inspect"}
  /\ Inspecting => DataValid(tx) /\ page = DATA_INDEX
  /\ view.trace \in Seq(Index) /\ Len(view.trace) < MaxDepth
  /\ on_data_field \in BOOLEAN
  /\ num_items_initialized \in BOOLEAN
  /\ base_level_item_cnt \in Nat
  /\ current_type_item_cnt \in Nat

\* What stands on the screen for an item is that entry of the container the user
\* has walked to, and every entry can be shown.  The count is a byte: a container
\* of 256 entries shows none.
ItemShown ==
  answer.op = "item" =>
    LET n       == Below(view.trace)
        inside  == answer.at < Length(n)
        entry   == Entries(n)[answer.at + 1]
        counted == Length(n) < 256 /\ ~(CountsOfEarlier /\ view.trace = <<>>)
    IN /\ inside /\ answer.ok =>
            answer.shown = [k \in DOMAIN entry |-> Shown(entry[k])]
       /\ counted => (answer.ok <=> inside)

\* The items that open are the containers.
ItemOpens ==
  answer.op = "can" =>
    LET entries == Entries(Below(answer.from))
    IN answer.yes <=> /\ answer.at < Len(entries)
                      /\ Last(entries[answer.at + 1]).kind # "leaf"

\* Three functions follow one trace, each with its own loop: what is shown, what
\* opens and where that leads are the same entry (parser_getInnerField,
\* parser_printInnerField, parser_canInspectItem).
ItemIsOfLevel == ItemShown /\ ItemOpens

\* The number of items the view is told is that of the level it has read last,
\* and at the opening that of the data (parser_getInnerNumItems).
CountIsOfLevel ==
  answer.op = "count" /\ ~(CountsOfEarlier /\ view.read = <<>>) =>
    answer.num = Length(Below(view.read)) % 256

\* The page that opens is the data of the transaction on the screen: the flag
\* is never one that an earlier page or transaction has left (on_data_field).
OpensDataOnly ==
  on_data_field =>
    /\ view.mode = "review"
    /\ DataValid(tx)
    /\ page = DATA_INDEX
=============================================================================
