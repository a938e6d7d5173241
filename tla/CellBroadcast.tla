--------------------------- MODULE CellBroadcast ---------------------------
(***************************************************************************)
(* The assembly of cell broadcast messages from their pages                *)
(* (home-item/smsutil.c), which the home item is built with.  Its callers  *)
(* are external: a modem that reports pages as the network repeats them,   *)
(* in any order, and changes of the location.                              *)
(*                                                                         *)
(* A serial number is made of a message (its scope, code and identifier)   *)
(* and an update number, modulo 16.  A scope holds one list of the         *)
(* serials received; only the last one of a message is ever looked at.     *)
(***************************************************************************)
EXTENDS Naturals, Sequences, SequencesExt

CONSTANTS Message,  \* records [scope, code, pages] of what is broadcast
          Update,   \* the update numbers that are broadcast
          None

Scope == {"plmn", "service_area", "cell_immediate", "cell_normal"}

ASSUME CellBroadcastAssumption ==
  /\ Message \subseteq [scope: Scope, code: STRING, pages: 1..15]
  /\ Update \subseteq 0..15
  /\ None \notin 0..15

VARIABLES
  nodes,     \* assembly_list: [Message \X Update -> the pages, in order]
  recv,      \* recv_plmn, recv_loc, recv_cell: the update received last
  delivered, \* the pages of the message completed last
  alive      \* the process did not end by freeing a list twice

broadcastVars == <<nodes, recv, delivered, alive>>

Serial == Message \X Update

(* left: the area in which the page was received was left.                 *)
Page == [number: 1..15, left: BOOLEAN]

BroadcastInit ==
  /\ nodes = [s \in Serial |-> << >>]
  /\ recv = [m \in Message |-> None]
  /\ delivered = << >>
  /\ alive = TRUE
-----------------------------------------------------------------------------
(* Mutant: eight higher is not more recent. *)
Newer_Strict(new, old) == new # old /\ new < (old + 8) % 16

(* cbs_is_update_newer *)
Newer(new, old) == new # old /\ new <= (old + 8) % 16

(* cbs_assembly_expire for the serials ss.  The list of the pages is freed *)
(* twice: the process may end.                                             *)
Expire(ss, ns) ==
  /\ nodes' = [s \in Serial |-> IF s \in ss THEN << >> ELSE ns[s]]
  /\ alive' \in {TRUE, \A s \in ss : ns[s] = << >>}

(* cbs_compare_recv_by_serial: the message was seen, and this is not newer *)
Seen(m, u) == recv[m] # None /\ ~Newer(u, recv[m])

(* The page goes where as many lower ones are before it. *)
Inserted(pages, n) ==
  LET position == Cardinality({i \in DOMAIN pages : pages[i].number < n}) IN
  InsertAt(pages, position + 1, [number |-> n, left |-> FALSE])

(* The nodes that cbs_compare_node_by_update matches when m is complete    *)
(* with update u.                                                          *)
Overtaken(m, u) == {<<m, v>> : v \in {w \in Update : ~Newer(w, u)}}

(* cbs_assembly_add_page, the only page of a message *)
OnlyPage(m, u) ==
  /\ alive
  /\ m.pages = 1
  /\ ~Seen(m, u)
  /\ recv' = [recv EXCEPT ![m] = u]
  /\ delivered' = <<[number |-> 1, left |-> FALSE]>>
  /\ UNCHANGED <<nodes, alive>>

(* ... a page of several, which does or does not complete them             *)
NewPage(m, u, n) ==
  /\ alive
  /\ m.pages > 1
  /\ ~Seen(m, u)
  /\ \A i \in DOMAIN nodes[<<m, u>>] : nodes[<<m, u>>][i].number # n

PageKept(m, u, n) ==
  /\ NewPage(m, u, n)
  /\ Len(nodes[<<m, u>>]) + 1 < m.pages
  /\ nodes' = [nodes EXCEPT ![<<m, u>>] = Inserted(@, n)]
  /\ UNCHANGED <<recv, delivered, alive>>

PageCompletes(m, u, n) ==
  /\ NewPage(m, u, n)
  /\ Len(nodes[<<m, u>>]) + 1 = m.pages
  /\ delivered' = Inserted(nodes[<<m, u>>], n)
  /\ recv' = [recv EXCEPT ![m] = u]
  /\ Expire(Overtaken(m, u), [nodes EXCEPT ![<<m, u>>] = << >>])
-----------------------------------------------------------------------------
(* The scopes that a change of the location ends *)
Ended(plmn, lac, ci) ==
  (IF plmn THEN {"plmn"} ELSE {})
  \cup (IF plmn \/ lac THEN {"service_area"} ELSE {})
  \cup (IF plmn \/ lac \/ ci THEN {"cell_immediate", "cell_normal"} ELSE {})

(* Mutant: the two scopes of a cell are taken for one. *)
Expired_OneCellScope(plmn, lac, ci) == Ended(plmn, lac, ci) \ {"cell_normal"}

(* The scopes whose nodes cbs_assembly_location_changed expires *)
Expired(plmn, lac, ci) == Ended(plmn, lac, ci)

Left(pages) == [i \in DOMAIN pages |-> [pages[i] EXCEPT !.left = TRUE]]

(* cbs_assembly_location_changed *)
LocationChanged(plmn, lac, ci) ==
  LET ended == Ended(plmn, lac, ci) IN
  /\ alive
  /\ ended # {}
  /\ recv' = [m \in Message |-> IF m.scope \in ended THEN None ELSE recv[m]]
  /\ Expire({s \in Serial : s[1].scope \in Expired(plmn, lac, ci)},
            [s \in Serial |-> IF s[1].scope \in ended THEN Left(nodes[s]) ELSE nodes[s]])
  /\ UNCHANGED delivered

BroadcastNext ==
  \/ \E m \in Message, u \in Update : OnlyPage(m, u)
  \/ \E m \in Message, u \in Update : \E n \in 1..m.pages : PageKept(m, u, n)
  \/ \E m \in Message, u \in Update : \E n \in 1..m.pages : PageCompletes(m, u, n)
  \/ \E plmn, lac, ci \in BOOLEAN : LocationChanged(plmn, lac, ci)
-----------------------------------------------------------------------------
BroadcastTypeOK ==
  /\ nodes \in [Serial -> Seq(Page)]
  /\ recv \in [Message -> Update \cup {None}]
  /\ delivered \in Seq(Page)
  /\ alive \in BOOLEAN

(* A message is delivered with all its pages, each once and in order,      *)
(* whatever their order on the air, and none of them was received in an    *)
(* area that was left since, where it may have been of another message;    *)
(* and no page is kept of a message that cannot be completed any more.     *)
MessagesWhole ==
  /\ \A i \in DOMAIN delivered : delivered[i].number = i /\ ~delivered[i].left
  /\ \A s \in Serial : Len(nodes[s]) < s[1].pages

(* What the comment in cbs_is_update_newer says: eight or less higher.     *)
EightOrLessHigher(new, old) == (new + 16 - old) % 16 \in 1..8

(* Whatever update was received last, a following one is judged as the     *)
(* comment says as long as the numbers do not wrap below eight and do not  *)
(* rise above it; otherwise the judgement is always the opposite.          *)
UpdatesJudged ==
  \A m \in Message, new \in 0..15 :
    recv[m] # None /\ new # recv[m] =>
      (Newer(new, recv[m]) = EightOrLessHigher(new, recv[m])) <=>
      ((recv[m] < 8) <=> (new > recv[m]))
=============================================================================
