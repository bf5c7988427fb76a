--------------------------------- MODULE Console ---------------------------------
(***************************************************************************)
(* The pages of the web application over the API of Registry: each loads   *)
(* its lists when it is opened, and its forms offer what the lists hold.   *)
(* Other clients call the API as well (units, gateways and replacements    *)
(* have no form).  No button is disabled while its request runs.           *)
(***************************************************************************)
EXTENDS Registry

CONSTANT Users  \* open tabs

VARIABLE tab    \* the page each shows

consoleVars == <<vars, tab>>

\* What a page loads, what its forms create, whether loading clears its message.
BillingPage == [lists |-> {"building", "period", "tariff", "profile", "key", "component"},
                forms |-> {"period", "tariff", "profile", "key", "component"}, clears |-> TRUE]
AdminPage == [lists |-> {"user", "gateway", "apikey"}, forms |-> {"user", "apikey"},
              clears |-> TRUE]
BuildingsPage == [lists |-> {"building"}, forms |-> {"building"}, clears |-> FALSE]
MetersPage == [lists |-> {"meter", "building"}, forms |-> {"meter"}, clears |-> FALSE]
Pages == {BillingPage, AdminPage, BuildingsPage, MetersPage}

\* text: "" for none, "refused" the API's error, "failed" a 500 or no answer, "script"
\* the exception of the page's own code.
NoMessage == [text |-> "", code |-> 0, row |-> 0]
Opened(page) == [page |-> page, since |-> Len(table), loading |-> TRUE, shown |-> {},
                 message |-> NoMessage, pending |-> {}]

\* Mounting a page starts its load; answers to the page left behind are ignored.
Visit(u, page) ==
    /\ tab' = [tab EXCEPT ![u] = Opened(page)]
    /\ UNCHANGED vars

\* Promise.all has resolved.  Each list was read at some moment since the load began.
OfPage(page) == {r \in Ids : table[r].kind \in page.lists}
Loaded(page, since) ==
    {S \in SUBSET OfPage(page) : \A r \in OfPage(page) :
        /\ r <= since => r \in S
        /\ r \in S => \A s \in IdsOf(table[r].kind) : s < r => s \in S}
Show(u) ==
    /\ tab[u].loading
    /\ \E lists \in Loaded(tab[u].page, tab[u].since) :
         tab' = [tab EXCEPT ![u].loading = FALSE, ![u].shown = lists,
             ![u].message = IF tab[u].page.clears THEN NoMessage ELSE @]
    /\ UNCHANGED vars

\* Promise.all has rejected: the lists stay as they are.
LoadFails(u) ==
    /\ tab[u].loading
    /\ tab' = [tab EXCEPT ![u].loading = FALSE,
           ![u].message = [NoMessage EXCEPT !.text = "failed"]]
    /\ UNCHANGED vars

\* The select elements of a form list buildings, and of billing forms profiles and keys.
Offers(form) == IF form = "component" THEN {"key", "profile"} ELSE {"profile"}
Offered(u, p) ==
    /\ p.building \in {None} \cup (tab[u].shown \cap IdsOf("building"))
    /\ \A r \in p.refs : r \in tab[u].shown /\ table[r].kind \in Offers(p.kind)

Submit(u, q, p) ==
    /\ p.kind \in tab[u].page.forms
    /\ Offered(u, p)
    /\ Receive(q, p)
    /\ tab' = [tab EXCEPT ![u].pending = @ \cup {q}]

Text(code) == IF code \in Refusals THEN "refused"
              ELSE IF code = 201 THEN "script" ELSE "failed"
Answer(u, q, text) ==
    /\ q \in tab[u].pending
    /\ tab' = [tab EXCEPT ![u].pending = @ \ {q},
           ![u].message = [text |-> text, code |-> request[q].code, row |-> request[q].row]]
    /\ Done(q)

\* Variant of the next action: response.ok is not looked at.
AnswerUnchecked(u, q) == Answer(u, q, "script")

\* The continuation of a form's handler.  After the await, React has reset
\* event.currentTarget to null: reset() throws, and the catch clause shows that in
\* place of the load, although the row was created.
Answered(u, q) == Answer(u, q, Text(request[q].code))

\* The reply is lost.
Unanswered(u, q) == Answer(u, q, "failed")

ConsoleInit == Init /\ tab = [u \in Users |-> Opened(BillingPage)]

Use(u) ==
    \/ \E page \in Pages : Visit(u, page)
    \/ Show(u) \/ LoadFails(u)
    \/ \E q \in Requests, p \in Payloads : Submit(u, q, p)
    \/ \E q \in Requests : Answered(u, q) \/ Unanswered(u, q)

\* Another client, or the reply to a page that is gone.
CallApi(q, p) == Receive(q, p) /\ UNCHANGED tab
Forget(q) == (\A u \in Users : q \notin tab[u].pending) /\ Done(q) /\ UNCHANGED tab
Serve(q) == Handle(q) /\ UNCHANGED tab

\* The seed, run by hand or by an API that starts again.
Reseed(r) == UpsertDefault(r) /\ UNCHANGED tab

ConsoleNext ==
    \/ \E u \in Users : Use(u)
    \/ \E q \in Requests : (\E p \in Payloads : CallApi(q, p)) \/ Serve(q) \/ Forget(q)
    \/ \E r \in SeedRows \cap Ids : Reseed(r)

ConsoleSpec == ConsoleInit /\ [][ConsoleNext]_consoleVars

-----------------------------------------------------------------------------
\* What a page says of a submission is true: a refusal means that nothing was stored,
\* and is never for a choice the page itself offered; behind its own exception is a row
\* that is stored and on record, which submitting again would duplicate.
MessageIsTrue == \A u \in Users :
    LET m == tab[u].message IN
    /\ m.text = "refused" => m.row = 0 /\ m.code # 404
    /\ m.text = "script" => m.row \in Ids /\ OnRecord(m.row)

\* The inductive invariant behind it: a tab shows rows of its page's lists, which the
\* API still finds, and waits for requests of its own, none of them refused for a row
\* that is not there.
Message == [text: {"", "refused", "failed", "script"}, code: Nat, row: Nat]
Tab == [page: Pages, since: Nat, loading: BOOLEAN, shown: SUBSET Nat,
        message: Message, pending: SUBSET Requests]
TabsAgree == \A u \in Users :
    /\ tab[u].shown \subseteq OfPage(tab[u].page)
    /\ \A q \in tab[u].pending :
         /\ request[q].pc # "idle" /\ request[q].code # 404
         /\ \A v \in Users \ {u} : q \notin tab[v].pending
ConsoleInv == IInv /\ tab \in [Users -> Tab] /\ TabsAgree /\ MessageIsTrue
=============================================================================
