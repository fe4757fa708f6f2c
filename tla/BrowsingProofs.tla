--------------------------- MODULE BrowsingProofs ---------------------------
(***************************************************************************)
(* The properties of Browsing, for any number of clients, requests and     *)
(* news.  Each step is first described by what it does to the queues, the  *)
(* strips and the table (UserDoes, Creates, Closes, Switches, Tells,       *)
(* Hears, IsTold); the parts of the invariant are then kept one by one.    *)
(***************************************************************************)
EXTENDS Browsing, BrowserCoreProofs, SequenceTheorems

----------------------------------------------------------------------------
(* What is in the queues *)

Titles == {"New Tab"} \cup {Names[i] : i \in Nat}
Urls == {Home, FirstPage} \cup {<<"https://", Names[i]>> : i \in Nat}

Created(t, url) == [ev |-> "CreateTab", tab_id |-> t, url |-> url]
Closed(t) == [ev |-> "CloseTab", tab_id |-> t]
Switched(t) == [ev |-> "SwitchTab", tab_id |-> t]

Requests == {Created(t, Home) : t \in Nat} \cup {Closed(t) : t \in Nat} \cup {Switched(t) : t \in Nat}

ToldCreated(t) == [ev |-> "TabCreated", id |-> t, title |-> "New Tab", url |-> Home]
ToldClosed(t) == [ev |-> "TabClosed", id |-> t]
ToldActive(t) == [ev |-> "TabActivated", id |-> t]

Replies == {ToldCreated(t) : t \in Nat} \cup {ToldClosed(t) : t \in Nat} \cup {ToldActive(t) : t \in Nat}

Greeting(url) == [ev |-> "InitialUrl", url |-> url]

Broadcasts ==
    {ToldActive(t) : t \in Nat}
        \cup {Greeting(x) : x \in Urls}
        \cup {[ev |-> "Title", title |-> x] : x \in Titles}
        \cup {[ev |-> "UrlChanged", url |-> x] : x \in Urls}
        \cup {[ev |-> "TabTitle", id |-> t, title |-> x] : t \in Nat, x \in Titles}
        \cup {[ev |-> "TabUrl", id |-> t, url |-> x] : t \in Nat, x \in Urls}

\* For each label, the event that names the tab and those that are about the
\* active one.
OfTab == [f \in Labels |-> IF f = "title" THEN "TabTitle" ELSE "TabUrl"]
OfActive == [f \in Labels |-> IF f = "title" THEN {"Title"} ELSE {"UrlChanged", "InitialUrl"}]

Texts == [f \in Labels |-> IF f = "title" THEN Titles ELSE Urls]

PageOf(at, t, f, val) == [at |-> at, tab |-> t, f |-> f, val |-> val]

PageType ==
    \E at \in {"idle", "stored", "told", "active"}, t \in opened, f \in Labels :
        \E val \in Texts[f] : page = PageOf(at, t, f, val)

LabelsTyped(tab) == DOMAIN tab = Labels /\ \A f \in Labels : tab[f] \in Texts[f]

TypeInv ==
    /\ joined = [k \in Clients |-> joined[k]]
    /\ core = [k \in Clients |-> core[k]]
    /\ \A k \in Clients : CoreOK(core[k]) /\ core[k].out = <<>> /\ core[k].active_tab_id \in Nat
    /\ up \in [Clients -> Seq(Requests)]
    /\ bus \in [Clients -> Seq(Broadcasts)]
    /\ replies \in [Clients -> Seq(Replies)]
    /\ DOMAIN table \subseteq opened /\ 1 \in opened /\ opened \subseteq Nat /\ active \in Nat
    /\ \A t \in DOMAIN table : LabelsTyped(table[t])
    /\ PageType /\ news \in Nat /\ hasty \in BOOLEAN

\* A client with something to send or to hear has asked for something.
AskersOK == \A k \in Clients : up[k] # <<>> \/ replies[k] # <<>> => k \in askers

\* A client that has not joined yet has WELCOME at most.
JoinOK == \A k \in Clients : On(k) \/ bus[k] = <<>> \/ \E url \in Urls : bus[k] = <<Greeting(url)>>

----------------------------------------------------------------------------
(* The tabs of a client that is alone *)

Has(q, e) == \E i \in DOMAIN q : q[i] = e

\* A tab to be opened is new to the host, and will be closed if the client has
\* closed it already.
OpeningOK(k, t) ==
    \A i \in DOMAIN up[k] : up[k][i] = Created(t, Home) =>
        /\ t \notin opened
        /\ ~Has(replies[k], ToldCreated(t)) /\ ~Has(replies[k], ToldClosed(t))
        /\ \A j \in DOMAIN up[k] : up[k][j] = Created(t, Home) => j = i
        /\ \A j \in DOMAIN up[k] : up[k][j] = Closed(t) => j > i
        /\ t \notin Ids(core[k]) => Has(up[k], Closed(t))

\* A tab only one of the two has is on its way.
DifferenceOK(k, t) ==
    /\ t \in Ids(core[k]) /\ t \notin DOMAIN table =>
           Has(up[k], Created(t, Home)) \/ Has(replies[k], ToldClosed(t))
    /\ t \notin Ids(core[k]) /\ t \in DOMAIN table => Has(up[k], Closed(t))

\* What the client has yet to hear of a tab ends with its close if it is closed.
ClosingOK(k, t) ==
    /\ t \in DOMAIN table => ~Has(replies[k], ToldClosed(t))
    /\ t \notin DOMAIN table =>
           \A i \in DOMAIN replies[k] : replies[k][i] = ToldCreated(t) =>
               \E j \in DOMAIN replies[k] : j > i /\ replies[k][j] = ToldClosed(t)

\* The id the client gives next is new to all.
NextIsNew(k) ==
    /\ \A t \in opened : t < core[k].next_tab_id
    /\ \A t \in Ids(core[k]) : t < core[k].next_tab_id
    /\ \A i \in DOMAIN up[k] : up[k][i].tab_id < core[k].next_tab_id
    /\ \A i \in DOMAIN replies[k] : replies[k][i].id < core[k].next_tab_id
    /\ \A t \in Nat : Has(bus[k], ToldActive(t)) => t < core[k].next_tab_id
    /\ core[k].active_tab_id < core[k].next_tab_id

TabsInv(k) == NextIsNew(k) /\ \A t \in Nat : OpeningOK(k, t) /\ DifferenceOK(k, t) /\ ClosingOK(k, t)

----------------------------------------------------------------------------
(* The active tab, when one thing is asked for at a time *)

\* A request under way makes a tab active.
Activates(q, t) == Has(q, Created(t, Home)) \/ Has(q, Switched(t))
Activating(q) == \E t \in Nat : Activates(q, t)
Pending(k) == Activating(up[k])

\* What a client sends at once: it opens a tab, switches to one or closes one,
\* and when that was the active one switches to another.
IsBatch(q) ==
    \/ q = <<>>
    \/ \E t \in Nat : q = <<Created(t, Home)>> \/ q = <<Switched(t)>> \/ q = <<Closed(t)>>
    \/ \E t, x \in Nat : q = <<Closed(x), Switched(t)>>

RoundOK ==
    /\ \A k \in Clients : IsBatch(up[k])
    /\ \A j, k \in Clients : up[j] # <<>> /\ up[k] # <<>> => j = k
    /\ \A k \in Clients, t \in Nat : Has(up[k], Created(t, Home)) => \A j \in Clients : replies[j] = <<>>
    /\ \A k \in Clients, t \in Nat : Has(replies[k], ToldClosed(t)) => t \notin DOMAIN table
    /\ \A k \in Clients, t \in Nat :
           Has(replies[k], ToldCreated(t)) => t \in DOMAIN table /\ \A j \in Clients : up[j] = <<>>

\* The news of activations are of the active tab, and none are left when
\* another is asked for.
ActiveNews ==
    \A k \in Clients, t \in Nat :
        Has(bus[k], ToldActive(t)) \/ Has(replies[k], ToldActive(t)) =>
            t = active /\ (\A j \in Clients : ~Pending(j))

WillAgree ==
    active \in DOMAIN table /\ (\A j \in Clients : ~Pending(j)) =>
        \A k \in Clients : On(k) =>
            core[k].active_tab_id = active \/ Has(bus[k], ToldActive(active)) \/ k \in elsewhere

ActiveInv == ~hasty => RoundOK /\ ActiveNews /\ WillAgree

----------------------------------------------------------------------------
(* The labels of a client that is alone and asks for one thing at a time *)

\* The client's active tab is the one it asked for last.
FrontOK(k) ==
    /\ ~Pending(k) => core[k].active_tab_id = active
    /\ \A t \in Nat : Activates(up[k], t) => core[k].active_tab_id = t
    /\ \A t \in Nat : Has(up[k], Closed(t)) \/ Has(replies[k], ToldClosed(t)) => core[k].active_tab_id # t
    /\ \A t \in Nat : Has(replies[k], ToldCreated(t)) \/ Has(up[k], Created(t, Home)) => t \in Ids(core[k])

\* The event says what the tab is called, to a client whose active tab is a.
OnLabel(e, f, id, a) == (e.ev = OfTab[f] /\ e.id = id) \/ (e.ev \in OfActive[f] /\ id = a)

\* The last that is said of it, now or in what is to come, is right.
LabelRight(c, q, f, id, val) ==
    /\ (\A i \in DOMAIN q : ~OnLabel(q[i], f, id, c.active_tab_id)) => TabOf(c, id)[f] = val
    /\ \A i \in DOMAIN q :
           OnLabel(q[i], f, id, c.active_tab_id)
               /\ (\A j \in DOMAIN q : j > i => ~OnLabel(q[j], f, id, c.active_tab_id))
           => q[i][f] = val

\* A label that is not, of a tab both have.
Excused(k, id, f) ==
    \/ <<k, id, f>> \in amiss
    \/ Pending(k) /\ id = core[k].active_tab_id
    \/ page.at = "stored" /\ page.tab = id /\ page.f = f

LabelsOK(k) ==
    On(k) => \A id \in Ids(core[k]) \cap DOMAIN table, f \in Labels :
        Excused(k, id, f) \/ LabelRight(core[k], bus[k], f, id, table[id][f])

LabelsInv(k) == ~hasty => FrontOK(k) /\ LabelsOK(k)

\* What the loop is about to tell is what it has stored.
PageOK == page.at # "idle" /\ page.tab \in DOMAIN table => table[page.tab][page.f] = page.val

IInv == /\ TypeInv /\ AskersOK /\ JoinOK /\ ActiveInv
        /\ \A k \in Clients : Alone(k) => TabsInv(k) /\ PageOK /\ LabelsInv(k)
----------------------------------------------------------------------------
(* What the user's wishes do to the strip *)

SameStrip(c, d) ==
    d.tabs = c.tabs /\ d.next_tab_id = c.next_tab_id /\ d.active_tab_id = c.active_tab_id

LEMMA SameStripIs ==
  ASSUME NEW c, NEW d, SameStrip(c, d)
  PROVE  Ids(d) = Ids(c) /\ \A x : TabOf(d, x) = TabOf(c, x)
BY SameTabs DEF SameStrip

\* The tabs that stay are called what they were.
LabelsKept(c, d) == \A x \in Ids(c) \cap Ids(d), f \in Labels : TabOf(d, x)[f] = TabOf(c, x)[f]

Opens(c, d, out) ==
    /\ out = <<Created(c.next_tab_id, Home)>> /\ c.next_tab_id < TopId
    /\ Ids(d) = Ids(c) \cup {c.next_tab_id}
    /\ d.active_tab_id = c.next_tab_id /\ d.next_tab_id = c.next_tab_id + 1

Turns(c, d, out) ==
    /\ out = <<Switched(d.active_tab_id)>>
    /\ Ids(d) = Ids(c) /\ d.active_tab_id \in Ids(d) /\ d.next_tab_id = c.next_tab_id

Shuts(c, d, x, out) ==
    /\ Ids(d) = Ids(c) \ {x} /\ d.next_tab_id = c.next_tab_id
    /\ \/ x # c.active_tab_id /\ out = <<Closed(x)>> /\ d.active_tab_id = c.active_tab_id
       \/ /\ x = c.active_tab_id /\ out = <<Closed(x), Switched(d.active_tab_id)>>
          /\ d.active_tab_id \in Ids(d)

Asks(c, d, out) ==
    /\ CoreOK(d) /\ LabelsKept(c, d)
    /\ \/ Opens(c, d, out) \/ Turns(c, d, out)
       \/ \E x \in Ids(c) \cup {c.active_tab_id} : Shuts(c, d, x, out)

Wished(c, d) == Asks(c, d, d.out)

LEMMA RedrawStrip ==
  ASSUME NEW c, CoreOK(c)
  PROVE  CoreOK(Redraw(c)) /\ SameStrip(c, Redraw(c)) /\ Redraw(c).out = c.out
<1>1. CoreOK(Redraw(c))
  BY MovesRefl, RedrawHandles DEF Handles, Moves
<1>2. Same(c, Redraw(c), {"chrome_dirty"})
  BY RedrawIs DEF CoreOK
<1> QED
  BY <1>1, <1>2 DEF Same, SameStrip, CoreFields

LEMMA SentStrip ==
  ASSUME NEW c, CoreOK(c), NEW e
  PROVE  CoreOK(emit_input(c, e)) /\ SameStrip(c, emit_input(c, e)) /\ emit_input(c, e).out = Append(c.out, e)
<1>1. CoreOK(emit_input(c, e))
  BY EmitHandles DEF Handles, Moves
<1>2. Same(c, emit_input(c, e), {"out"}) /\ emit_input(c, e).out = Append(c.out, e)
  BY EmitIs DEF CoreOK
<1> QED
  BY <1>1, <1>2 DEF Same, SameStrip, CoreFields

LEMMA NewTabIs ==
  ASSUME NEW c, CoreOK(c), c.out = <<>>, Numbered(c, NewTab(c))
  PROVE  Wished(c, NewTab(c))
<1> DEFINE id == c.next_tab_id
           t == TabInfo(id, "New Tab", Home, TRUE)
           l == Leave(c)
           n == [l EXCEPT !.next_tab_id = Above(id),
                          !.tabs = Append(@, t),
                          !.active_tab_id = id, !.url_buf = Home, !.editing = FALSE,
                          !.full_content_dirty = TRUE]
           e == Created(id, Home)
           m == emit_input(n, e)
           d == Redraw(m)
<1>1. NewTab(c) = d
  BY DEF NewTab, Created
<1>2. CoreOK(d)
  BY <1>1, NewTabRequested DEF Requested, Handles, Moves
<1>3. Same(c, l, {}) /\ CoreOK(l)
  BY LeaveMoves DEF Moves
<1> HIDE DEF l
<1>4. /\ n.next_tab_id = Above(id) /\ n.active_tab_id = id /\ IsCore(n) /\ n.out = l.out
      /\ n.tabs = Append(l.tabs, t)
  BY <1>3 DEF CoreOK, IsCore, CoreFields
<1>5. DOMAIN t = TabFields /\ t.id = id
  BY DEF TabInfo, TabFields
<1> HIDE DEF n, t
<1>6. l.tabs = c.tabs /\ l.out = <<>> /\ id \in Nat
  BY <1>3 DEF Same, CoreFields, CoreOK, TabsOK
<1>7. Same(n, m, {"out"}) /\ m.out = Append(n.out, e)
  BY <1>4, EmitIs
<1> HIDE DEF m
<1>8. Same(m, d, {"chrome_dirty"})
  BY <1>7, RedrawIs DEF Same
<1> HIDE DEF d
<1>9. SameStrip(n, d) /\ d.out = m.out
  BY <1>7, <1>8 DEF Same, SameStrip, CoreFields
<1>10. id < TopId /\ n.next_tab_id = id + 1
  <2>1. Above(id) # id
    BY <1>6, CoreAssumption DEF Above
  <2>2. id < TopId
    BY <1>1, <1>4, <1>9, <2>1 DEF Numbered, SameStrip
  <2> QED
    BY <1>4, <1>6, <2>2, CoreAssumption DEF Above
<1>11. Ids(n) = Ids(c) \cup {id} /\ \A x \in Ids(c) : TabOf(n, x) = TabOf(c, x)
  <2>1. TabsOK(c) /\ ~(id < id) /\ id # TopId
    BY <1>6, <1>10, CoreAssumption DEF CoreOK
  <2>2. id \notin Ids(c)
    BY <2>1, PositionIs
  <2>3. n.next_tab_id \in Nat /\ n.next_tab_id >= c.next_tab_id /\ id < n.next_tab_id
    BY <1>6, <1>10
  <2>4. n.tabs = Append(c.tabs, t)
    BY <1>4, <1>6
  <2> HIDE DEF id
  <2> QED
    BY <1>5, <1>6, <2>1, <2>2, <2>3, <2>4, TabAdded
<1>12. d.out = <<e>>
  <2>1. d.out = Append(<<>>, e)
    BY <1>4, <1>6, <1>7, <1>9
  <2> HIDE DEF e
  <2> QED
    BY <2>1
<1>13. Ids(d) = Ids(n) /\ \A x : TabOf(d, x) = TabOf(n, x)
  BY <1>9, SameStripIs
<1>14. Opens(c, d, d.out)
  BY <1>4, <1>9, <1>10, <1>11, <1>12, <1>13 DEF Opens, SameStrip
<1>15. LabelsKept(c, d)
  BY <1>11, <1>13 DEF LabelsKept
<1> QED
  BY <1>1, <1>2, <1>14, <1>15 DEF Wished, Asks

(* The tab shown is another one that is there. *)
LEMMA ShownStrip ==
  ASSUME NEW c, CoreOK(c), NEW id \in Ids(c)
  PROVE  LET s == ShowUrl(Enter(Leave(c), id))
         IN  /\ CoreOK(s) /\ s.tabs = c.tabs /\ s.next_tab_id = c.next_tab_id
             /\ s.active_tab_id = id /\ s.out = c.out
<1> DEFINE l == Leave(c)
           n == Enter(l, id)
           s == ShowUrl(n)
<1>1. Same(c, l, {}) /\ CoreOK(l)
  BY LeaveMoves DEF Moves
<1> HIDE DEF l
<1>2. /\ n.active_tab_id = id /\ CoreOK(n)
      /\ Same(l, n, {"active_tab_id", "tab_composites", "full_content_dirty"})
  BY <1>1, EnterMoves DEF Moves
<1> HIDE DEF n
<1>3. CoreOK(s) /\ Same(n, s, {"url_buf"})
  BY <1>2, ShowUrlMoves DEF Moves
<1> HIDE DEF s
<1> QED
  BY <1>1, <1>2, <1>3 DEF Same, CoreFields, s, n, l

LEMMA TurnedIs ==
  ASSUME NEW c, CoreOK(c), NEW id \in Ids(c), NEW s, CoreOK(s), s.tabs = c.tabs,
         s.next_tab_id = c.next_tab_id, s.active_tab_id = id, s.out = <<>>
  PROVE  Wished(c, Redraw(SwitchTo(s, id)))
<1> DEFINE e == Switched(id)
           m == emit_input(s, e)
           d == Redraw(m)
<1>1. SwitchTo(s, id) = m
  BY DEF SwitchTo, Switched
<1>2. CoreOK(m) /\ SameStrip(s, m) /\ m.out = Append(s.out, e)
  BY SentStrip
<1> HIDE DEF m
<1>3. CoreOK(d) /\ SameStrip(m, d) /\ d.out = m.out
  BY <1>2, RedrawStrip
<1> HIDE DEF d
<1>4. d.out = <<e>> /\ d.tabs = c.tabs /\ d.next_tab_id = c.next_tab_id /\ d.active_tab_id = id
  BY <1>2, <1>3 DEF SameStrip
<1>5. Ids(d) = Ids(c) /\ \A x : TabOf(d, x) = TabOf(c, x)
  BY <1>4, SameTabs
<1>6. Turns(c, d, d.out) /\ LabelsKept(c, d)
  BY <1>4, <1>5 DEF Turns, LabelsKept
<1> QED
  BY <1>1, <1>3, <1>6 DEF Wished, Asks, d

LEMMA NextTabIs == ASSUME NEW c, CoreOK(c), c.out = <<>>, NextTab(c).out # <<>> PROVE Wished(c, NextTab(c))
<1> DEFINE at == IF Listed(c) THEN Position(c, c.active_tab_id) ELSE 1
           next == (at % Len(c.tabs)) + 1
           id == c.tabs[next].id
           s == ShowUrl(Enter(Leave(c), id))
<1>1. ~(Len(c.tabs) <= 1)
  BY DEF NextTab
<1>2. NextTab(c) = Redraw(SwitchTo(s, id))
  BY <1>1 DEF NextTab
<1>3. Len(c.tabs) \in Nat /\ DOMAIN c.tabs = 1..Len(c.tabs)
  BY IsSeqDomain DEF CoreOK, TabsOK
<1>4. at \in 1..Len(c.tabs)
  BY <1>1, <1>3, PositionIs DEF Listed, CoreOK
<1> HIDE DEF at
<1>5. next \in DOMAIN c.tabs
  <2>1. Len(c.tabs) > 1
    BY <1>1, <1>3
  <2> QED
    BY <1>3, <1>4, <2>1, NextAround
<1> HIDE DEF next
<1>6. id \in Ids(c)
  BY <1>5 DEF Ids
<1> HIDE DEF id
<1>7. CoreOK(s) /\ s.tabs = c.tabs /\ s.next_tab_id = c.next_tab_id /\ s.active_tab_id = id /\ s.out = <<>>
  BY <1>6, ShownStrip
<1> HIDE DEF s
<1>8. Wished(c, Redraw(SwitchTo(s, id)))
  BY <1>6, <1>7, TurnedIs
<1> QED
  BY <1>2, <1>8

LEMMA ClickTabIs ==
  ASSUME NEW c, CoreOK(c), c.out = <<>>, NEW id \in Ids(c), ClickTab(c, id).out # <<>>
  PROVE  Wished(c, ClickTab(c, id))
<1> DEFINE s == ShowUrl(Enter(Leave(c), id))
           no == FALSE
           n == [s EXCEPT !.editing = no]
<1>1. ClickTab(c, id) = Redraw(SwitchTo(n, id))
  BY DEF ClickTab
<1>2. CoreOK(s) /\ s.tabs = c.tabs /\ s.next_tab_id = c.next_tab_id /\ s.active_tab_id = id /\ s.out = <<>>
  BY ShownStrip
<1> HIDE DEF s
<1>3. Same(s, n, {"editing"})
  BY <1>2 DEF Same, CoreOK, IsCore
<1>4. n.editing = no
  BY <1>2 DEF CoreOK, IsCore, CoreFields
<1> HIDE DEF n
<1>5. Same(s, n, {"url_buf", "editing", "is_loading"}) /\ n.next_tab_id = s.next_tab_id
  BY <1>3 DEF Same, CoreFields
<1>6. CoreOK(n) /\ n.tabs = s.tabs /\ n.active_tab_id = s.active_tab_id /\ n.out = s.out
  BY <1>2, <1>4, <1>5, OmniboxMoves DEF Moves
<1>7. Wished(c, Redraw(SwitchTo(n, id)))
  BY <1>2, <1>5, <1>6, TurnedIs
<1> QED
  BY <1>1, <1>7

LEMMA AppendTwo == ASSUME NEW a, NEW b PROVE Append(<<a>>, b) = <<a, b>>
<1>1. <<a>> \in Seq({a, b}) /\ <<a, b>> \in Seq({a, b})
  OBVIOUS
<1>2. Len(Append(<<a>>, b)) = 2 /\ Append(<<a>>, b)[1] = a /\ Append(<<a>>, b)[2] = b
  BY <1>1
<1>3. Append(<<a>>, b) \in Seq({a, b})
  BY <1>1
<1>4. /\ Len(<<a, b>>) = 2 /\ Len(Append(<<a>>, b)) = 2
      /\ \A i \in 1..2 : Append(<<a>>, b)[i] = <<a, b>>[i]
  BY <1>2
<1> QED
  BY <1>1, <1>3, <1>4, SeqEqual

LEMMA CloseTabIs ==
  ASSUME NEW c, CoreOK(c), c.out = <<>>, NEW id \in Ids(c) \cup {c.active_tab_id}, CloseTab(c, id).out # <<>>
  PROVE  Wished(c, CloseTab(c, id))
<1> DEFINE q == Closed(id)
           e == emit_input(c, q)
           d == Drop(e, id)
           f == FallBack(d)
           w == Switched(f.active_tab_id)
           s == emit_input(f, w)
<1>1. ~(Len(c.tabs) <= 1)
  BY DEF CloseTab
<1>2. CloseTab(c, id) = Redraw(IF c.active_tab_id = id THEN s ELSE d)
  BY <1>1 DEF CloseTab, Closed, Switched, SwitchTo
<1>3. CoreOK(e) /\ SameStrip(c, e) /\ e.out = <<q>>
  <2>1. CoreOK(e) /\ SameStrip(c, e) /\ e.out = Append(c.out, q)
    BY SentStrip
  <2> QED
    BY <2>1
<1> HIDE DEF e
<1>4. Ids(e) = Ids(c) /\ \A x : TabOf(e, x) = TabOf(c, x)
  BY <1>3, SameStripIs
<1>5. /\ CoreOK(d) /\ Ids(d) = Ids(e) \ {id} /\ \A x \in Ids(d) : TabOf(d, x) = TabOf(e, x)
      /\ Len(d.tabs) = IF id \in Ids(e) THEN Len(e.tabs) - 1 ELSE Len(e.tabs)
      /\ d.active_tab_id = e.active_tab_id /\ d.out = e.out
  BY <1>3, DropMoves DEF Moves
<1>6. d.next_tab_id = e.next_tab_id
  BY <1>3, DropIs DEF Same, CoreFields, CoreOK
<1>7. d.tabs # <<>>
  <2>1. Len(c.tabs) \in Nat /\ e.tabs = c.tabs
    BY <1>3, IsSeqDomain DEF CoreOK, TabsOK, SameStrip
  <2>2. Len(d.tabs) > 0
    BY <1>1, <1>5, <2>1
  <2> QED
    BY <2>2
<1> HIDE DEF d
<1>8. CASE c.active_tab_id # id
  <2> DEFINE r == Redraw(d)
  <2>1. CoreOK(r) /\ SameStrip(d, r) /\ r.out = d.out
    BY <1>5, RedrawStrip
  <2> HIDE DEF r
  <2>2. Ids(r) = Ids(d) /\ \A x : TabOf(r, x) = TabOf(d, x)
    BY <2>1, SameStripIs
  <2>3. LabelsKept(c, r)
    BY <1>4, <1>5, <2>2 DEF LabelsKept
  <2>4. Shuts(c, r, id, r.out)
    BY <1>3, <1>4, <1>5, <1>6, <1>8, <2>1, <2>2 DEF Shuts, SameStrip
  <2> QED
    BY <1>2, <1>8, <2>1, <2>3, <2>4 DEF Wished, Asks, r
<1>9. CASE c.active_tab_id = id
  <2>1. /\ CoreOK(f) /\ f.active_tab_id \in Ids(d)
        /\ Same(d, f, {"active_tab_id", "tab_composites", "full_content_dirty", "url_buf"})
    BY <1>5, <1>7, FallBackMoves DEF Moves
  <2> HIDE DEF f
  <2>2. f.tabs = d.tabs /\ f.next_tab_id = d.next_tab_id /\ f.out = d.out
    BY <2>1 DEF Same, CoreFields
  <2>3. CoreOK(s) /\ SameStrip(f, s) /\ s.out = Append(f.out, w)
    BY <2>1, SentStrip
  <2> DEFINE r == Redraw(s)
  <2> HIDE DEF s
  <2>4. CoreOK(r) /\ SameStrip(s, r) /\ r.out = s.out
    BY <2>3, RedrawStrip
  <2> HIDE DEF r
  <2>5. r.tabs = d.tabs /\ r.next_tab_id = d.next_tab_id /\ r.active_tab_id = f.active_tab_id
    BY <2>2, <2>3, <2>4 DEF SameStrip
  <2>6. r.out = <<q, w>>
    <3>1. r.out = Append(<<q>>, w)
      BY <1>3, <1>5, <2>2, <2>3, <2>4
    <3> HIDE DEF q, w
    <3> QED
      BY <3>1, AppendTwo
  <2>7. Ids(r) = Ids(d) /\ \A x : TabOf(r, x) = TabOf(d, x)
    BY <2>5, SameTabs
  <2>8. LabelsKept(c, r)
    BY <1>4, <1>5, <2>7 DEF LabelsKept
  <2>9. Shuts(c, r, id, r.out)
    BY <1>3, <1>4, <1>5, <1>6, <1>9, <2>1, <2>5, <2>6, <2>7 DEF Shuts, SameStrip
  <2> QED
    BY <1>2, <1>9, <2>4, <2>8, <2>9 DEF Wished, Asks, r
<1> QED
  BY <1>8, <1>9

LEMMA WishedIs ==
  ASSUME NEW c, CoreOK(c), c.out = <<>>, NEW n \in Wishes(c), n.out # <<>>, Numbered(c, n)
  PROVE  Wished(c, n)
BY NewTabIs, NextTabIs, ClickTabIs, CloseTabIs DEF Wishes

(* What was to be sent is. *)
LEMMA OutCleared ==
  ASSUME NEW c, CoreOK(c)
  PROVE  LET d == [c EXCEPT !.out = <<>>] IN CoreOK(d) /\ SameStrip(c, d) /\ d.out = <<>>
<1> DEFINE d == [c EXCEPT !.out = <<>>]
<1>1. Same(c, d, {"out"}) /\ d.out = <<>>
  BY DEF Same, CoreOK, IsCore, CoreFields
<1> HIDE DEF d
<1>2. CoreOK(d)
  BY <1>1, PlainMoves DEF Moves
<1> QED
  BY <1>1, <1>2 DEF Same, SameStrip, CoreFields, d

----------------------------------------------------------------------------
(* What the host's events do to it *)

LEMMA SetTabLabels ==
  ASSUME NEW c, CoreOK(c), NEW id, NEW fields, "id" \notin DOMAIN fields
  PROVE  LET d == SetTab(c, id, fields)
         IN  /\ CoreOK(d) /\ Ids(d) = Ids(c) /\ d.next_tab_id = c.next_tab_id
             /\ d.active_tab_id = c.active_tab_id /\ d.out = c.out
             /\ \A x \in Ids(c), g \in Labels :
                    TabOf(d, x)[g] = IF x = id /\ g \in DOMAIN fields THEN fields[g] ELSE TabOf(c, x)[g]
<1> DEFINE d == SetTab(c, id, fields)
<1>1. /\ Same(c, d, {"tabs"}) /\ Ids(d) = Ids(c)
      /\ \A x \in Ids(c) : TabOf(d, x) = IF x = id THEN With(TabOf(c, x), fields) ELSE TabOf(c, x)
  BY SetTabTabs
<1>2. CoreOK(d)
  BY SetTabMoves DEF Moves
<1> HIDE DEF d
<1>3. ASSUME NEW x \in Ids(c), NEW g \in Labels
      PROVE  TabOf(d, x)[g] = IF x = id /\ g \in DOMAIN fields THEN fields[g] ELSE TabOf(c, x)[g]
  <2>1. g \in DOMAIN TabOf(c, x)
    BY TabShape DEF TabFields, Labels
  <2> QED
    BY <1>1, <2>1 DEF With
<1>4. d.next_tab_id = c.next_tab_id /\ d.active_tab_id = c.active_tab_id /\ d.out = c.out
  BY <1>1 DEF Same, CoreFields
<1> QED
  BY <1>1, <1>2, <1>3, <1>4 DEF d

\* The strip after an event that says what a tab is called, or nothing does.
Relabels(c, d, e) ==
    /\ CoreOK(d) /\ d.out = c.out
    /\ Ids(d) = Ids(c) /\ d.next_tab_id = c.next_tab_id
    /\ d.active_tab_id = IF e.ev = "TabActivated" THEN e.id ELSE c.active_tab_id
    /\ \A x \in Ids(c), f \in Labels :
           TabOf(d, x)[f] = IF OnLabel(e, f, x, c.active_tab_id) THEN e[f] ELSE TabOf(c, x)[f]

LEMMA TitleIs ==
  ASSUME NEW c, CoreOK(c), NEW title
  PROVE  Relabels(c, Title(c, title), [ev |-> "Title", title |-> title])
<1> DEFINE f == [title |-> title]
           s == SetTab(c, c.active_tab_id, f)
           d == Title(c, title)
           e == [ev |-> "Title", title |-> title]
<1>1. /\ CoreOK(s) /\ Ids(s) = Ids(c) /\ s.next_tab_id = c.next_tab_id
      /\ s.active_tab_id = c.active_tab_id /\ s.out = c.out
      /\ \A x \in Ids(c), g \in Labels :
             TabOf(s, x)[g] = IF x = c.active_tab_id /\ g \in DOMAIN f THEN f[g] ELSE TabOf(c, x)[g]
  BY SetTabLabels
<1>2. SameStrip(s, d) /\ d.out = s.out
  <2>1. d = Redraw([s EXCEPT !.window_title = IF title = "" THEN "ExoBrowser" ELSE title])
    BY DEF Title
  <2> HIDE DEF s, d
  <2> QED
    BY <1>1, <2>1 DEF Redraw, SameStrip, CoreOK, IsCore, CoreFields
<1>3. CoreOK(d)
  BY TitleTold DEF Told, Handles, Moves
<1> HIDE DEF d, s
<1>4. Ids(d) = Ids(s) /\ \A x : TabOf(d, x) = TabOf(s, x)
  BY <1>2, SameStripIs
<1>5. \A x \in Ids(c), g \in Labels :
          TabOf(d, x)[g] = IF OnLabel(e, g, x, c.active_tab_id) THEN e[g] ELSE TabOf(c, x)[g]
  BY <1>1, <1>4 DEF OnLabel, OfTab, OfActive, Labels
<1> QED
  BY <1>1, <1>2, <1>3, <1>4, <1>5 DEF Relabels, SameStrip, d

LEMMA UrlChangedIs ==
  ASSUME NEW c, CoreOK(c), NEW url, NEW ev \in {"UrlChanged", "InitialUrl"}
  PROVE  Relabels(c, UrlChanged(c, url), [ev |-> ev, url |-> url])
<1> DEFINE f == [url |-> url]
           s == SetTab(c, c.active_tab_id, f)
           d == UrlChanged(c, url)
           e == [ev |-> ev, url |-> url]
<1>1. /\ CoreOK(s) /\ Ids(s) = Ids(c) /\ s.next_tab_id = c.next_tab_id
      /\ s.active_tab_id = c.active_tab_id /\ s.out = c.out
      /\ \A x \in Ids(c), g \in Labels :
             TabOf(s, x)[g] = IF x = c.active_tab_id /\ g \in DOMAIN f THEN f[g] ELSE TabOf(c, x)[g]
  BY SetTabLabels
<1>2. SameStrip(s, d) /\ d.out = s.out
  <2>1. d = Redraw([s EXCEPT !.url_buf = IF c.editing THEN @ ELSE url])
    BY DEF UrlChanged
  <2> HIDE DEF s, d
  <2> QED
    BY <1>1, <2>1 DEF Redraw, SameStrip, CoreOK, IsCore, CoreFields
<1>3. CoreOK(d)
  BY UrlChangedTold DEF Told, Handles, Moves
<1> HIDE DEF d, s
<1>4. Ids(d) = Ids(s) /\ \A x : TabOf(d, x) = TabOf(s, x)
  BY <1>2, SameStripIs
<1>5. \A x \in Ids(c), g \in Labels :
          TabOf(d, x)[g] = IF OnLabel(e, g, x, c.active_tab_id) THEN e[g] ELSE TabOf(c, x)[g]
  BY <1>1, <1>4 DEF OnLabel, OfTab, OfActive, Labels
<1> QED
  BY <1>1, <1>2, <1>3, <1>4, <1>5 DEF Relabels, SameStrip, d

LEMMA TabTitleIs ==
  ASSUME NEW c, CoreOK(c), NEW id, NEW title
  PROVE  Relabels(c, TabTitle(c, id, title), [ev |-> "TabTitle", id |-> id, title |-> title])
<1> DEFINE f == [title |-> title]
           s == SetTab(c, id, f)
           d == TabTitle(c, id, title)
           e == [ev |-> "TabTitle", id |-> id, title |-> title]
<1>1. CASE id \notin Ids(c)
  <2>1. d = c
    BY <1>1 DEF TabTitle
  <2>2. \A x \in Ids(c), g \in Labels : ~OnLabel(e, g, x, c.active_tab_id)
    BY <1>1 DEF OnLabel, OfTab, OfActive, Labels
  <2> HIDE DEF d
  <2> QED
    BY <2>1, <2>2 DEF Relabels, d
<1>2. CASE id \in Ids(c)
  <2>1. /\ CoreOK(s) /\ Ids(s) = Ids(c) /\ s.next_tab_id = c.next_tab_id
        /\ s.active_tab_id = c.active_tab_id /\ s.out = c.out
        /\ \A x \in Ids(c), g \in Labels :
               TabOf(s, x)[g] = IF x = id /\ g \in DOMAIN f THEN f[g] ELSE TabOf(c, x)[g]
    BY SetTabLabels
  <2>2. d = Redraw(s)
    BY <1>2 DEF TabTitle
  <2> HIDE DEF d, s
  <2>3. CoreOK(d) /\ SameStrip(s, d) /\ d.out = s.out
    BY <2>1, <2>2, RedrawStrip
  <2>4. Ids(d) = Ids(s) /\ \A x : TabOf(d, x) = TabOf(s, x)
    BY <2>3, SameStripIs
  <2>5. \A x \in Ids(c), g \in Labels :
            TabOf(d, x)[g] = IF OnLabel(e, g, x, c.active_tab_id) THEN e[g] ELSE TabOf(c, x)[g]
    BY <2>1, <2>4 DEF OnLabel, OfTab, OfActive, Labels
  <2> QED
    BY <2>1, <2>3, <2>4, <2>5 DEF Relabels, SameStrip, d
<1> QED
  BY <1>1, <1>2

LEMMA TabUrlIs ==
  ASSUME NEW c, CoreOK(c), NEW id, NEW url
  PROVE  Relabels(c, TabUrl(c, id, url), [ev |-> "TabUrl", id |-> id, url |-> url])
<1> DEFINE f == [url |-> url]
           s == SetTab(c, id, f)
           d == TabUrl(c, id, url)
           e == [ev |-> "TabUrl", id |-> id, url |-> url]
<1>1. CASE id \notin Ids(c)
  <2>1. d = c
    BY <1>1 DEF TabUrl
  <2>2. \A x \in Ids(c), g \in Labels : ~OnLabel(e, g, x, c.active_tab_id)
    BY <1>1 DEF OnLabel, OfTab, OfActive, Labels
  <2> HIDE DEF d
  <2> QED
    BY <2>1, <2>2 DEF Relabels, d
<1>2. CASE id \in Ids(c)
  <2>1. /\ CoreOK(s) /\ Ids(s) = Ids(c) /\ s.next_tab_id = c.next_tab_id
        /\ s.active_tab_id = c.active_tab_id /\ s.out = c.out
        /\ \A x \in Ids(c), g \in Labels :
               TabOf(s, x)[g] = IF x = id /\ g \in DOMAIN f THEN f[g] ELSE TabOf(c, x)[g]
    BY SetTabLabels
  <2>2. SameStrip(s, d) /\ d.out = s.out
    <3>1. d = Redraw([s EXCEPT !.url_buf = IF id = c.active_tab_id /\ ~c.editing THEN url ELSE @])
      BY <1>2 DEF TabUrl
    <3> HIDE DEF s, d
    <3> QED
      BY <2>1, <3>1 DEF Redraw, SameStrip, CoreOK, IsCore, CoreFields
  <2>3. CoreOK(d)
    BY TabUrlTold DEF Told, Handles, Moves
  <2> HIDE DEF d, s
  <2>4. Ids(d) = Ids(s) /\ \A x : TabOf(d, x) = TabOf(s, x)
    BY <2>2, SameStripIs
  <2>5. \A x \in Ids(c), g \in Labels :
            TabOf(d, x)[g] = IF OnLabel(e, g, x, c.active_tab_id) THEN e[g] ELSE TabOf(c, x)[g]
    BY <2>1, <2>4 DEF OnLabel, OfTab, OfActive, Labels
  <2> QED
    BY <2>1, <2>2, <2>3, <2>4, <2>5 DEF Relabels, SameStrip, d
<1> QED
  BY <1>1, <1>2

LEMMA TabActivatedIs ==
  ASSUME NEW c, CoreOK(c), NEW id
  PROVE  Relabels(c, TabActivated(c, id), ToldActive(id))
<1> DEFINE l == Leave(c)
           n == Enter(l, id)
           k == [n EXCEPT !.url_buf = IF c.editing THEN @ ELSE TabOf(c, id).url,
                          !.is_loading = TabOf(c, id).is_loading]
           d == TabActivated(c, id)
           e == ToldActive(id)
<1>1. d = Redraw(IF c.active_tab_id = id THEN c ELSE IF id \in Ids(c) THEN k ELSE n)
  BY DEF TabActivated
<1>2. CoreOK(d)
  BY TabActivatedTold DEF Told, Handles, Moves
<1> HIDE DEF d
<1>3. Same(c, l, {}) /\ CoreOK(l)
  BY LeaveMoves DEF Moves
<1> HIDE DEF l
<1>4. /\ n.active_tab_id = id /\ CoreOK(n)
      /\ Same(l, n, {"active_tab_id", "tab_composites", "full_content_dirty"})
  BY <1>3, EnterMoves DEF Moves
<1> HIDE DEF n
<1>5. n.tabs = c.tabs /\ n.next_tab_id = c.next_tab_id /\ n.out = c.out
  BY <1>3, <1>4 DEF Same, CoreFields
<1>6. /\ k.tabs = c.tabs /\ k.next_tab_id = c.next_tab_id /\ k.out = c.out /\ k.active_tab_id = id
      /\ IsCore(k)
  BY <1>4, <1>5 DEF CoreOK, IsCore, CoreFields
<1> HIDE DEF k
<1>7. d.tabs = c.tabs /\ d.next_tab_id = c.next_tab_id /\ d.out = c.out /\ d.active_tab_id = id
  <2> DEFINE m == IF c.active_tab_id = id THEN c ELSE IF id \in Ids(c) THEN k ELSE n
  <2>1. /\ m.tabs = c.tabs /\ m.next_tab_id = c.next_tab_id /\ m.out = c.out /\ m.active_tab_id = id
        /\ IsCore(m)
    BY <1>4, <1>5, <1>6 DEF CoreOK
  <2>2. d = Redraw(m)
    BY <1>1
  <2> HIDE DEF m
  <2>3. Same(m, d, {"chrome_dirty"})
    BY <2>1, <2>2, RedrawIs
  <2> QED
    BY <2>1, <2>3 DEF Same, CoreFields
<1>8. Ids(d) = Ids(c) /\ \A x : TabOf(d, x) = TabOf(c, x)
  BY <1>7, SameTabs
<1>9. \A x \in Ids(c), g \in Labels : ~OnLabel(e, g, x, c.active_tab_id)
  BY DEF OnLabel, OfTab, OfActive, Labels, ToldActive
<1>10. e.ev = "TabActivated" /\ e.id = id
  BY DEF ToldActive
<1> HIDE DEF e
<1> QED
  BY <1>2, <1>7, <1>8, <1>9, <1>10 DEF Relabels, d, e

LEMMA HeardIs ==
  ASSUME NEW c, CoreOK(c), NEW e \in Broadcasts
  PROVE  Relabels(c, handle_render_event(c, e), e)
<1>1. ASSUME NEW t \in Nat, e = ToldActive(t) PROVE Relabels(c, handle_render_event(c, e), e)
  <2>1. e.ev = "TabActivated" /\ e.id = t
    BY <1>1 DEF ToldActive
  <2>2. handle_render_event(c, e) = TabActivated(c, t)
    BY <2>1 DEF handle_render_event
  <2> QED
    BY <1>1, <2>2, TabActivatedIs
<1>2. ASSUME NEW x, e = [ev |-> "Title", title |-> x] PROVE Relabels(c, handle_render_event(c, e), e)
  <2>1. e.ev = "Title" /\ e.title = x
    BY <1>2
  <2>2. handle_render_event(c, e) = Title(c, x)
    BY <2>1 DEF handle_render_event
  <2> QED
    BY <1>2, <2>2, TitleIs
<1>3. ASSUME NEW x, NEW ev \in {"UrlChanged", "InitialUrl"}, e = [ev |-> ev, url |-> x]
      PROVE  Relabels(c, handle_render_event(c, e), e)
  <2>1. e.ev \in {"UrlChanged", "InitialUrl"} /\ e.url = x
    BY <1>3
  <2>2. handle_render_event(c, e) = UrlChanged(c, x)
    BY <2>1 DEF handle_render_event
  <2> QED
    BY <1>3, <2>2, UrlChangedIs
<1>4. ASSUME NEW t, NEW x, e = [ev |-> "TabTitle", id |-> t, title |-> x]
      PROVE  Relabels(c, handle_render_event(c, e), e)
  <2>1. e.ev = "TabTitle" /\ e.id = t /\ e.title = x
    BY <1>4
  <2>2. handle_render_event(c, e) = TabTitle(c, t, x)
    BY <2>1 DEF handle_render_event
  <2> QED
    BY <1>4, <2>2, TabTitleIs
<1>5. ASSUME NEW t, NEW x, e = [ev |-> "TabUrl", id |-> t, url |-> x]
      PROVE  Relabels(c, handle_render_event(c, e), e)
  <2>1. e.ev = "TabUrl" /\ e.id = t /\ e.url = x
    BY <1>5
  <2>2. handle_render_event(c, e) = TabUrl(c, t, x)
    BY <2>1 DEF handle_render_event
  <2> QED
    BY <1>5, <2>2, TabUrlIs
<1> QED
  BY <1>1, <1>2, <1>3, <1>4, <1>5 DEF Broadcasts, Greeting

\* A tab is there, called what a tab is called when it is opened; a tab goes.
NewTabLabels == [title |-> "New Tab", url |-> Home]

AddsTab(c, d, t) ==
    /\ CoreOK(d) /\ d.out = c.out /\ Ids(d) = Ids(c) \cup {t}
    /\ d.active_tab_id = c.active_tab_id
    /\ d.next_tab_id = IF Above(t) > c.next_tab_id THEN Above(t) ELSE c.next_tab_id
    /\ \A x \in Ids(c), f \in Labels :
           TabOf(d, x)[f] = IF x = t THEN NewTabLabels[f] ELSE TabOf(c, x)[f]

DropsTab(c, d, t) ==
    /\ CoreOK(d) /\ d.out = c.out /\ Ids(d) = Ids(c) \ {t}
    /\ d.next_tab_id = c.next_tab_id
    /\ d.active_tab_id \in Ids(d) \cup {c.active_tab_id}
    /\ c.active_tab_id # t => d.active_tab_id = c.active_tab_id
    /\ LabelsKept(c, d)

LEMMA TabCreatedIs ==
  ASSUME NEW c, CoreOK(c), NEW id \in Nat
  PROVE  AddsTab(c, TabCreated(c, id, "New Tab", Home), id)
<1> DEFINE given == NewTabLabels
           n == [c EXCEPT !.next_tab_id = IF Above(id) > @ THEN Above(id) ELSE @]
           h1 == [title |-> "New Tab"]
           h2 == [url |-> Home]
           t == SetTab(n, id, h1)
           g == SetTab(t, id, h2)
           tab == TabInfo(id, "New Tab", Home, FALSE)
           a == [n EXCEPT !.tabs = Append(@, tab)]
           d == TabCreated(c, id, "New Tab", Home)
<1>1. d = Redraw(IF id \in Ids(c) THEN g ELSE a)
  <2>1. "New Tab" # ""
    OBVIOUS
  <2>2. Home # <<>>
    BY DEF Home
  <2> QED
    BY <2>1, <2>2 DEF TabCreated
<1>2. CoreOK(d)
  BY TabCreatedTold DEF Told, Handles, Moves
<1> HIDE DEF d
<1>3. Same(c, n, {"next_tab_id"})
  BY DEF Same, CoreOK, IsCore
<1>4. n.next_tab_id = IF Above(id) > c.next_tab_id THEN Above(id) ELSE c.next_tab_id
  BY DEF CoreOK, IsCore, CoreFields
<1>5. DOMAIN tab = TabFields /\ tab.id = id
  BY DEF TabInfo, TabFields
<1> HIDE DEF n, tab
<1>6. n.tabs = c.tabs /\ n.active_tab_id = c.active_tab_id /\ n.out = c.out
  BY <1>3 DEF Same, CoreFields
<1>7. Ids(n) = Ids(c) /\ \A x : TabOf(n, x) = TabOf(c, x)
  BY <1>6, SameTabs
<1>8. /\ c.next_tab_id \in Nat /\ n.next_tab_id \in Nat /\ n.next_tab_id >= c.next_tab_id
      /\ id < n.next_tab_id \/ id = TopId
  <2>1. c.next_tab_id \in Nat
    BY DEF CoreOK, TabsOK
  <2> QED
    BY <1>4, <2>1, CoreAssumption DEF Above
<1>9. CASE id \in Ids(c)
  <2>1. CoreOK(n)
    <3>1. \A i \in DOMAIN c.tabs : c.tabs[i].id < n.next_tab_id \/ c.tabs[i].id = TopId
      BY <1>8 DEF CoreOK, TabsOK, IdsFresh
    <3>2. TabsOK(n)
      BY <1>6, <1>8, <3>1 DEF CoreOK, TabsOK, IdsFresh
    <3>3. NoBuffers(n) /\ Flags(n)
      BY <1>3 DEF CoreOK, NoBuffers, Flags, Same, CoreFields
    <3> QED
      BY <1>3, <3>2, <3>3 DEF CoreOK, Same
  <2>2. /\ DOMAIN h1 = {"title"} /\ h1["title"] = given["title"]
        /\ DOMAIN h2 = {"url"} /\ h2["url"] = given["url"]
    BY DEF NewTabLabels
  <2> HIDE DEF h1, h2
  <2>3. /\ CoreOK(t) /\ Ids(t) = Ids(n) /\ t.next_tab_id = n.next_tab_id
        /\ t.active_tab_id = n.active_tab_id /\ t.out = n.out
        /\ \A x \in Ids(n), f \in Labels :
               TabOf(t, x)[f] = IF x = id /\ f \in DOMAIN h1 THEN h1[f] ELSE TabOf(n, x)[f]
    BY <2>2, <2>1, SetTabLabels
  <2> HIDE DEF t
  <2>4. /\ CoreOK(g) /\ Ids(g) = Ids(t) /\ g.next_tab_id = t.next_tab_id
        /\ g.active_tab_id = t.active_tab_id /\ g.out = t.out
        /\ \A x \in Ids(t), f \in Labels :
               TabOf(g, x)[f] = IF x = id /\ f \in DOMAIN h2 THEN h2[f] ELSE TabOf(t, x)[f]
    BY <2>2, <2>3, SetTabLabels
  <2> HIDE DEF g
  <2>5. SameStrip(g, d) /\ d.out = g.out
    BY <1>1, <1>9, <2>4, RedrawStrip
  <2>6. Ids(d) = Ids(g) /\ \A x : TabOf(d, x) = TabOf(g, x)
    BY <2>5, SameStripIs
  <2>7. \A x \in Ids(c), f \in Labels : TabOf(d, x)[f] = IF x = id THEN given[f] ELSE TabOf(c, x)[f]
    BY <1>7, <2>2, <2>3, <2>4, <2>6 DEF Labels
  <2>8. Ids(d) = Ids(c) \cup {id}
    BY <1>7, <1>9, <2>3, <2>4, <2>6
  <2> QED
    BY <1>2, <1>4, <1>6, <2>3, <2>4, <2>5, <2>7, <2>8 DEF SameStrip, AddsTab, d
<1>10. CASE id \notin Ids(c)
  <2>1. IsCore(a) /\ a.tabs = Append(n.tabs, tab) /\ a.next_tab_id = n.next_tab_id
        /\ a.active_tab_id = n.active_tab_id /\ a.out = n.out
    BY <1>3 DEF Same, IsCore, CoreFields
  <2> HIDE DEF a
  <2>2. Ids(a) = Ids(c) \cup {id} /\ \A x \in Ids(c) : TabOf(a, x) = TabOf(c, x)
    <3>1. a.tabs = Append(c.tabs, tab) /\ a.next_tab_id \in Nat
          /\ a.next_tab_id >= c.next_tab_id /\ (id < a.next_tab_id \/ id = TopId)
      BY <1>6, <1>8, <2>1
    <3> QED
      BY <1>5, <1>10, <3>1, TabAdded DEF CoreOK
  <2>3. SameStrip(a, d) /\ d.out = a.out
    <3>1. Same(a, d, {"chrome_dirty"})
      BY <1>1, <1>10, <2>1, RedrawIs
    <3> QED
      BY <3>1 DEF Same, SameStrip, CoreFields
  <2>4. Ids(d) = Ids(a) /\ \A x : TabOf(d, x) = TabOf(a, x)
    BY <2>3, SameStripIs
  <2>5. \A x \in Ids(c), f \in Labels : TabOf(d, x)[f] = IF x = id THEN given[f] ELSE TabOf(c, x)[f]
    BY <1>10, <2>2, <2>4
  <2> QED
    BY <1>2, <1>4, <1>6, <2>1, <2>2, <2>3, <2>4, <2>5 DEF SameStrip, AddsTab, d
<1> QED
  BY <1>9, <1>10

LEMMA TabClosedIs ==
  ASSUME NEW c, CoreOK(c), NEW id
  PROVE  DropsTab(c, TabClosed(c, id), id)
<1> DEFINE b == Drop(c, id)
           f == FallBack(b)
           d == TabClosed(c, id)
<1>1. d = Redraw(IF c.active_tab_id = id /\ b.tabs # <<>> THEN f ELSE b)
  BY DEF TabClosed
<1> HIDE DEF d
<1>2. /\ CoreOK(b) /\ Ids(b) = Ids(c) \ {id} /\ \A x \in Ids(b) : TabOf(b, x) = TabOf(c, x)
      /\ b.active_tab_id = c.active_tab_id /\ b.out = c.out
  BY DropMoves DEF Moves
<1>3. b.next_tab_id = c.next_tab_id
  BY DropIs DEF Same, CoreFields, CoreOK
<1> HIDE DEF b
<1>4. CASE c.active_tab_id = id /\ b.tabs # <<>>
  <2>1. /\ CoreOK(f) /\ f.active_tab_id \in Ids(b)
        /\ Same(b, f, {"active_tab_id", "tab_composites", "full_content_dirty", "url_buf"})
    BY <1>2, <1>4, FallBackMoves DEF Moves
  <2> HIDE DEF f
  <2>2. f.tabs = b.tabs /\ f.next_tab_id = b.next_tab_id /\ f.out = b.out
    BY <2>1 DEF Same, CoreFields
  <2>3. CoreOK(d) /\ SameStrip(f, d) /\ d.out = f.out
    BY <1>1, <1>4, <2>1, RedrawStrip
  <2>4. d.tabs = b.tabs
    BY <2>2, <2>3 DEF SameStrip
  <2>5. Ids(d) = Ids(b) /\ \A x : TabOf(d, x) = TabOf(b, x)
    BY <2>4, SameTabs
  <2> QED
    BY <1>2, <1>3, <1>4, <2>1, <2>2, <2>3, <2>5 DEF SameStrip, LabelsKept, DropsTab, d
<1>5. CASE ~(c.active_tab_id = id /\ b.tabs # <<>>)
  <2>1. CoreOK(d) /\ SameStrip(b, d) /\ d.out = b.out
    BY <1>1, <1>2, <1>5, RedrawStrip
  <2>2. Ids(d) = Ids(b) /\ \A x : TabOf(d, x) = TabOf(b, x)
    BY <2>1, SameStripIs
  <2> QED
    BY <1>2, <1>3, <2>1, <2>2 DEF SameStrip, LabelsKept, DropsTab, d
<1> QED
  BY <1>4, <1>5

----------------------------------------------------------------------------
(* Queues *)

LEMMA TailIs ==
  ASSUME NEW S, NEW q \in Seq(S), q # <<>>
  PROVE  /\ 1 \in DOMAIN q /\ Head(q) = q[1] /\ Head(q) \in S /\ Tail(q) \in Seq(S)
         /\ DOMAIN q \subseteq Nat /\ DOMAIN Tail(q) \subseteq Nat
         /\ \A i \in DOMAIN Tail(q) : i + 1 \in DOMAIN q /\ Tail(q)[i] = q[i + 1] /\ i >= 1
         /\ \A i \in DOMAIN q : i = 1 \/ (i > 1 /\ i - 1 \in DOMAIN Tail(q) /\ Tail(q)[i - 1] = q[i])
<1>1. Len(q) \in Nat /\ Len(q) # 0 /\ DOMAIN q = 1..Len(q)
  OBVIOUS
<1>2. Tail(q) \in Seq(S) /\ Head(q) \in S /\ Len(Tail(q)) = Len(q) - 1
      /\ \A i \in 1..Len(Tail(q)) : Tail(q)[i] = q[i + 1]
  BY HeadTailProperties
<1>3. DOMAIN Tail(q) = 1..(Len(q) - 1)
  BY <1>1, <1>2
<1>4. Head(q) = q[1]
  OBVIOUS
<1> QED
  BY <1>1, <1>2, <1>3, <1>4

LEMMA HasTail ==
  ASSUME NEW S, NEW q \in Seq(S), q # <<>>, NEW e
  PROVE  /\ Has(q, Head(q))
         /\ Has(Tail(q), e) => Has(q, e)
         /\ Has(q, e) /\ e # Head(q) => Has(Tail(q), e)
<1>1. Has(q, Head(q))
  BY TailIs DEF Has
<1>2. ASSUME Has(Tail(q), e) PROVE Has(q, e)
  <2>1. PICK i \in DOMAIN Tail(q) : Tail(q)[i] = e
    BY <1>2 DEF Has
  <2>2. i + 1 \in DOMAIN q /\ q[i + 1] = e
    BY <2>1, TailIs
  <2> QED
    BY <2>2 DEF Has
<1>3. ASSUME Has(q, e), e # Head(q) PROVE Has(Tail(q), e)
  <2>1. PICK i \in DOMAIN q : q[i] = e
    BY <1>3 DEF Has
  <2>2. i - 1 \in DOMAIN Tail(q) /\ Tail(q)[i - 1] = e
    BY <1>3, <2>1, TailIs
  <2> QED
    BY <2>2 DEF Has
<1> QED
  BY <1>1, <1>2, <1>3

LEMMA ConcatIs ==
  ASSUME NEW S, NEW q \in Seq(S), NEW r \in Seq(S)
  PROVE  /\ q \o r \in Seq(S) /\ Len(q) \in Nat /\ DOMAIN q = 1..Len(q) /\ DOMAIN r \subseteq Nat \ {0}
         /\ \A i \in DOMAIN q : i \in DOMAIN (q \o r) /\ (q \o r)[i] = q[i]
         /\ \A i \in DOMAIN r : Len(q) + i \in DOMAIN (q \o r) /\ (q \o r)[Len(q) + i] = r[i]
         /\ \A i \in DOMAIN (q \o r) :
                \/ i \in DOMAIN q
                \/ i \in Nat /\ i > Len(q) /\ i - Len(q) \in DOMAIN r /\ (q \o r)[i] = r[i - Len(q)]
<1>1. Len(q) \in Nat /\ Len(r) \in Nat /\ DOMAIN q = 1..Len(q) /\ DOMAIN r = 1..Len(r)
  OBVIOUS
<1>2. q \o r \in Seq(S) /\ DOMAIN (q \o r) = 1..(Len(q) + Len(r))
  BY ConcatProperties
<1>3. \A i \in 1..(Len(q) + Len(r)) : (q \o r)[i] = IF i <= Len(q) THEN q[i] ELSE r[i - Len(q)]
  BY ConcatProperties
<1> QED
  BY <1>1, <1>2, <1>3

LEMMA HasConcat ==
  ASSUME NEW S, NEW q \in Seq(S), NEW r \in Seq(S), NEW e
  PROVE  Has(q \o r, e) <=> Has(q, e) \/ Has(r, e)
<1>1. ASSUME Has(q \o r, e) PROVE Has(q, e) \/ Has(r, e)
  BY <1>1, ConcatIs DEF Has
<1>2. ASSUME Has(q, e) PROVE Has(q \o r, e)
  BY <1>2, ConcatIs DEF Has
<1>3. ASSUME Has(r, e) PROVE Has(q \o r, e)
  <2>1. PICK i \in DOMAIN r : r[i] = e
    BY <1>3 DEF Has
  <2>2. Len(q) + i \in DOMAIN (q \o r) /\ (q \o r)[Len(q) + i] = e
    BY <2>1, ConcatIs
  <2> QED
    BY <2>2 DEF Has
<1> QED
  BY <1>1, <1>2, <1>3

LEMMA SingleIs == ASSUME NEW e PROVE <<e>> \in Seq({e}) /\ DOMAIN <<e>> = {1} /\ <<e>>[1] = e /\ <<e>> # <<>>
OBVIOUS

LEMMA PairIs ==
  ASSUME NEW a, NEW b
  PROVE  <<a, b>> \in Seq({a, b}) /\ DOMAIN <<a, b>> = {1, 2} /\ <<a, b>>[1] = a /\ <<a, b>>[2] = b
OBVIOUS

LEMMA SingleTail == ASSUME NEW e PROVE Head(<<e>>) = e /\ Tail(<<e>>) = <<>>
<1>1. <<e>> \in Seq({e}) /\ Len(<<e>>) = 1 /\ <<e>> # <<>>
  OBVIOUS
<1>2. Tail(<<e>>) \in Seq({e}) /\ Len(Tail(<<e>>)) = 0
  BY <1>1, HeadTailProperties
<1> QED
  BY <1>1, <1>2

LEMMA PairTail == ASSUME NEW a, NEW b PROVE Head(<<a, b>>) = a /\ Tail(<<a, b>>) = <<b>>
<1>1. <<a, b>> \in Seq({a, b}) /\ Len(<<a, b>>) = 2 /\ <<a, b>> # <<>> /\ <<a, b>>[2] = b
  OBVIOUS
<1>2. Tail(<<a, b>>) \in Seq({a, b}) /\ Len(Tail(<<a, b>>)) = 1 /\ Tail(<<a, b>>)[1] = b
  BY <1>1, HeadTailProperties
<1>3. <<b>> \in Seq({a, b}) /\ Len(<<b>>) = 1 /\ <<b>>[1] = b
  OBVIOUS
<1>4. Tail(<<a, b>>) = <<b>>
  <2>1. \A i \in 1..1 : Tail(<<a, b>>)[i] = <<b>>[i]
    BY <1>2, <1>3
  <2> QED
    BY <1>2, <1>3, <2>1, SeqEqual
<1>5. Head(<<a, b>>) = a
  OBVIOUS
<1> QED
  BY <1>4, <1>5

LEMMA EmptyHas == ASSUME NEW e PROVE ~Has(<<>>, e) /\ DOMAIN <<>> = {}
BY DEF Has

LEMMA SingleHas == ASSUME NEW a, NEW e PROVE Has(<<a>>, e) <=> e = a
BY SingleIs DEF Has

LEMMA PairHas == ASSUME NEW a, NEW b, NEW e PROVE Has(<<a, b>>, e) <=> e = a \/ e = b
BY PairIs DEF Has

LEMMA HasAppend ==
  ASSUME NEW S, NEW q \in Seq(S), NEW a \in S, NEW e
  PROVE  Append(q, a) \in Seq(S) /\ (Has(Append(q, a), e) <=> Has(q, e) \/ e = a)
<1>1. Append(q, a) = q \o <<a>> /\ <<a>> \in Seq(S)
  BY AppendIsConcat
<1>2. Append(q, a) \in Seq(S)
  OBVIOUS
<1>3. Has(q \o <<a>>, e) <=> Has(q, e) \/ Has(<<a>>, e)
  BY <1>1, HasConcat
<1> QED
  BY <1>1, <1>2, <1>3, SingleHas

LEMMA AppendIs ==
  ASSUME NEW S, NEW q \in Seq(S), NEW a \in S
  PROVE  /\ Len(q) \in Nat /\ DOMAIN q = 1..Len(q) /\ DOMAIN Append(q, a) = 1..(Len(q) + 1)
         /\ \A i \in DOMAIN q : Append(q, a)[i] = q[i]
         /\ Append(q, a)[Len(q) + 1] = a
BY AppendProperties

\* The requests and the replies are told apart by what they are of which tab.
LEMMA Kinds ==
  /\ \A t, x : Created(t, Home) = Created(x, Home) <=> t = x
  /\ \A t, x : Closed(t) = Closed(x) <=> t = x
  /\ \A t, x : Switched(t) = Switched(x) <=> t = x
  /\ \A t, x : Created(t, Home) # Closed(x)
  /\ \A t, x : Created(t, Home) # Switched(x)
  /\ \A t, x : Closed(t) # Switched(x)
  /\ \A t : Created(t, Home).tab_id = t /\ Closed(t).tab_id = t /\ Switched(t).tab_id = t
<1>1. \A t : Created(t, Home).ev = "CreateTab" /\ Closed(t).ev = "CloseTab" /\ Switched(t).ev = "SwitchTab"
  BY DEF Created, Closed, Switched
<1>2. \A t : Created(t, Home).tab_id = t /\ Closed(t).tab_id = t /\ Switched(t).tab_id = t
  BY DEF Created, Closed, Switched
<1> QED
  BY <1>1, <1>2

LEMMA ReplyKinds ==
  /\ \A t, x : ToldCreated(t) = ToldCreated(x) <=> t = x
  /\ \A t, x : ToldClosed(t) = ToldClosed(x) <=> t = x
  /\ \A t, x : ToldActive(t) = ToldActive(x) <=> t = x
  /\ \A t, x : ToldCreated(t) # ToldClosed(x)
  /\ \A t, x : ToldCreated(t) # ToldActive(x)
  /\ \A t, x : ToldClosed(t) # ToldActive(x)
  /\ \A t : ToldCreated(t).id = t /\ ToldClosed(t).id = t /\ ToldActive(t).id = t
<1>1. \A t : /\ ToldCreated(t).ev = "TabCreated" /\ ToldClosed(t).ev = "TabClosed"
             /\ ToldActive(t).ev = "TabActivated"
  BY DEF ToldCreated, ToldClosed, ToldActive
<1>2. \A t : ToldCreated(t).id = t /\ ToldClosed(t).id = t /\ ToldActive(t).id = t
  BY DEF ToldCreated, ToldClosed, ToldActive
<1> QED
  BY <1>1, <1>2

----------------------------------------------------------------------------
(* What each step does *)

\* The client asks for out.
UserDoes(k, out) ==
    /\ out \in Seq(Requests) /\ Asks(core[k], core'[k], out)
    /\ core'[k].out = <<>> /\ core'[k].active_tab_id \in Nat
    /\ up'[k] = up[k] \o out
    /\ core' = [j \in Clients |-> core'[j]] /\ up' = [j \in Clients |-> up'[j]]
    /\ \A j \in Clients \ {k} : core'[j] = core[j] /\ up'[j] = up[j]
    /\ askers' = askers \cup {k}
    /\ hasty' \in BOOLEAN /\ (~hasty' => ~hasty /\ ~UnderWay)
    /\ UNCHANGED <<joined, table, active, opened, bus, replies, page, news, elsewhere, amiss>>

LEMMA AsksAfter ==
  ASSUME NEW c, NEW n, NEW out, Asks(c, n, out), NEW d, CoreOK(d), SameStrip(n, d)
  PROVE  Asks(c, d, out)
<1>1. Ids(d) = Ids(n) /\ \A x : TabOf(d, x) = TabOf(n, x)
  BY SameStripIs
<1>2. LabelsKept(c, d)
  BY <1>1 DEF Asks, LabelsKept
<1>3. d.active_tab_id = n.active_tab_id /\ d.next_tab_id = n.next_tab_id
  BY DEF SameStrip
<1>4. ASSUME Opens(c, n, out) PROVE Opens(c, d, out)
  BY <1>1, <1>3, <1>4 DEF Opens
<1>5. ASSUME Turns(c, n, out) PROVE Turns(c, d, out)
  BY <1>1, <1>3, <1>5 DEF Turns
<1>6. ASSUME NEW x, Shuts(c, n, x, out) PROVE Shuts(c, d, x, out)
  BY <1>1, <1>3, <1>6 DEF Shuts
<1> QED
  BY <1>2, <1>4, <1>5, <1>6 DEF Asks

LEMMA IdsAreNats == ASSUME NEW c, CoreOK(c) PROVE Ids(c) \subseteq Nat
BY DEF Ids, CoreOK, TabsOK, IdsFresh

LEMMA AsksForTabs ==
  ASSUME NEW c, CoreOK(c), c.active_tab_id \in Nat, NEW d, NEW out, Asks(c, d, out)
  PROVE  /\ out \in Seq(Requests) /\ IsBatch(out) /\ out # <<>>
         /\ d.active_tab_id \in Nat /\ d.next_tab_id \in Nat /\ d.next_tab_id >= c.next_tab_id
<1>1. c.next_tab_id \in Nat /\ d.next_tab_id \in Nat
  BY DEF CoreOK, TabsOK, Asks
<1>2. Ids(c) \subseteq Nat /\ Ids(d) \subseteq Nat
  BY IdsAreNats DEF Asks
<1>3. ASSUME NEW t \in Nat
      PROVE  Created(t, Home) \in Requests /\ Closed(t) \in Requests /\ Switched(t) \in Requests
  BY DEF Requests
<1>4. CASE Opens(c, d, out)
  <2>1. out = <<Created(c.next_tab_id, Home)>>
    BY <1>4 DEF Opens
  <2> QED
    BY <1>1, <1>3, <1>4, <2>1 DEF Opens, IsBatch
<1>5. CASE Turns(c, d, out)
  <2>1. out = <<Switched(d.active_tab_id)>> /\ d.active_tab_id \in Nat
    BY <1>2, <1>5 DEF Turns
  <2> QED
    BY <1>1, <1>3, <1>5, <2>1 DEF Turns, IsBatch
<1>6. ASSUME NEW x \in Ids(c) \cup {c.active_tab_id}, Shuts(c, d, x, out)
      PROVE  /\ out \in Seq(Requests) /\ IsBatch(out) /\ out # <<>>
             /\ d.active_tab_id \in Nat /\ d.next_tab_id >= c.next_tab_id
  <2>1. x \in Nat /\ d.next_tab_id = c.next_tab_id
    BY <1>2, <1>6 DEF Shuts
  <2>2. CASE out = <<Closed(x)>> /\ d.active_tab_id = c.active_tab_id
    BY <1>1, <1>3, <2>1, <2>2 DEF IsBatch
  <2>3. CASE out = <<Closed(x), Switched(d.active_tab_id)>> /\ d.active_tab_id \in Ids(d)
    <3>1. d.active_tab_id \in Nat
      BY <1>2, <2>3
    <3> QED
      BY <1>1, <1>3, <2>1, <2>3, <3>1 DEF IsBatch
  <2> QED
    BY <1>6, <2>2, <2>3 DEF Shuts
<1> QED
  BY <1>1, <1>4, <1>5, <1>6 DEF Asks

LEMMA UserIs ==
  ASSUME TypeInv, NEW k \in Clients, User(k)
  PROVE  \E out : UserDoes(k, out)
<1> DEFINE c == core[k]
<1>1. CoreOK(c) /\ c.out = <<>> /\ c.active_tab_id \in Nat
  BY DEF TypeInv
<1>2. PICK n \in Wishes(c) :
          /\ n.out # <<>>
          /\ n.next_tab_id = core[k].next_tab_id \/ core[k].next_tab_id <= MaxTab
          /\ core' = [core EXCEPT ![k] = [n EXCEPT !.out = <<>>]]
          /\ up' = [up EXCEPT ![k] = @ \o n.out]
  BY DEF User
<1> DEFINE out == n.out
           d == [n EXCEPT !.out = <<>>]
<1>3. Asks(c, n, out)
  <2>1. c.next_tab_id \in Nat
    BY <1>1 DEF CoreOK, TabsOK
  <2>2. Numbered(c, n)
    BY <1>2, <2>1, BrowsingAssumption, CoreAssumption DEF Numbered
  <2> QED
    BY <1>1, <1>2, <2>2, WishedIs DEF Wished
<1>4. CoreOK(d) /\ SameStrip(n, d) /\ d.out = <<>>
  BY <1>3, OutCleared DEF Asks
<1>5. core' = [core EXCEPT ![k] = d] /\ up' = [up EXCEPT ![k] = @ \o out]
  BY <1>2
<1>6. /\ UNCHANGED <<joined, table, active, opened, bus, replies, page, news, elsewhere, amiss>>
      /\ askers' = askers \cup {k} /\ hasty' = (hasty \/ UnderWay)
  BY DEF User, hostVars
<1> HIDE DEF d, out, c
<1>7. Asks(c, d, out)
  BY <1>3, <1>4, AsksAfter
<1>8. out \in Seq(Requests) /\ d.active_tab_id \in Nat
  BY <1>1, <1>7, AsksForTabs
<1>9. /\ core'[k] = d /\ core' = [j \in Clients |-> core'[j]]
      /\ \A j \in Clients \ {k} : core'[j] = core[j]
  BY <1>5 DEF TypeInv
<1>10. /\ up'[k] = up[k] \o out /\ up' = [j \in Clients |-> up'[j]]
       /\ \A j \in Clients \ {k} : up'[j] = up[j]
  BY <1>5 DEF TypeInv
<1>11. hasty' \in BOOLEAN /\ (~hasty' => ~hasty /\ ~UnderWay)
  BY <1>6 DEF TypeInv, UnderWay
<1> QED
  BY <1>4, <1>6, <1>7, <1>8, <1>9, <1>10, <1>11 DEF UserDoes, c

\* The host answers the first request of k.
Answers(k, m, told) ==
    /\ On(k) /\ up[k] # <<>> /\ m = Head(up[k]) /\ told \in Replies
    /\ up' = [j \in Clients |-> up'[j]] /\ replies' = [j \in Clients |-> replies'[j]]
    /\ up'[k] = Tail(up[k]) /\ replies'[k] = Append(replies[k], told)
    /\ \A j \in Clients \ {k} : up'[j] = up[j] /\ replies'[j] = replies[j]
    /\ UNCHANGED <<core, joined, page, news, hasty, askers>>

Publishes(items) ==
    /\ items \in Seq(Broadcasts)
    /\ bus' = [j \in Clients |-> IF On(j) THEN bus[j] \o items ELSE bus[j]]

Creates(k, t) ==
    /\ Answers(k, Created(t, Home), ToldCreated(t))
    /\ DOMAIN table' = DOMAIN table \cup {t} /\ \A x \in DOMAIN table \ {t} : table'[x] = table[x]
    /\ opened' = opened \cup {t}
    /\ LabelsTyped(table'[t])
    /\ active' = t /\ Publishes(Announcement(t, table'[t]))
    /\ elsewhere' = {} /\ amiss' = Mended(t, Labels)

Closes(k, t) ==
    /\ Answers(k, Closed(t), ToldClosed(t))
    /\ DOMAIN table' = DOMAIN table \ {t} /\ \A x \in DOMAIN table' : table'[x] = table[x]
    /\ UNCHANGED <<active, opened, bus, elsewhere, amiss>>

Switches(k, t) ==
    /\ Answers(k, Switched(t), ToldActive(t))
    /\ UNCHANGED <<table, opened>> /\ active' = t
    /\ Publishes(IF t \in DOMAIN table THEN Announcement(t, table[t]) ELSE <<>>)
    /\ elsewhere' = IF t \in DOMAIN table THEN {} ELSE elsewhere
    /\ amiss' = IF t \in DOMAIN table THEN Mended(t, Labels) ELSE amiss

LEMMA AnnouncementIs ==
  ASSUME NEW t \in Nat, NEW tab, LabelsTyped(tab)
  PROVE  LET a == Announcement(t, tab)
         IN  /\ a \in Seq(Broadcasts) /\ DOMAIN a = 1..3
             /\ a[1] = [ev |-> "Title", title |-> tab.title]
             /\ a[2] = [ev |-> "UrlChanged", url |-> tab.url]
             /\ a[3] = ToldActive(t)
<1> DEFINE e1 == [ev |-> "Title", title |-> tab.title]
           e2 == [ev |-> "UrlChanged", url |-> tab.url]
           e3 == ToldActive(t)
           a == Announcement(t, tab)
<1>1. e1 \in Broadcasts /\ e2 \in Broadcasts /\ e3 \in Broadcasts
  BY DEF Broadcasts, LabelsTyped, Texts, Labels
<1>2. a = <<e1, e2, e3>>
  BY DEF Announcement, ToldActive
<1> HIDE DEF e1, e2, e3, a
<1>3. a \in Seq(Broadcasts) /\ DOMAIN a = 1..3 /\ a[1] = e1 /\ a[2] = e2 /\ a[3] = e3
  BY <1>1, <1>2
<1> QED
  BY <1>3 DEF a, e1, e2, e3

LEMMA AnnouncementHas ==
  ASSUME NEW t \in Nat, NEW tab, LabelsTyped(tab)
  PROVE  Announcement(t, tab) \in Seq(Broadcasts) /\ \A x : Has(Announcement(t, tab), ToldActive(x)) <=> x = t
<1> DEFINE a == Announcement(t, tab)
           e1 == [ev |-> "Title", title |-> tab.title]
           e2 == [ev |-> "UrlChanged", url |-> tab.url]
<1>1. a \in Seq(Broadcasts) /\ DOMAIN a = 1..3 /\ a[1] = e1 /\ a[2] = e2 /\ a[3] = ToldActive(t)
  BY AnnouncementIs
<1>2. e1.ev = "Title" /\ e2.ev = "UrlChanged"
  OBVIOUS
<1> HIDE DEF a, e1, e2
<1>3. \A x : ToldActive(x).ev = "TabActivated" /\ ToldActive(x).id = x
  BY DEF ToldActive
<1>4. DOMAIN a = {1, 2, 3}
  BY <1>1
<1> QED
  BY <1>1, <1>2, <1>3, <1>4 DEF Has, a

LEMMA HandleIs ==
  ASSUME TypeInv, NEW k \in Clients, Handle(k)
  PROVE  \E t \in Nat : Creates(k, t) \/ Closes(k, t) \/ Switches(k, t)
<1> DEFINE m == Head(up[k])
<1>1. /\ On(k) /\ up[k] # <<>> /\ up' = [up EXCEPT ![k] = Tail(@)]
      /\ UNCHANGED <<core, joined, page, news, hasty, askers>>
  BY DEF Handle
<1>2. m \in Requests
  BY <1>1, TailIs DEF TypeInv
<1>3. ASSUME NEW told \in Replies, Confirm(k, told) PROVE Answers(k, m, told)
  <2>1. up' = [j \in Clients |-> up'[j]] /\ up'[k] = Tail(up[k]) /\ \A j \in Clients \ {k} : up'[j] = up[j]
    BY <1>1 DEF TypeInv
  <2>2. /\ replies' = [j \in Clients |-> replies'[j]] /\ replies'[k] = Append(replies[k], told)
        /\ \A j \in Clients \ {k} : replies'[j] = replies[j]
    BY <1>3 DEF TypeInv, Confirm
  <2> QED
    BY <1>1, <2>1, <2>2 DEF Answers
<1>4. ASSUME NEW t \in Nat, m = Created(t, Home) PROVE Creates(k, t)
  <2> DEFINE tab == [title |-> "New Tab", url |-> Home]
  <2>1. m.ev = "CreateTab" /\ m.tab_id = t /\ m.url = Home
    BY <1>4 DEF Created
  <2>2. create_tab(t, Home) /\ Confirm(k, [ev |-> "TabCreated", id |-> t, title |-> "New Tab", url |-> Home])
    BY <2>1 DEF Handle
  <2>3. ToldCreated(t) \in Replies
    BY DEF Replies
  <2>4. Answers(k, m, ToldCreated(t))
    BY <1>3, <2>2, <2>3 DEF ToldCreated
  <2>5. table' = Put(table, t, tab) /\ opened' = opened \cup {t} /\ switch_tab(t)
    BY <2>2 DEF create_tab
  <2>6. LabelsTyped(tab)
    BY DEF LabelsTyped, Texts, Labels, Titles, Urls
  <2> HIDE DEF tab, m
  <2>7. /\ DOMAIN table' = DOMAIN table \cup {t} /\ \A x \in DOMAIN table \ {t} : table'[x] = table[x]
        /\ table'[t] = tab
    BY <2>5 DEF Put
  <2>8. /\ active' = t /\ elsewhere' = {} /\ amiss' = Mended(t, Labels)
        /\ bus' = [j \in Clients |-> IF On(j) THEN bus[j] \o Announcement(t, table'[t]) ELSE bus[j]]
    BY <2>5, <2>7 DEF switch_tab, Publish
  <2> QED
    BY <1>4, <2>4, <2>5, <2>6, <2>7, <2>8, AnnouncementIs DEF Creates, Publishes
<1>5. ASSUME NEW t \in Nat, m = Closed(t) PROVE Closes(k, t)
  <2>1. m.ev = "CloseTab" /\ m.tab_id = t
    BY <1>5 DEF Closed
  <2>2. close_tab(t) /\ Confirm(k, [ev |-> "TabClosed", id |-> t])
    BY <2>1 DEF Handle
  <2>3. ToldClosed(t) \in Replies
    BY DEF Replies
  <2>4. Answers(k, m, ToldClosed(t))
    BY <1>3, <2>2, <2>3 DEF ToldClosed
  <2>5. DOMAIN table' = DOMAIN table \ {t} /\ \A x \in DOMAIN table' : table'[x] = table[x]
    BY <2>2 DEF close_tab, Restrict
  <2> QED
    BY <1>5, <2>2, <2>4, <2>5 DEF Closes, close_tab
<1>6. ASSUME NEW t \in Nat, m = Switched(t) PROVE Switches(k, t)
  <2>1. m.ev = "SwitchTab" /\ m.tab_id = t
    BY <1>6 DEF Switched
  <2>2. UNCHANGED <<table, opened>> /\ switch_tab(t) /\ Confirm(k, [ev |-> "TabActivated", id |-> t])
    BY <2>1 DEF Handle
  <2>3. ToldActive(t) \in Replies
    BY DEF Replies
  <2>4. Answers(k, m, ToldActive(t))
    BY <1>3, <2>2, <2>3 DEF ToldActive
  <2> DEFINE a == IF t \in DOMAIN table THEN Announcement(t, table[t]) ELSE <<>>
  <2>5. /\ active' = t /\ bus' = [j \in Clients |-> IF On(j) THEN bus[j] \o a ELSE bus[j]]
        /\ elsewhere' = (IF t \in DOMAIN table THEN {} ELSE elsewhere)
        /\ amiss' = (IF t \in DOMAIN table THEN Mended(t, Labels) ELSE amiss)
    <3>1. CASE t \in DOMAIN table
      BY <2>2, <3>1 DEF switch_tab, Publish
    <3>2. CASE t \notin DOMAIN table
      <4>1. \A j \in Clients : bus[j] \o <<>> = bus[j]
        BY DEF TypeInv
      <4>2. active' = t /\ UNCHANGED <<bus, elsewhere, amiss>>
        BY <2>2, <3>2 DEF switch_tab
      <4>3. bus = [j \in Clients |-> IF On(j) THEN bus[j] \o a ELSE bus[j]]
        BY <3>2, <4>1 DEF TypeInv
      <4> QED
        BY <3>2, <4>2, <4>3
    <3> QED
      BY <3>1, <3>2
  <2>6. a \in Seq(Broadcasts)
    <3>1. \A x \in DOMAIN table : LabelsTyped(table[x])
      BY DEF TypeInv
    <3>2. CASE t \in DOMAIN table
      BY <3>1, <3>2, AnnouncementIs
    <3>3. CASE t \notin DOMAIN table
      BY <3>3
    <3> QED
      BY <3>2, <3>3
  <2> QED
    BY <1>6, <2>2, <2>4, <2>5, <2>6 DEF Switches, Publishes
<1> QED
  BY <1>2, <1>4, <1>5, <1>6 DEF Requests

\* The client sees the event e, from the host's broadcast or as a reply.
Hears(k, e) ==
    /\ bus[k] # <<>> /\ e = Head(bus[k]) /\ Relabels(core[k], core'[k], e)
    /\ bus' = [j \in Clients |-> bus'[j]] /\ bus'[k] = Tail(bus[k])
    /\ core' = [j \in Clients |-> core'[j]]
    /\ \A j \in Clients \ {k} : bus'[j] = bus[j] /\ core'[j] = core[j]
    /\ UNCHANGED <<joined, table, active, opened, up, replies, page, news, hasty, askers, elsewhere, amiss>>

IsTold(k, e) ==
    /\ replies[k] # <<>> /\ e = Head(replies[k])
    /\ replies' = [j \in Clients |-> replies'[j]] /\ replies'[k] = Tail(replies[k])
    /\ core' = [j \in Clients |-> core'[j]]
    /\ \A j \in Clients \ {k} : replies'[j] = replies[j] /\ core'[j] = core[j]
    /\ amiss' = amiss \cup Undone(k, e)
    /\ UNCHANGED <<joined, table, active, opened, up, bus, page, news, hasty, askers, elsewhere>>

LEMMA BroadcastIs ==
  ASSUME TypeInv, NEW k \in Clients, Broadcast(k)
  PROVE  \E e \in Broadcasts : Hears(k, e)
<1> DEFINE e == Head(bus[k])
           d == handle_render_event(core[k], e)
<1>1. /\ bus[k] # <<>> /\ bus' = [bus EXCEPT ![k] = Tail(@)] /\ core' = [core EXCEPT ![k] = d]
      /\ UNCHANGED <<joined, table, active, opened, up, replies, page, news, hasty, askers, elsewhere, amiss>>
  BY DEF Broadcast, Sees, hostVars, ghosts
<1>2. e \in Broadcasts
  BY <1>1, TailIs DEF TypeInv
<1>3. Relabels(core[k], d, e)
  BY <1>2, HeardIs DEF TypeInv
<1> HIDE DEF d
<1>4. core' = [j \in Clients |-> core'[j]] /\ core'[k] = d /\ \A j \in Clients \ {k} : core'[j] = core[j]
  BY <1>1 DEF TypeInv
<1>5. bus' = [j \in Clients |-> bus'[j]] /\ bus'[k] = Tail(bus[k]) /\ \A j \in Clients \ {k} : bus'[j] = bus[j]
  BY <1>1 DEF TypeInv
<1> QED
  BY <1>1, <1>2, <1>3, <1>4, <1>5 DEF Hears

LEMMA ReplyIs ==
  ASSUME TypeInv, NEW k \in Clients, Reply(k)
  PROVE  \E t \in Nat :
            \/ IsTold(k, ToldCreated(t)) /\ AddsTab(core[k], core'[k], t)
            \/ IsTold(k, ToldClosed(t)) /\ DropsTab(core[k], core'[k], t)
            \/ IsTold(k, ToldActive(t)) /\ Relabels(core[k], core'[k], ToldActive(t))
<1> DEFINE e == Head(replies[k])
           c == core[k]
           d == handle_render_event(c, e)
<1>1. /\ replies[k] # <<>> /\ replies' = [replies EXCEPT ![k] = Tail(@)] /\ core' = [core EXCEPT ![k] = d]
      /\ amiss' = amiss \cup Undone(k, e)
      /\ UNCHANGED <<joined, table, active, opened, up, bus, page, news, hasty, askers, elsewhere>>
  BY DEF Reply, Sees, hostVars
<1>2. e \in Replies /\ CoreOK(c)
  BY <1>1, TailIs DEF TypeInv
<1>3. core' = [j \in Clients |-> core'[j]] /\ core'[k] = d /\ \A j \in Clients \ {k} : core'[j] = core[j]
  <2> HIDE DEF d
  <2> QED
    BY <1>1 DEF TypeInv
<1>4. IsTold(k, e)
  <2>1. /\ replies' = [j \in Clients |-> replies'[j]] /\ replies'[k] = Tail(replies[k])
        /\ \A j \in Clients \ {k} : replies'[j] = replies[j]
    BY <1>1 DEF TypeInv
  <2> QED
    BY <1>1, <1>3, <2>1 DEF IsTold
<1> HIDE DEF c
<1>5. ASSUME NEW t \in Nat, e = ToldCreated(t) PROVE AddsTab(c, d, t)
  <2>1. e.ev = "TabCreated" /\ e.id = t /\ e.title = "New Tab" /\ e.url = Home
    <3> HIDE DEF e
    <3> QED
      BY <1>5 DEF ToldCreated
  <2>2. d = TabCreated(c, t, "New Tab", Home)
    BY <2>1 DEF handle_render_event
  <2> QED
    BY <1>2, <2>2, TabCreatedIs
<1>6. ASSUME NEW t \in Nat, e = ToldClosed(t) PROVE DropsTab(c, d, t)
  <2>1. e.ev = "TabClosed" /\ e.id = t
    BY <1>6 DEF ToldClosed
  <2>2. d = TabClosed(c, t)
    BY <2>1 DEF handle_render_event
  <2> QED
    BY <1>2, <2>2, TabClosedIs
<1>7. ASSUME NEW t \in Nat, e = ToldActive(t) PROVE Relabels(c, d, e)
  <2>1. e \in Broadcasts
    BY <1>7 DEF Broadcasts
  <2> QED
    BY <1>2, <2>1, HeardIs
<1> HIDE DEF d, e
<1> QED
  BY <1>2, <1>3, <1>4, <1>5, <1>6, <1>7 DEF Replies, c

\* The loop stores news of label f of tab t, tells of it, and tells it again
\* of the active tab.
Stores(t, f, val) ==
    /\ page.at = "idle" /\ t \in opened /\ f \in Labels /\ val \in Texts[f]
    /\ news' \in Nat /\ page' = PageOf("stored", t, f, val)
    /\ DOMAIN table' = DOMAIN table
    /\ \A x \in DOMAIN table : LabelsTyped(table'[x])
    /\ \A x \in DOMAIN table, g \in Labels :
           table'[x][g] = IF x = t /\ g = f THEN val ELSE table[x][g]
    /\ UNCHANGED <<core, joined, active, opened, up, bus, replies, hasty, askers, elsewhere, amiss>>

Tells(e) ==
    /\ e \in Broadcasts /\ e[page.f] = page.val /\ Publishes(<<e>>)
    /\ UNCHANGED <<core, joined, table, active, opened, up, replies, news, hasty, askers, elsewhere>>

TellsTab(e) ==
    /\ Tells(e) /\ e.ev = OfTab[page.f] /\ e.id = page.tab
    /\ page.at = "stored" /\ page' = PageOf("told", page.tab, page.f, page.val)
    /\ amiss' = Mended(page.tab, {page.f})

TellsActive(e) ==
    /\ Tells(e) /\ e.ev \in OfActive[page.f]
    /\ page.at = "active" /\ page' = NoNews
    /\ amiss' = amiss \cup (IF active = page.tab THEN {}
                            ELSE {k \in Clients : On(k)} \X {active} \X {page.f})

LEMMA StoreNewsIs ==
  ASSUME TypeInv, NEW t \in opened, StoreNews(t)
  PROVE  \E f \in Labels : \E val : Stores(t, f, val)
<1> DEFINE name == Names[news + 1]
           Val(f) == IF f = "title" THEN name ELSE <<"https://", name>>
<1>1. news + 1 \in Nat
  BY DEF TypeInv
<1>2. \A f \in Labels : Val(f) \in Texts[f]
  <2>1. name \in Titles /\ <<"https://", name>> \in Urls
    BY <1>1 DEF Titles, Urls
  <2> HIDE DEF name
  <2> QED
    BY <2>1 DEF Texts, Labels
<1>3. PICK f \in Labels :
          /\ page' = [at |-> "stored", tab |-> t, f |-> f, val |-> Val(f)]
          /\ table' = IF t \in DOMAIN table THEN [table EXCEPT ![t][f] = Val(f)] ELSE table
  BY DEF StoreNews
<1> DEFINE val == Val(f)
<1>4. val \in Texts[f]
  BY <1>2
<1>5. page' = PageOf("stored", t, f, val)
  BY <1>3 DEF PageOf
<1>6. table' = IF t \in DOMAIN table THEN [table EXCEPT ![t] = [table[t] EXCEPT ![f] = val]] ELSE table
  BY <1>3
<1> HIDE DEF val
<1>7. DOMAIN table' = DOMAIN table
  BY <1>6
<1>8. ASSUME NEW x \in DOMAIN table
      PROVE  /\ LabelsTyped(table'[x])
             /\ \A g \in Labels : table'[x][g] = IF x = t /\ g = f THEN val ELSE table[x][g]
  <2>1. DOMAIN table[x] = Labels /\ \A g \in Labels : table[x][g] \in Texts[g]
    BY DEF TypeInv, LabelsTyped
  <2>2. CASE x = t
    <3>1. table'[x] = [table[x] EXCEPT ![f] = val]
      BY <1>6, <2>2
    <3> QED
      BY <1>4, <2>1, <2>2, <3>1 DEF LabelsTyped
  <2>3. CASE x # t
    <3>1. table'[x] = table[x]
      BY <1>6, <2>3
    <3> QED
      BY <2>1, <2>3, <3>1 DEF LabelsTyped
  <2> QED
    BY <2>2, <2>3
<1>9. /\ page.at = "idle" /\ news' \in Nat
      /\ UNCHANGED <<core, joined, active, opened, up, bus, replies, hasty, askers, elsewhere, amiss>>
  BY <1>1 DEF StoreNews, ghosts
<1> QED
  BY <1>4, <1>5, <1>7, <1>8, <1>9 DEF Stores

LEMMA TellTabIs ==
  ASSUME TypeInv, TellTab
  PROVE  \E e : TellsTab(e)
<1>1. PICK at \in {"idle", "stored", "told", "active"}, t \in opened, f \in Labels :
          \E val \in Texts[f] : page = PageOf(at, t, f, val)
  BY DEF TypeInv, PageType
<1>2. PICK val \in Texts[f] : page = PageOf(at, t, f, val)
  BY <1>1
<1>3. page.tab = t /\ page.f = f /\ page.val = val /\ t \in Nat
  BY <1>2 DEF PageOf, TypeInv
<1>4. page.at = "stored" /\ page' = PageOf("told", t, f, val) /\ amiss' = Mended(t, {f})
      /\ UNCHANGED <<core, joined, table, active, opened, up, replies, news, hasty, askers, elsewhere>>
  BY <1>2, <1>3 DEF TellTab, PageOf, hostVars
<1>5. CASE f = "title"
  <2> DEFINE e == [ev |-> "TabTitle", id |-> t, title |-> val]
  <2>1. e \in Broadcasts
    BY <1>2, <1>3, <1>5 DEF Broadcasts, Texts
  <2>2. e.ev = OfTab[f] /\ e.id = t /\ e[f] = val
    BY <1>5 DEF OfTab, Labels
  <2>3. Publish(<<e>>)
    BY <1>3, <1>5 DEF TellTab
  <2> HIDE DEF e
  <2>4. Publishes(<<e>>)
    BY <2>1, <2>3 DEF Publishes, Publish
  <2> QED
    BY <1>3, <1>4, <2>1, <2>2, <2>4 DEF TellsTab, Tells
<1>6. CASE f # "title"
  <2> DEFINE e == [ev |-> "TabUrl", id |-> t, url |-> val]
  <2>1. e \in Broadcasts
    BY <1>2, <1>3, <1>6 DEF Broadcasts, Texts
  <2>2. e.ev = OfTab[f] /\ e.id = t /\ e[f] = val
    BY <1>6 DEF OfTab, Labels
  <2>3. Publish(<<e>>)
    BY <1>3, <1>6 DEF TellTab
  <2> HIDE DEF e
  <2>4. Publishes(<<e>>)
    BY <2>1, <2>3 DEF Publishes, Publish
  <2> QED
    BY <1>3, <1>4, <2>1, <2>2, <2>4 DEF TellsTab, Tells
<1> QED
  BY <1>5, <1>6

LEMMA TellActiveIs ==
  ASSUME TypeInv, TellActive
  PROVE  \E e : TellsActive(e)
<1>1. PICK at \in {"idle", "stored", "told", "active"}, t \in opened, f \in Labels :
          \E val \in Texts[f] : page = PageOf(at, t, f, val)
  BY DEF TypeInv, PageType
<1>2. PICK val \in Texts[f] : page = PageOf(at, t, f, val)
  BY <1>1
<1>3. page.tab = t /\ page.f = f /\ page.val = val
  BY <1>2 DEF PageOf
<1>4. /\ page.at = "active" /\ page' = NoNews
      /\ amiss' = amiss \cup (IF active = page.tab THEN {}
                              ELSE {k \in Clients : On(k)} \X {active} \X {page.f})
      /\ UNCHANGED <<core, joined, table, active, opened, up, replies, news, hasty, askers, elsewhere>>
  BY DEF TellActive, hostVars
<1>5. CASE f = "title"
  <2> DEFINE e == [ev |-> "Title", title |-> val]
  <2>1. e \in Broadcasts
    BY <1>2, <1>5 DEF Broadcasts, Texts
  <2>2. e.ev \in OfActive[f] /\ e[f] = val
    BY <1>5 DEF OfActive, Labels
  <2>3. Publish(<<e>>)
    BY <1>3, <1>5 DEF TellActive
  <2> HIDE DEF e
  <2>4. Publishes(<<e>>)
    BY <2>1, <2>3 DEF Publishes, Publish
  <2> QED
    BY <1>3, <1>4, <2>1, <2>2, <2>4 DEF TellsActive, Tells
<1>6. CASE f # "title"
  <2> DEFINE e == [ev |-> "UrlChanged", url |-> val]
  <2>1. e \in Broadcasts
    BY <1>2, <1>6 DEF Broadcasts, Texts
  <2>2. e.ev \in OfActive[f] /\ e[f] = val
    BY <1>6 DEF OfActive, Labels
  <2>3. Publish(<<e>>)
    BY <1>3, <1>6 DEF TellActive
  <2> HIDE DEF e
  <2>4. Publishes(<<e>>)
    BY <2>1, <2>3 DEF Publishes, Publish
  <2> QED
    BY <1>3, <1>4, <2>1, <2>2, <2>4 DEF TellsActive, Tells
<1> QED
  BY <1>5, <1>6

\* The handshake of k: before the client gets what is published, and when it does.
Greeted(k) ==
    /\ ~On(k) /\ joined' = [j \in Clients |-> joined'[j]] /\ \A j \in Clients : On(j)' <=> On(j)
    /\ bus' = [j \in Clients |-> bus'[j]] /\ \A j \in Clients \ {k} : bus'[j] = bus[j]
    /\ bus'[k] = bus[k] \/ bus'[k] = <<>> \/ \E url \in Urls : bus'[k] = <<Greeting(url)>>
    /\ UNCHANGED <<core, table, active, opened, up, replies, page, news, hasty, askers, elsewhere, amiss>>

Subscribes(k) ==
    /\ ~On(k) /\ joined' = [j \in Clients |-> joined'[j]] /\ \A j \in Clients : On(j)' <=> On(j) \/ j = k
    /\ elsewhere' = elsewhere \cup (IF core[k].active_tab_id = active THEN {} ELSE {k})
    /\ amiss' = amiss \cup Wrong(k)
    /\ UNCHANGED <<core, table, active, opened, up, bus, replies, page, news, hasty, askers>>

LEMMA HelloIs == ASSUME TypeInv, NEW k \in Clients, Hello(k) PROVE Greeted(k)
<1>1. /\ joined[k] = Away /\ joined' = [joined EXCEPT ![k] = [at |-> "reads", tab |-> active]]
      /\ UNCHANGED <<core, table, active, opened, up, bus, replies, page, news, hasty, askers, elsewhere, amiss>>
  BY DEF Hello, hostVars, ghosts
<1>2. joined'[k].at = "reads" /\ \A j \in Clients \ {k} : joined'[j] = joined[j]
  BY <1>1 DEF TypeInv
<1>3. joined' = [j \in Clients |-> joined'[j]]
  BY <1>1 DEF TypeInv
<1>4. joined[k].at = "away"
  BY <1>1 DEF Away
<1>5. ~On(k) /\ \A j \in Clients : On(j)' <=> On(j)
  BY <1>2, <1>4 DEF On
<1> QED
  BY <1>1, <1>3, <1>5 DEF Greeted, TypeInv

LEMMA WelcomeIs == ASSUME TypeInv, NEW k \in Clients, Welcome(k) PROVE Greeted(k)
<1> DEFINE t == joined[k].tab
           q == IF t \in DOMAIN table THEN <<[ev |-> "InitialUrl", url |-> table[t].url]>> ELSE <<>>
<1>1. /\ joined[k].at = "reads" /\ joined' = [joined EXCEPT ![k] = [at |-> "welcome", tab |-> 1]]
      /\ bus' = [bus EXCEPT ![k] = q]
      /\ UNCHANGED <<core, table, active, opened, up, replies, page, news, hasty, askers, elsewhere, amiss>>
  BY DEF Welcome, hostVars, ghosts
<1>2. q = <<>> \/ \E url \in Urls : q = <<Greeting(url)>>
  <2>1. t \in DOMAIN table => table[t].url \in Urls
    BY DEF TypeInv, LabelsTyped, Texts, Labels
  <2> QED
    BY <2>1 DEF Greeting
<1> HIDE DEF q, t
<1>3. joined'[k].at = "welcome" /\ \A j \in Clients \ {k} : joined'[j] = joined[j]
  BY <1>1 DEF TypeInv
<1>4. joined' = [j \in Clients |-> joined'[j]]
  BY <1>1 DEF TypeInv
<1>5. ~On(k) /\ \A j \in Clients : On(j)' <=> On(j)
  BY <1>1, <1>3 DEF On
<1>6. bus' = [j \in Clients |-> bus'[j]] /\ bus'[k] = q /\ \A j \in Clients \ {k} : bus'[j] = bus[j]
  BY <1>1 DEF TypeInv
<1> QED
  BY <1>1, <1>2, <1>4, <1>5, <1>6 DEF Greeted

LEMMA SubscribeIs == ASSUME TypeInv, NEW k \in Clients, Subscribe(k) PROVE Subscribes(k)
<1>1. /\ joined[k].at = "welcome" /\ joined' = [joined EXCEPT ![k] = [at |-> "on", tab |-> 1]]
      /\ elsewhere' = elsewhere \cup (IF core[k].active_tab_id = active THEN {} ELSE {k})
      /\ amiss' = amiss \cup Wrong(k)
      /\ UNCHANGED <<core, table, active, opened, up, bus, replies, page, news, hasty, askers>>
  BY DEF Subscribe, hostVars
<1>2. joined'[k].at = "on" /\ \A j \in Clients \ {k} : joined'[j] = joined[j]
  BY <1>1 DEF TypeInv
<1>3. joined' = [j \in Clients |-> joined'[j]]
  BY <1>1 DEF TypeInv
<1>4. ~On(k) /\ \A j \in Clients : On(j)' <=> On(j) \/ j = k
  BY <1>1, <1>2 DEF On
<1> QED
  BY <1>1, <1>3, <1>4 DEF Subscribes

----------------------------------------------------------------------------
(* The types, and who has asked *)

LEMMA UserType ==
  ASSUME TypeInv, AskersOK, JoinOK, NEW k \in Clients, NEW out, UserDoes(k, out)
  PROVE  TypeInv' /\ AskersOK' /\ JoinOK'
<1>1. \A j \in Clients : CoreOK(core'[j]) /\ core'[j].out = <<>> /\ core'[j].active_tab_id \in Nat
  BY DEF TypeInv, UserDoes, Asks
<1>2. up' \in [Clients -> Seq(Requests)]
  <2>1. up'[k] \in Seq(Requests)
    BY ConcatIs DEF TypeInv, UserDoes
  <2>2. \A j \in Clients : up'[j] \in Seq(Requests)
    BY <2>1 DEF TypeInv, UserDoes
  <2> QED
    BY <2>2 DEF UserDoes
<1>3. TypeInv'
  BY <1>1, <1>2 DEF TypeInv, UserDoes, PageType
<1>4. AskersOK' /\ JoinOK'
  BY DEF AskersOK, JoinOK, On, UserDoes
<1> QED
  BY <1>3, <1>4

LEMMA AnswersType ==
  ASSUME TypeInv, AskersOK, NEW k \in Clients, NEW m, NEW told, Answers(k, m, told)
  PROVE  /\ k \in askers /\ core' = core /\ joined' = joined /\ hasty' \in BOOLEAN
         /\ news' \in Nat /\ page' = page
         /\ up' \in [Clients -> Seq(Requests)] /\ replies' \in [Clients -> Seq(Replies)] /\ AskersOK'
<1>1. k \in askers
  BY DEF Answers, AskersOK
<1>2. up'[k] \in Seq(Requests) /\ replies'[k] \in Seq(Replies)
  BY TailIs, HasAppend DEF TypeInv, Answers
<1>3. \A j \in Clients : up'[j] \in Seq(Requests) /\ replies'[j] \in Seq(Replies)
  BY <1>2 DEF TypeInv, Answers
<1>4. up' \in [Clients -> Seq(Requests)] /\ replies' \in [Clients -> Seq(Replies)]
  BY <1>3 DEF Answers
<1>5. AskersOK'
  BY <1>1 DEF AskersOK, Answers
<1> QED
  BY <1>1, <1>4, <1>5 DEF Answers, TypeInv

LEMMA PublishType ==
  ASSUME TypeInv, NEW items, Publishes(items)
  PROVE  /\ bus' \in [Clients -> Seq(Broadcasts)]
         /\ \A j \in Clients : bus'[j] = IF On(j) THEN bus[j] \o items ELSE bus[j]
<1>1. \A j \in Clients : bus[j] \in Seq(Broadcasts) /\ bus[j] \o items \in Seq(Broadcasts)
  BY ConcatIs DEF TypeInv, Publishes
<1> QED
  BY <1>1 DEF Publishes

LEMMA PublishHas ==
  ASSUME TypeInv, NEW items, Publishes(items)
  PROVE  \A j \in Clients : \A e : Has(bus'[j], e) <=> Has(bus[j], e) \/ (On(j) /\ Has(items, e))
<1> SUFFICES ASSUME NEW j \in Clients, NEW e
             PROVE  Has(bus'[j], e) <=> Has(bus[j], e) \/ (On(j) /\ Has(items, e))
  OBVIOUS
<1>1. bus[j] \in Seq(Broadcasts) /\ items \in Seq(Broadcasts)
  BY DEF TypeInv, Publishes
<1>2. bus'[j] = IF On(j) THEN bus[j] \o items ELSE bus[j]
  BY PublishType
<1> QED
  BY <1>1, <1>2, HasConcat

LEMMA PublishJoin ==
  ASSUME TypeInv, JoinOK, NEW items, Publishes(items), joined' = joined
  PROVE  JoinOK'
BY PublishType DEF JoinOK, On

LEMMA HandleType ==
  ASSUME TypeInv, AskersOK, JoinOK, NEW k \in Clients, NEW t \in Nat,
         Creates(k, t) \/ Closes(k, t) \/ Switches(k, t)
  PROVE  TypeInv' /\ AskersOK' /\ JoinOK'
<1>1. CASE Creates(k, t)
  <2>1. /\ DOMAIN table' \subseteq opened' /\ 1 \in opened' /\ opened' \subseteq Nat /\ active' \in Nat
        /\ \A x \in DOMAIN table' : LabelsTyped(table'[x])
    BY <1>1 DEF Creates, TypeInv
  <2>2. bus' \in [Clients -> Seq(Broadcasts)] /\ JoinOK'
    BY <1>1, AnswersType, PublishType, PublishJoin DEF Creates
  <2>3. PageType'
    BY <1>1, AnswersType DEF Creates, TypeInv, PageType
  <2> QED
    BY <1>1, <2>1, <2>2, <2>3, AnswersType DEF Creates, TypeInv
<1>2. CASE Closes(k, t)
  <2>1. /\ DOMAIN table' \subseteq opened' /\ 1 \in opened' /\ opened' \subseteq Nat /\ active' \in Nat
        /\ \A x \in DOMAIN table' : LabelsTyped(table'[x])
    BY <1>2 DEF Closes, TypeInv
  <2>2. bus' \in [Clients -> Seq(Broadcasts)] /\ JoinOK'
    BY <1>2, AnswersType DEF Closes, TypeInv, JoinOK, On
  <2>3. PageType'
    BY <1>2, AnswersType DEF Closes, TypeInv, PageType
  <2> QED
    BY <1>2, <2>1, <2>2, <2>3, AnswersType DEF Closes, TypeInv
<1>3. CASE Switches(k, t)
  <2>1. /\ DOMAIN table' \subseteq opened' /\ 1 \in opened' /\ opened' \subseteq Nat /\ active' \in Nat
        /\ \A x \in DOMAIN table' : LabelsTyped(table'[x])
    BY <1>3 DEF Switches, TypeInv
  <2>2. bus' \in [Clients -> Seq(Broadcasts)] /\ JoinOK'
    BY <1>3, AnswersType, PublishType, PublishJoin DEF Switches
  <2>3. PageType'
    BY <1>3, AnswersType DEF Switches, TypeInv, PageType
  <2> QED
    BY <1>3, <2>1, <2>2, <2>3, AnswersType DEF Switches, TypeInv
<1> QED
  BY <1>1, <1>2, <1>3

LEMMA StoresType ==
  ASSUME TypeInv, AskersOK, JoinOK, NEW t, NEW f, NEW val, Stores(t, f, val)
  PROVE  TypeInv' /\ AskersOK' /\ JoinOK'
<1>1. PageType'
  BY DEF Stores, PageType
<1>2. AskersOK' /\ JoinOK'
  BY DEF Stores, AskersOK, JoinOK, On
<1> QED
  BY <1>1, <1>2 DEF Stores, TypeInv

LEMMA TellsType ==
  ASSUME TypeInv, AskersOK, JoinOK, NEW e, TellsTab(e) \/ TellsActive(e)
  PROVE  TypeInv' /\ AskersOK' /\ JoinOK'
<1>1. Tells(e)
  BY DEF TellsTab, TellsActive
<1>2. PageType'
  <2>1. CASE TellsTab(e)
    <3>1. PICK at \in {"idle", "stored", "told", "active"}, t \in opened, f \in Labels :
              \E val \in Texts[f] : page = PageOf(at, t, f, val)
      BY DEF TypeInv, PageType
    <3>2. PICK val \in Texts[f] : page = PageOf(at, t, f, val)
      BY <3>1
    <3>3. page' = PageOf("told", t, f, val)
      BY <2>1, <3>2 DEF TellsTab, PageOf
    <3> QED
      BY <1>1, <3>2, <3>3 DEF PageType, Tells
  <2>2. CASE TellsActive(e)
    <3>1. page' = PageOf("idle", 1, "url", Home) /\ Home \in Texts["url"] /\ "url" \in Labels
      BY <2>2 DEF TellsActive, NoNews, PageOf, Texts, Labels, Urls
    <3>2. 1 \in opened'
      BY <1>1 DEF Tells, TypeInv
    <3> QED
      BY <3>1, <3>2 DEF PageType
  <2> QED
    BY <2>1, <2>2
<1>3. bus' \in [Clients -> Seq(Broadcasts)] /\ JoinOK'
  BY <1>1, PublishType, PublishJoin DEF Tells
<1>4. AskersOK'
  BY <1>1 DEF Tells, AskersOK
<1> QED
  BY <1>1, <1>2, <1>3, <1>4 DEF Tells, TypeInv

LEMMA CheckActiveType ==
  ASSUME TypeInv, AskersOK, JoinOK, CheckActive
  PROVE  TypeInv' /\ AskersOK' /\ JoinOK'
<1>1. UNCHANGED <<core, joined, table, active, opened, up, bus, replies, news, hasty, askers>>
  BY DEF CheckActive, hostVars, ghosts
<1>2. PageType'
  <2>1. PICK at \in {"idle", "stored", "told", "active"}, t \in opened, f \in Labels :
            \E val \in Texts[f] : page = PageOf(at, t, f, val)
    BY DEF TypeInv, PageType
  <2>2. PICK val \in Texts[f] : page = PageOf(at, t, f, val)
    BY <2>1
  <2>3. \/ page' = PageOf("active", t, f, val)
        \/ page' = PageOf("idle", 1, "url", Home)
    BY <2>2 DEF CheckActive, NoNews, PageOf
  <2>4. 1 \in opened /\ "url" \in Labels /\ Home \in Texts["url"]
    BY DEF TypeInv, Labels, Texts, Urls
  <2> QED
    BY <1>1, <2>2, <2>3, <2>4 DEF PageType
<1>3. AskersOK' /\ JoinOK'
  BY <1>1 DEF AskersOK, JoinOK, On
<1> QED
  BY <1>1, <1>2, <1>3 DEF TypeInv

LEMMA JoinType ==
  ASSUME TypeInv, AskersOK, JoinOK, NEW k \in Clients, Greeted(k) \/ Subscribes(k)
  PROVE  TypeInv' /\ AskersOK' /\ JoinOK'
<1>1. CASE Greeted(k)
  <2>1. \A j \in Clients : bus'[j] \in Seq(Broadcasts)
    <3>1. \A url \in Urls : Greeting(url) \in Broadcasts
      BY DEF Broadcasts
    <3>2. bus'[k] \in Seq(Broadcasts)
      <4>1. bus[k] \in Seq(Broadcasts) /\ <<>> \in Seq(Broadcasts)
        BY DEF TypeInv
      <4>2. \A url \in Urls : <<Greeting(url)>> \in Seq(Broadcasts)
        BY <3>1
      <4> QED
        BY <1>1, <4>1, <4>2 DEF Greeted
    <3> QED
      BY <1>1, <3>2 DEF Greeted, TypeInv
  <2>2. bus' \in [Clients -> Seq(Broadcasts)]
    BY <1>1, <2>1 DEF Greeted
  <2>3. JoinOK'
    BY <1>1 DEF Greeted, JoinOK
  <2>4. AskersOK' /\ PageType'
    BY <1>1 DEF Greeted, AskersOK, TypeInv, PageType
  <2> QED
    BY <1>1, <2>2, <2>3, <2>4 DEF Greeted, TypeInv
<1>2. CASE Subscribes(k)
  <2>1. JoinOK'
    BY <1>2 DEF Subscribes, JoinOK
  <2>2. AskersOK' /\ PageType'
    BY <1>2 DEF Subscribes, AskersOK, TypeInv, PageType
  <2> QED
    BY <1>2, <2>1, <2>2 DEF Subscribes, TypeInv
<1> QED
  BY <1>1, <1>2

LEMMA BroadcastType ==
  ASSUME TypeInv, AskersOK, JoinOK, NEW k \in Clients, NEW e \in Broadcasts, Hears(k, e)
  PROVE  TypeInv' /\ AskersOK' /\ JoinOK'
<1>1. e.ev = "TabActivated" => e.id \in Nat
  BY DEF Broadcasts, ToldActive, Greeting
<1>2. \A j \in Clients : CoreOK(core'[j]) /\ core'[j].out = <<>> /\ core'[j].active_tab_id \in Nat
  BY <1>1 DEF TypeInv, Hears, Relabels
<1>3. bus'[k] \in Seq(Broadcasts)
  BY TailIs DEF TypeInv, Hears
<1>4. \A j \in Clients : bus'[j] \in Seq(Broadcasts)
  BY <1>3 DEF TypeInv, Hears
<1>5. bus' \in [Clients -> Seq(Broadcasts)]
  BY <1>4 DEF Hears
<1>6. AskersOK' /\ PageType'
  BY DEF Hears, AskersOK, TypeInv, PageType
<1>7. JoinOK'
  <2>1. On(k) \/ bus'[k] = <<>>
    BY SingleTail DEF JoinOK, Hears
  <2> QED
    BY <2>1 DEF JoinOK, On, Hears
<1> QED
  BY <1>2, <1>5, <1>6, <1>7 DEF Hears, TypeInv

LEMMA ReplyType ==
  ASSUME TypeInv, AskersOK, JoinOK, NEW k \in Clients, Reply(k)
  PROVE  TypeInv' /\ AskersOK' /\ JoinOK'
<1>1. PICK t \in Nat :
          \/ IsTold(k, ToldCreated(t)) /\ AddsTab(core[k], core'[k], t)
          \/ IsTold(k, ToldClosed(t)) /\ DropsTab(core[k], core'[k], t)
          \/ IsTold(k, ToldActive(t)) /\ Relabels(core[k], core'[k], ToldActive(t))
  BY ReplyIs
<1>2. PICK e : IsTold(k, e)
  BY <1>1
<1>3. CoreOK(core'[k]) /\ core'[k].out = <<>> /\ core'[k].active_tab_id \in Nat
  <2>1. CoreOK(core[k]) /\ core[k].out = <<>> /\ core[k].active_tab_id \in Nat
    BY DEF TypeInv
  <2>2. CASE AddsTab(core[k], core'[k], t)
    BY <2>1, <2>2 DEF AddsTab
  <2>3. CASE DropsTab(core[k], core'[k], t)
    BY <2>1, <2>3, IdsAreNats DEF DropsTab
  <2>4. CASE Relabels(core[k], core'[k], ToldActive(t))
    BY <2>1, <2>4 DEF Relabels, ToldActive
  <2> QED
    BY <1>1, <2>2, <2>3, <2>4
<1>4. \A j \in Clients : CoreOK(core'[j]) /\ core'[j].out = <<>> /\ core'[j].active_tab_id \in Nat
  BY <1>2, <1>3 DEF TypeInv, IsTold
<1>5. replies'[k] \in Seq(Replies)
  BY <1>2, TailIs DEF TypeInv, IsTold
<1>6. \A j \in Clients : replies'[j] \in Seq(Replies)
  BY <1>2, <1>5 DEF TypeInv, IsTold
<1>7. replies' \in [Clients -> Seq(Replies)]
  BY <1>2, <1>6 DEF IsTold
<1>8. AskersOK' /\ JoinOK' /\ PageType'
  <2>1. k \in askers
    BY <1>2 DEF IsTold, AskersOK
  <2> QED
    BY <1>2, <2>1 DEF IsTold, AskersOK, JoinOK, On, TypeInv, PageType
<1> QED
  BY <1>2, <1>4, <1>7, <1>8 DEF IsTold, TypeInv

----------------------------------------------------------------------------
(* The tabs of a client that is alone *)

LEMMA UserNew ==
  ASSUME TypeInv, NEW k \in Clients, NEW out, UserDoes(k, out), TabsInv(k)
  PROVE  /\ NextIsNew(k)'
         /\ core[k].next_tab_id \in Nat
         /\ \A i \in DOMAIN up[k] : up[k][i] # Created(core[k].next_tab_id, Home)
                                    /\ up[k][i] # Closed(core[k].next_tab_id)
         /\ core[k].next_tab_id \notin opened
         /\ ~Has(replies[k], ToldCreated(core[k].next_tab_id))
         /\ ~Has(replies[k], ToldClosed(core[k].next_tab_id))
<1> DEFINE c == core[k]
           d == core'[k]
           n == c.next_tab_id
<1>1. CoreOK(c) /\ c.active_tab_id \in Nat /\ n \in Nat /\ Asks(c, d, out)
  BY DEF TypeInv, CoreOK, TabsOK, UserDoes
<1>2. d.next_tab_id \in Nat /\ d.next_tab_id >= n /\ CoreOK(d)
  BY <1>1, AsksForTabs DEF Asks
<1>3. NextIsNew(k) /\ Ids(c) \subseteq Nat /\ Ids(d) \subseteq Nat
  BY <1>1, <1>2, IdsAreNats DEF TabsInv
<1>13. \A t \in Ids(d) : t < d.next_tab_id
  <2>1. \A t \in Ids(c) : t < n
    BY <1>3 DEF NextIsNew
  <2>2. CASE Opens(c, d, out)
    BY <1>1, <1>3, <2>1, <2>2 DEF Opens
  <2>3. CASE Turns(c, d, out)
    BY <1>1, <2>1, <2>3 DEF Turns
  <2>4. ASSUME NEW x, Shuts(c, d, x, out) PROVE \A t \in Ids(d) : t < d.next_tab_id
    BY <1>1, <2>1, <2>4 DEF Shuts
  <2> QED
    BY <1>1, <2>2, <2>3, <2>4 DEF Asks
<1>4. \A i \in DOMAIN out : out[i].tab_id < d.next_tab_id
  <2>1. CASE Opens(c, d, out)
    <3>1. out = <<Created(n, Home)>> /\ d.next_tab_id = n + 1
      BY <2>1 DEF Opens
    <3> QED
      BY <1>1, <3>1, SingleIs, Kinds
  <2>2. CASE Turns(c, d, out)
    <3>1. out = <<Switched(d.active_tab_id)>> /\ d.active_tab_id \in Ids(d)
      BY <2>2 DEF Turns
    <3>2. d.active_tab_id < d.next_tab_id
      BY <1>13, <3>1
    <3> QED
      BY <3>1, <3>2, SingleIs, Kinds
  <2>3. ASSUME NEW x \in Ids(c) \cup {c.active_tab_id}, Shuts(c, d, x, out)
        PROVE  \A i \in DOMAIN out : out[i].tab_id < d.next_tab_id
    <3>1. d.next_tab_id = n /\ x < n
      BY <1>1, <1>3, <2>3 DEF Shuts, NextIsNew
    <3>2. CASE out = <<Closed(x)>>
      BY <3>1, <3>2, SingleIs, Kinds
    <3>3. CASE out = <<Closed(x), Switched(d.active_tab_id)>> /\ d.active_tab_id \in Ids(d)
      <4>1. d.active_tab_id < d.next_tab_id
        BY <1>13, <3>3
      <4> QED
        BY <3>1, <3>3, <4>1, PairIs, Kinds
    <3> QED
      BY <2>3, <3>2, <3>3 DEF Shuts
  <2> QED
    BY <1>1, <2>1, <2>2, <2>3 DEF Asks
<1>5. \A i \in DOMAIN up[k] : up[k][i].tab_id < n
  BY <1>3 DEF NextIsNew
<1>6. \A i \in DOMAIN up[k] : up[k][i].tab_id < d.next_tab_id
  <2>1. \A i \in DOMAIN up[k] : up[k][i].tab_id \in Nat
    <3>1. \A e \in Requests : e.tab_id \in Nat
      BY Kinds DEF Requests
    <3>2. \A i \in DOMAIN up[k] : up[k][i] \in Requests
      BY DEF TypeInv
    <3> QED
      BY <3>1, <3>2
  <2> QED
    BY <1>1, <1>2, <1>5, <2>1
<1>7. \A i \in DOMAIN up'[k] : up'[k][i].tab_id < d.next_tab_id
  <2>1. up[k] \in Seq(Requests) /\ out \in Seq(Requests) /\ up'[k] = up[k] \o out
    BY DEF TypeInv, UserDoes
  <2> QED
    BY <1>4, <1>6, <2>1, ConcatIs
<1>8. d.active_tab_id < d.next_tab_id
  <2>1. CASE Opens(c, d, out)
    BY <1>1, <2>1 DEF Opens
  <2>2. CASE Turns(c, d, out)
    BY <1>13, <2>2 DEF Turns
  <2>3. ASSUME NEW x, Shuts(c, d, x, out) PROVE d.active_tab_id < d.next_tab_id
    BY <1>13, <1>3, <2>3 DEF Shuts, NextIsNew
  <2> QED
    BY <1>1, <2>1, <2>2, <2>3 DEF Asks
<1>9. NextIsNew(k)'
  <2>1. \A t \in opened : t < d.next_tab_id
    BY <1>1, <1>2, <1>3 DEF NextIsNew, TypeInv
  <2>2. \A i \in DOMAIN replies[k] : replies[k][i].id < d.next_tab_id
    <3>1. \A e \in Replies : e.id \in Nat
      BY ReplyKinds DEF Replies
    <3>2. \A i \in DOMAIN replies[k] : replies[k][i] \in Replies
      BY DEF TypeInv
    <3> QED
      BY <1>1, <1>2, <1>3, <3>1, <3>2 DEF NextIsNew
  <2>3. \A t \in Nat : Has(bus[k], ToldActive(t)) => t < d.next_tab_id
    BY <1>1, <1>2, <1>3 DEF NextIsNew
  <2> QED
    BY <1>13, <1>7, <1>8, <2>1, <2>2, <2>3 DEF NextIsNew, UserDoes
<1>10. \A i \in DOMAIN up[k] : up[k][i] # Created(n, Home) /\ up[k][i] # Closed(n)
  BY <1>1, <1>5, Kinds
<1>11. n \notin opened
  BY <1>1, <1>3 DEF NextIsNew
<1>12. ~Has(replies[k], ToldCreated(n)) /\ ~Has(replies[k], ToldClosed(n))
  BY <1>1, <1>3, ReplyKinds DEF NextIsNew, Has
<1> QED
  BY <1>1, <1>9, <1>10, <1>11, <1>12

\* What is sent of a tab that is opened or closed.
LEMMA AsksWhat ==
  ASSUME NEW c, NEW d, NEW out, Asks(c, d, out)
  PROVE  /\ \A t : Has(out, Created(t, Home)) =>
                t = c.next_tab_id /\ t \in Ids(d) /\ DOMAIN out = {1} /\ out[1] = Created(t, Home)
         /\ \A t : t \in Ids(d) /\ t \notin Ids(c) => Has(out, Created(t, Home))
         /\ \A t : t \in Ids(c) /\ t \notin Ids(d) => Has(out, Closed(t))
<1>1. CASE Opens(c, d, out)
  <2>1. out = <<Created(c.next_tab_id, Home)>> /\ Ids(d) = Ids(c) \cup {c.next_tab_id}
    BY <1>1 DEF Opens
  <2> QED
    BY <2>1, SingleIs, SingleHas, Kinds
<1>2. CASE Turns(c, d, out)
  <2>1. out = <<Switched(d.active_tab_id)>> /\ Ids(d) = Ids(c)
    BY <1>2 DEF Turns
  <2> QED
    BY <2>1, SingleHas, Kinds
<1>3. ASSUME NEW x, Shuts(c, d, x, out)
      PROVE  /\ \A t : ~Has(out, Created(t, Home))
             /\ \A t : ~(t \in Ids(d) /\ t \notin Ids(c))
             /\ \A t : t \in Ids(c) /\ t \notin Ids(d) => Has(out, Closed(t))
  <2>1. Ids(d) = Ids(c) \ {x}
    BY <1>3 DEF Shuts
  <2>2. \/ out = <<Closed(x)>>
        \/ out = <<Closed(x), Switched(d.active_tab_id)>>
    BY <1>3 DEF Shuts
  <2>3. \A t : ~Has(out, Created(t, Home))
    BY <2>2, SingleHas, PairHas, Kinds
  <2>4. Has(out, Closed(x))
    BY <2>2, SingleHas, PairHas
  <2> QED
    BY <2>1, <2>3, <2>4
<1> QED
  BY <1>1, <1>2, <1>3 DEF Asks

LEMMA UserTabs ==
  ASSUME TypeInv, NEW k \in Clients, NEW out, UserDoes(k, out), TabsInv(k)
  PROVE  TabsInv(k)'
<1> DEFINE c == core[k]
           d == core'[k]
           q == up[k]
           p == up'[k]
<1>1. q \in Seq(Requests) /\ out \in Seq(Requests) /\ p = q \o out /\ Asks(c, d, out)
      /\ UNCHANGED <<table, opened, replies>>
  BY DEF TypeInv, UserDoes
<1>2. \A e : Has(p, e) <=> Has(q, e) \/ Has(out, e)
  BY <1>1, HasConcat
<1>3. ASSUME NEW t \in Nat PROVE OpeningOK(k, t)'
  <2> SUFFICES ASSUME NEW i \in DOMAIN p, p[i] = Created(t, Home)
               PROVE  /\ t \notin opened
                      /\ ~Has(replies[k], ToldCreated(t)) /\ ~Has(replies[k], ToldClosed(t))
                      /\ \A j \in DOMAIN p : p[j] = Created(t, Home) => j = i
                      /\ \A j \in DOMAIN p : p[j] = Closed(t) => j > i
                      /\ t \notin Ids(d) => Has(p, Closed(t))
    BY <1>1 DEF OpeningOK
  <2>1. CASE i \in DOMAIN q
    <3>1. q[i] = Created(t, Home)
      BY <1>1, <2>1, ConcatIs
    <3>2. /\ t \notin opened
          /\ ~Has(replies[k], ToldCreated(t)) /\ ~Has(replies[k], ToldClosed(t))
          /\ \A j \in DOMAIN q : q[j] = Created(t, Home) => j = i
          /\ \A j \in DOMAIN q : q[j] = Closed(t) => j > i
          /\ t \notin Ids(c) => Has(q, Closed(t))
      BY <2>1, <3>1 DEF TabsInv, OpeningOK
    <3>3. ~Has(out, Created(t, Home))
      BY <1>1, <2>1, <3>1, AsksWhat, UserNew
    <3>4. \A j \in DOMAIN p : j \in DOMAIN q \/ (j > Len(q) /\ Has(out, p[j]))
      BY <1>1, ConcatIs DEF Has
    <3>5. \A j \in DOMAIN p : p[j] = Created(t, Home) => j = i
      BY <1>1, <3>2, <3>3, <3>4, ConcatIs
    <3>6. \A j \in DOMAIN p : p[j] = Closed(t) => j > i
      BY <1>1, <2>1, <3>2, <3>4, ConcatIs
    <3>7. t \notin Ids(d) => Has(p, Closed(t))
      BY <1>1, <1>2, <3>2, AsksWhat
    <3> QED
      BY <3>2, <3>5, <3>6, <3>7
  <2>2. CASE i \notin DOMAIN q
    <3>1. i - Len(q) \in DOMAIN out /\ out[i - Len(q)] = Created(t, Home) /\ i \in Nat /\ Len(q) \in Nat
      BY <1>1, <2>2, ConcatIs
    <3>2. Has(out, Created(t, Home))
      BY <3>1 DEF Has
    <3>3. t = c.next_tab_id /\ t \in Ids(d) /\ DOMAIN out = {1} /\ out[1] = Created(t, Home)
      BY <1>1, <3>2, AsksWhat
    <3>4. /\ \A j \in DOMAIN q : q[j] # Created(t, Home) /\ q[j] # Closed(t)
          /\ t \notin opened
          /\ ~Has(replies[k], ToldCreated(t)) /\ ~Has(replies[k], ToldClosed(t))
      BY <3>3, UserNew
    <3>5. \A j \in DOMAIN p : j \in DOMAIN q \/ (j = Len(q) + 1 /\ p[j] = Created(t, Home))
      BY <1>1, <3>1, <3>3, ConcatIs
    <3>6. i = Len(q) + 1
      BY <3>1, <3>3
    <3> QED
      BY <1>1, <3>3, <3>4, <3>5, <3>6, ConcatIs, Kinds
  <2> QED
    BY <2>1, <2>2
<1>4. ASSUME NEW t \in Nat PROVE DifferenceOK(k, t)'
  <2>1. DifferenceOK(k, t)
    BY DEF TabsInv
  <2> QED
    BY <1>1, <1>2, <2>1, AsksWhat DEF DifferenceOK
<1>5. ASSUME NEW t \in Nat PROVE ClosingOK(k, t)'
  BY <1>1 DEF ClosingOK, TabsInv
<1> QED
  BY <1>3, <1>4, <1>5, UserNew DEF TabsInv

\* What is left in the queues when the host has answered.
LEMMA AnsweredQueues ==
  ASSUME TypeInv, NEW k \in Clients, NEW m, NEW told, Answers(k, m, told)
  PROVE  /\ \A e : Has(up'[k], e) => Has(up[k], e)
         /\ \A e : Has(up[k], e) /\ e # m => Has(up'[k], e)
         /\ Has(up[k], m) /\ 1 \in DOMAIN up[k] /\ up[k][1] = m
         /\ \A i \in DOMAIN up'[k] : i \in Nat /\ i >= 1 /\ i + 1 \in DOMAIN up[k] /\ up'[k][i] = up[k][i + 1]
         /\ \A e : Has(replies'[k], e) <=> Has(replies[k], e) \/ e = told
         /\ Len(replies[k]) \in Nat /\ DOMAIN replies[k] = 1..Len(replies[k])
         /\ DOMAIN replies'[k] = 1..(Len(replies[k]) + 1)
         /\ \A i \in DOMAIN replies[k] : replies'[k][i] = replies[k][i]
         /\ replies'[k][Len(replies[k]) + 1] = told
<1> DEFINE q == up[k]
           r == replies[k]
<1>1. q \in Seq(Requests) /\ r \in Seq(Replies) /\ told \in Replies /\ q # <<>> /\ m = Head(q)
      /\ up'[k] = Tail(q) /\ replies'[k] = Append(r, told)
  BY DEF TypeInv, Answers
<1> HIDE DEF q, r
<1>2. \A e : Has(Tail(q), e) => Has(q, e)
  BY <1>1, HasTail
<1>3. \A e : Has(q, e) /\ e # m => Has(Tail(q), e)
  BY <1>1, HasTail
<1>4. Has(q, m) /\ 1 \in DOMAIN q /\ q[1] = m
  BY <1>1, HasTail, TailIs
<1>5. \A i \in DOMAIN Tail(q) : i \in Nat /\ i >= 1 /\ i + 1 \in DOMAIN q /\ Tail(q)[i] = q[i + 1]
  BY <1>1, TailIs
<1>6. \A e : Has(Append(r, told), e) <=> Has(r, e) \/ e = told
  BY <1>1, HasAppend
<1>7. /\ Len(r) \in Nat /\ DOMAIN r = 1..Len(r) /\ DOMAIN Append(r, told) = 1..(Len(r) + 1)
      /\ \A i \in DOMAIN r : Append(r, told)[i] = r[i]
      /\ Append(r, told)[Len(r) + 1] = told
  BY <1>1, AppendIs
<1> QED
  BY <1>1, <1>2, <1>3, <1>4, <1>5, <1>6, <1>7 DEF q, r

\* What is said of a tab that was to be opened when the host has answered.
LEMMA AnsweredReplies ==
  ASSUME TypeInv, NEW k \in Clients, NEW m, NEW told, Answers(k, m, told), NEW e
  PROVE  Has(replies'[k], e) <=> Has(replies[k], e) \/ e = told
BY AnsweredQueues

LEMMA AnsweredOpening ==
  ASSUME TypeInv, NEW k \in Clients, NEW m, NEW told, Answers(k, m, told), TabsInv(k),
         NEW t \in Nat, t \notin opened', told # ToldCreated(t), told # ToldClosed(t) \/ m = Closed(t)
  PROVE  OpeningOK(k, t)'
<1> DEFINE q == up[k]
           p == up'[k]
<1> SUFFICES ASSUME NEW i \in DOMAIN p, p[i] = Created(t, Home)
             PROVE  /\ t \notin opened'
                    /\ ~Has(replies'[k], ToldCreated(t)) /\ ~Has(replies'[k], ToldClosed(t))
                    /\ \A j \in DOMAIN p : p[j] = Created(t, Home) => j = i
                    /\ \A j \in DOMAIN p : p[j] = Closed(t) => j > i
                    /\ t \notin Ids(core'[k]) => Has(p, Closed(t))
  BY DEF OpeningOK
<1>1. i \in Nat /\ i >= 1 /\ i + 1 \in DOMAIN q /\ q[i + 1] = Created(t, Home)
  BY AnsweredQueues
<1>2. /\ ~Has(replies[k], ToldCreated(t)) /\ ~Has(replies[k], ToldClosed(t))
      /\ \A j \in DOMAIN q : q[j] = Created(t, Home) => j = i + 1
      /\ \A j \in DOMAIN q : q[j] = Closed(t) => j > i + 1
      /\ t \notin Ids(core[k]) => Has(q, Closed(t))
  BY <1>1 DEF TabsInv, OpeningOK
<1>3. m # Closed(t)
  BY <1>1, <1>2, AnsweredQueues
<1>4. ~Has(replies'[k], ToldCreated(t)) /\ ~Has(replies'[k], ToldClosed(t))
  <2>1. \A e : Has(replies'[k], e) <=> Has(replies[k], e) \/ e = told
    BY AnsweredQueues
  <2> QED
    BY <1>2, <1>3, <2>1
<1>5. \A j \in DOMAIN p : p[j] = Created(t, Home) => j = i
  BY <1>1, <1>2, AnsweredQueues
<1>6. \A j \in DOMAIN p : p[j] = Closed(t) => j > i
  BY <1>1, <1>2, AnsweredQueues
<1>7. t \notin Ids(core'[k]) => Has(p, Closed(t))
  <2>1. \A e : Has(q, e) /\ e # m => Has(p, e)
    BY AnsweredQueues
  <2>2. core' = core
    BY DEF Answers
  <2> QED
    BY <1>2, <1>3, <2>1, <2>2
<1> QED
  BY <1>4, <1>5, <1>6, <1>7

LEMMA AnsweredNew ==
  ASSUME TypeInv, NEW k \in Clients, NEW m, NEW told, Answers(k, m, told), TabsInv(k), m.tab_id = told.id,
         \A t \in opened' : t \in opened \/ t = m.tab_id,
         \A t \in Nat : Has(bus'[k], ToldActive(t)) => Has(bus[k], ToldActive(t)) \/ t = m.tab_id
  PROVE  NextIsNew(k)'
<1>1. NextIsNew(k)
  BY DEF TabsInv
<1>2. m.tab_id < core[k].next_tab_id
  BY <1>1, AnsweredQueues DEF NextIsNew
<1>3. \A i \in DOMAIN up'[k] : up'[k][i].tab_id < core[k].next_tab_id
  BY <1>1, AnsweredQueues DEF NextIsNew
<1>4. \A i \in DOMAIN replies'[k] : replies'[k][i].id < core[k].next_tab_id
  <2>1. \A i \in DOMAIN replies'[k] : i \in DOMAIN replies[k] \/ i = Len(replies[k]) + 1
    BY AnsweredQueues
  <2> QED
    BY <1>1, <1>2, <2>1, AnsweredQueues DEF NextIsNew
<1> QED
  BY <1>1, <1>2, <1>3, <1>4 DEF NextIsNew, Answers

LEMMA CreatesTabs ==
  ASSUME TypeInv, NEW k \in Clients, NEW x \in Nat, Creates(k, x), TabsInv(k)
  PROVE  TabsInv(k)'
<1> DEFINE q == up[k]
           m == Created(x, Home)
           told == ToldCreated(x)
<1>1. /\ Answers(k, m, told) /\ UNCHANGED core /\ On(k)
      /\ DOMAIN table' = DOMAIN table \cup {x} /\ opened' = opened \cup {x}
      /\ DOMAIN table \subseteq opened
  BY DEF Creates, Answers, TypeInv
<1>2. m.tab_id = x /\ told.id = x
  BY Kinds, ReplyKinds
<1>3. 1 \in DOMAIN q /\ q[1] = m
  BY <1>1, AnsweredQueues
<1>4. /\ x \notin opened
      /\ ~Has(replies[k], ToldCreated(x)) /\ ~Has(replies[k], ToldClosed(x))
      /\ \A j \in DOMAIN q : q[j] = m => j = 1
      /\ x \notin Ids(core[k]) => Has(q, Closed(x))
  BY <1>3 DEF TabsInv, OpeningOK
<1>5. NextIsNew(k)'
  <2>1. \A t \in Nat : Has(bus'[k], ToldActive(t)) => Has(bus[k], ToldActive(t)) \/ t = x
    <3>1. LabelsTyped(table'[x]) /\ bus'[k] = bus[k] \o Announcement(x, table'[x]) /\ bus[k] \in Seq(Broadcasts)
      BY <1>1, PublishType DEF Creates, TypeInv
    <3>2. Announcement(x, table'[x]) \in Seq(Broadcasts)
          /\ \A t : Has(Announcement(x, table'[x]), ToldActive(t)) => t = x
      BY <3>1, AnnouncementHas
    <3> QED
      BY <3>1, <3>2, HasConcat
  <2> HIDE DEF m, told
  <2> QED
    BY <1>1, <1>2, <2>1, AnsweredNew
<1>6. ASSUME NEW t \in Nat PROVE OpeningOK(k, t)'
  <2>1. CASE t = x
    <3>1. ASSUME NEW i \in DOMAIN up'[k] PROVE up'[k][i] # Created(x, Home)
      BY <1>1, <1>4, AnsweredQueues
    <3> QED
      BY <2>1, <3>1 DEF OpeningOK
  <2>2. CASE t # x /\ t \in opened
    <3>1. ASSUME NEW i \in DOMAIN up'[k] PROVE up'[k][i] # Created(t, Home)
      <4>1. i + 1 \in DOMAIN q /\ up'[k][i] = q[i + 1]
        BY <1>1, AnsweredQueues
      <4> QED
        BY <2>2, <4>1 DEF TabsInv, OpeningOK
    <3> QED
      BY <3>1 DEF OpeningOK
  <2>3. CASE t # x /\ t \notin opened
    <3>1. t \notin opened' /\ told # ToldCreated(t) /\ told # ToldClosed(t)
      BY <1>1, <2>3, ReplyKinds
    <3> HIDE DEF m, told
    <3> QED
      BY <1>1, <3>1, AnsweredOpening
  <2> QED
    BY <2>1, <2>2, <2>3
<1>7. ASSUME NEW t \in Nat PROVE DifferenceOK(k, t)'
  <2>1. DifferenceOK(k, t)
    BY DEF TabsInv
  <2>2. t # x => (Has(q, Created(t, Home)) => Has(up'[k], Created(t, Home)))
    <3>1. \A e : Has(q, e) /\ e # m => Has(up'[k], e)
      BY <1>1, AnsweredQueues
    <3> QED
      BY <3>1, Kinds
  <2>3. Has(q, Closed(t)) => Has(up'[k], Closed(t))
    <3>1. \A e : Has(q, e) /\ e # m => Has(up'[k], e)
      BY <1>1, AnsweredQueues
    <3> QED
      BY <3>1, Kinds
  <2>4. Has(replies[k], ToldClosed(t)) => Has(replies'[k], ToldClosed(t))
    BY <1>1, AnsweredQueues
  <2> QED
    BY <1>1, <1>4, <2>1, <2>2, <2>3, <2>4 DEF DifferenceOK
<1>8. ASSUME NEW t \in Nat PROVE ClosingOK(k, t)'
  <2>1. ClosingOK(k, t)
    BY DEF TabsInv
  <2>2. Has(replies'[k], ToldClosed(t)) <=> Has(replies[k], ToldClosed(t))
    <3>1. \A e : Has(replies'[k], e) <=> Has(replies[k], e) \/ e = told
      BY <1>1, AnsweredQueues
    <3> QED
      BY <3>1, ReplyKinds
  <2>3. t \in DOMAIN table' => ~Has(replies'[k], ToldClosed(t))
    BY <1>1, <1>4, <2>1, <2>2 DEF ClosingOK
  <2>4. ASSUME t \notin DOMAIN table', NEW i \in DOMAIN replies'[k], replies'[k][i] = ToldCreated(t)
        PROVE  \E j \in DOMAIN replies'[k] : j > i /\ replies'[k][j] = ToldClosed(t)
    <3>1. t # x /\ t \notin DOMAIN table
      BY <1>1, <2>4
    <3>2. i \in DOMAIN replies[k] /\ replies[k][i] = ToldCreated(t)
      BY <1>1, <2>4, <3>1, AnsweredQueues, ReplyKinds
    <3>3. PICK j \in DOMAIN replies[k] : j > i /\ replies[k][j] = ToldClosed(t)
      BY <2>1, <3>1, <3>2 DEF ClosingOK
    <3>4. j \in DOMAIN replies'[k] /\ replies'[k][j] = ToldClosed(t)
      BY <1>1, <3>3, AnsweredQueues
    <3> QED
      BY <3>3, <3>4
  <2> QED
    BY <2>3, <2>4 DEF ClosingOK
<1> QED
  BY <1>5, <1>6, <1>7, <1>8 DEF TabsInv

LEMMA ClosesTabs ==
  ASSUME TypeInv, NEW k \in Clients, NEW x \in Nat, Closes(k, x), TabsInv(k)
  PROVE  TabsInv(k)'
<1> DEFINE q == up[k]
           m == Closed(x)
           told == ToldClosed(x)
<1>1. Answers(k, m, told) /\ DOMAIN table' = DOMAIN table \ {x} /\ UNCHANGED <<core, bus, opened>>
  BY DEF Closes, Answers
<1>2. m.tab_id = x /\ told.id = x
  BY Kinds, ReplyKinds
<1>3. NextIsNew(k)'
  <2> HIDE DEF m, told
  <2> QED
    BY <1>1, <1>2, AnsweredNew
<1>4. ASSUME NEW t \in Nat PROVE OpeningOK(k, t)'
  <2>1. CASE t \in opened
    <3>1. ASSUME NEW i \in DOMAIN up'[k] PROVE up'[k][i] # Created(t, Home)
      <4>1. i + 1 \in DOMAIN q /\ up'[k][i] = q[i + 1]
        BY <1>1, AnsweredQueues
      <4> QED
        BY <2>1, <4>1 DEF TabsInv, OpeningOK
    <3> QED
      BY <3>1 DEF OpeningOK
  <2>2. CASE t \notin opened
    <3>1. t \notin opened' /\ told # ToldCreated(t) /\ (told # ToldClosed(t) \/ m = Closed(t))
      BY <1>1, <2>2, ReplyKinds
    <3> HIDE DEF m, told
    <3> QED
      BY <1>1, <3>1, AnsweredOpening
  <2> QED
    BY <2>1, <2>2
<1>5. ASSUME NEW t \in Nat PROVE DifferenceOK(k, t)'
  <2>1. DifferenceOK(k, t)
    BY DEF TabsInv
  <2>2. Has(q, Created(t, Home)) => Has(up'[k], Created(t, Home))
    <3>1. \A e : Has(q, e) /\ e # m => Has(up'[k], e)
      BY <1>1, AnsweredQueues
    <3> QED
      BY <3>1, Kinds
  <2>3. t # x => (Has(q, Closed(t)) => Has(up'[k], Closed(t)))
    <3>1. \A e : Has(q, e) /\ e # m => Has(up'[k], e)
      BY <1>1, AnsweredQueues
    <3> QED
      BY <3>1, Kinds
  <2>4. Has(replies'[k], ToldClosed(t)) <=> Has(replies[k], ToldClosed(t)) \/ t = x
    <3>1. \A e : Has(replies'[k], e) <=> Has(replies[k], e) \/ e = told
      BY <1>1, AnsweredQueues
    <3> QED
      BY <3>1, ReplyKinds
  <2> QED
    BY <1>1, <2>1, <2>2, <2>3, <2>4 DEF DifferenceOK
<1>6. ASSUME NEW t \in Nat PROVE ClosingOK(k, t)'
  <2>1. ClosingOK(k, t)
    BY DEF TabsInv
  <2>2. Has(replies'[k], ToldClosed(t)) <=> Has(replies[k], ToldClosed(t)) \/ t = x
    <3>1. \A e : Has(replies'[k], e) <=> Has(replies[k], e) \/ e = told
      BY <1>1, AnsweredQueues
    <3> QED
      BY <3>1, ReplyKinds
  <2>3. t \in DOMAIN table' => ~Has(replies'[k], ToldClosed(t))
    BY <1>1, <2>1, <2>2 DEF ClosingOK
  <2>4. ASSUME t \notin DOMAIN table', NEW i \in DOMAIN replies'[k], replies'[k][i] = ToldCreated(t)
        PROVE  \E j \in DOMAIN replies'[k] : j > i /\ replies'[k][j] = ToldClosed(t)
    <3>1. i \in DOMAIN replies[k] /\ replies[k][i] = ToldCreated(t)
      BY <1>1, <2>4, AnsweredQueues, ReplyKinds
    <3>2. CASE t = x
      <4>1. /\ Len(replies[k]) + 1 \in DOMAIN replies'[k] /\ replies'[k][Len(replies[k]) + 1] = ToldClosed(t)
            /\ Len(replies[k]) + 1 > i
        BY <1>1, <3>1, <3>2, AnsweredQueues
      <4> QED
        BY <4>1
    <3>3. CASE t # x
      <4>1. PICK j \in DOMAIN replies[k] : j > i /\ replies[k][j] = ToldClosed(t)
        BY <1>1, <2>1, <2>4, <3>1, <3>3 DEF ClosingOK
      <4>2. j \in DOMAIN replies'[k] /\ replies'[k][j] = ToldClosed(t)
        BY <1>1, <4>1, AnsweredQueues
      <4> QED
        BY <4>1, <4>2
    <3> QED
      BY <3>2, <3>3
  <2> QED
    BY <2>3, <2>4 DEF ClosingOK
<1> QED
  BY <1>3, <1>4, <1>5, <1>6 DEF TabsInv

LEMMA SwitchesTabs ==
  ASSUME TypeInv, NEW k \in Clients, NEW x \in Nat, Switches(k, x), TabsInv(k)
  PROVE  TabsInv(k)'
<1> DEFINE q == up[k]
           m == Switched(x)
           told == ToldActive(x)
           a == IF x \in DOMAIN table THEN Announcement(x, table[x]) ELSE <<>>
<1>1. Answers(k, m, told) /\ UNCHANGED <<table, opened, core>> /\ On(k)
  BY DEF Switches, Answers
<1>2. m.tab_id = x /\ told.id = x
  BY Kinds, ReplyKinds
<1>3. NextIsNew(k)'
  <2>1. a \in Seq(Broadcasts) /\ bus'[k] = bus[k] \o a /\ bus[k] \in Seq(Broadcasts)
    BY <1>1, PublishType DEF Switches, Publishes, TypeInv
  <2>2. \A t : Has(a, ToldActive(t)) => t = x
    <3>1. CASE x \in DOMAIN table
      <4>1. LabelsTyped(table[x]) /\ a = Announcement(x, table[x])
        BY <3>1 DEF TypeInv
      <4> QED
        BY <4>1, AnnouncementHas
    <3>2. CASE x \notin DOMAIN table
      BY <3>2, EmptyHas
    <3> QED
      BY <3>1, <3>2
  <2> HIDE DEF a, m, told
  <2>3. \A t \in Nat : Has(bus'[k], ToldActive(t)) => Has(bus[k], ToldActive(t)) \/ t = x
    BY <2>1, <2>2, HasConcat
  <2> QED
    BY <1>1, <1>2, <2>3, AnsweredNew
<1>4. \A e : Has(q, e) /\ e # m => Has(up'[k], e)
  BY <1>1, AnsweredQueues
<1>5. \A e : Has(replies'[k], e) <=> Has(replies[k], e) \/ e = told
  BY <1>1, AnsweredQueues
<1>6. ASSUME NEW t \in Nat PROVE OpeningOK(k, t)'
  <2>1. CASE t \in opened
    <3>1. ASSUME NEW i \in DOMAIN up'[k] PROVE up'[k][i] # Created(t, Home)
      <4>1. i + 1 \in DOMAIN q /\ up'[k][i] = q[i + 1]
        BY <1>1, AnsweredQueues
      <4> QED
        BY <2>1, <4>1 DEF TabsInv, OpeningOK
    <3> QED
      BY <3>1 DEF OpeningOK
  <2>2. CASE t \notin opened
    <3>1. t \notin opened' /\ told # ToldCreated(t) /\ told # ToldClosed(t)
      BY <1>1, <2>2, ReplyKinds
    <3> HIDE DEF m, told
    <3> QED
      BY <1>1, <3>1, AnsweredOpening
  <2> QED
    BY <2>1, <2>2
<1>7. ASSUME NEW t \in Nat PROVE DifferenceOK(k, t)'
  <2>1. DifferenceOK(k, t)
    BY DEF TabsInv
  <2>2. /\ Has(q, Created(t, Home)) => Has(up'[k], Created(t, Home))
        /\ Has(q, Closed(t)) => Has(up'[k], Closed(t))
    BY <1>4, Kinds
  <2> QED
    BY <1>1, <1>5, <2>1, <2>2 DEF DifferenceOK
<1>8. ASSUME NEW t \in Nat PROVE ClosingOK(k, t)'
  <2>1. ClosingOK(k, t)
    BY DEF TabsInv
  <2>2. Has(replies'[k], ToldClosed(t)) <=> Has(replies[k], ToldClosed(t))
    BY <1>5, ReplyKinds
  <2>3. t \in DOMAIN table' => ~Has(replies'[k], ToldClosed(t))
    BY <1>1, <2>1, <2>2 DEF ClosingOK
  <2>4. ASSUME t \notin DOMAIN table', NEW i \in DOMAIN replies'[k], replies'[k][i] = ToldCreated(t)
        PROVE  \E j \in DOMAIN replies'[k] : j > i /\ replies'[k][j] = ToldClosed(t)
    <3>1. i \in DOMAIN replies[k] /\ replies[k][i] = ToldCreated(t)
      BY <1>1, <2>4, AnsweredQueues, ReplyKinds
    <3>2. PICK j \in DOMAIN replies[k] : j > i /\ replies[k][j] = ToldClosed(t)
      BY <1>1, <2>1, <2>4, <3>1 DEF ClosingOK
    <3>3. j \in DOMAIN replies'[k] /\ replies'[k][j] = ToldClosed(t)
      BY <1>1, <3>2, AnsweredQueues
    <3> QED
      BY <3>2, <3>3
  <2> QED
    BY <2>3, <2>4 DEF ClosingOK
<1> QED
  BY <1>3, <1>6, <1>7, <1>8 DEF TabsInv

\* The loop and a handshake touch nothing of this but what is on the bus.
LEMMA AsideTabs ==
  ASSUME NEW k \in Clients, TabsInv(k), DOMAIN table' = DOMAIN table,
         UNCHANGED <<opened, up, replies>>, core'[k] = core[k],
         \A x : Has(bus'[k], ToldActive(x)) => Has(bus[k], ToldActive(x))
  PROVE  TabsInv(k)'
<1>1. NextIsNew(k)'
  BY DEF TabsInv, NextIsNew
<1>2. ASSUME NEW x \in Nat PROVE (OpeningOK(k, x) /\ DifferenceOK(k, x) /\ ClosingOK(k, x))'
  <2>1. OpeningOK(k, x) /\ DifferenceOK(k, x) /\ ClosingOK(k, x)
    BY DEF TabsInv
  <2> QED
    BY <2>1 DEF OpeningOK, DifferenceOK, ClosingOK
<1> QED
  BY <1>1, <1>2 DEF TabsInv

\* What the loop tells is not that a tab is active, nor is WELCOME.
LEMMA TellsOther ==
  ASSUME TypeInv, NEW e, TellsTab(e) \/ TellsActive(e)
  PROVE  /\ \A x : e # ToldActive(x)
         /\ \A j \in Clients : \A x : Has(bus'[j], ToldActive(x)) <=> Has(bus[j], ToldActive(x))
<1>1. page.f \in Labels
  BY DEF TypeInv, PageType, PageOf
<1>2. e.ev # "TabActivated"
  BY <1>1 DEF TellsTab, TellsActive, OfTab, OfActive, Labels
<1>3. \A x : ToldActive(x).ev = "TabActivated"
  BY DEF ToldActive
<1>4. \A x : e # ToldActive(x)
  BY <1>2, <1>3
<1>5. Publishes(<<e>>)
  BY DEF TellsTab, TellsActive, Tells
<1> QED
  BY <1>4, <1>5, PublishHas, SingleHas

LEMMA GreetedOther ==
  ASSUME NEW k \in Clients, Greeted(k)
  PROVE  \A j \in Clients : \A x : Has(bus'[j], ToldActive(x)) => Has(bus[j], ToldActive(x))
<1>1. \A x, url : ToldActive(x) # Greeting(url)
  <2>1. \A x, url : ToldActive(x).ev = "TabActivated" /\ Greeting(url).ev = "InitialUrl"
    BY DEF ToldActive, Greeting
  <2> QED
    BY <2>1
<1>2. \A x, url : ~Has(<<Greeting(url)>>, ToldActive(x))
  BY <1>1, SingleHas
<1>3. \A x : ~Has(<<>>, ToldActive(x))
  BY EmptyHas
<1> SUFFICES ASSUME NEW j \in Clients, NEW x, Has(bus'[j], ToldActive(x)) PROVE Has(bus[j], ToldActive(x))
  OBVIOUS
<1>4. bus'[j] = bus[j] \/ bus'[j] = <<>> \/ \E url \in Urls : bus'[j] = <<Greeting(url)>>
  BY DEF Greeted
<1> QED
  BY <1>2, <1>3, <1>4

LEMMA TellsTabs ==
  ASSUME TypeInv, NEW k \in Clients, NEW e, TellsTab(e) \/ TellsActive(e), TabsInv(k)
  PROVE  TabsInv(k)'
<1>1. Tells(e)
  BY DEF TellsTab, TellsActive
<1> QED
  BY <1>1, TellsOther, AsideTabs DEF Tells

LEMMA HearsTabs ==
  ASSUME TypeInv, NEW k \in Clients, NEW e \in Broadcasts, Hears(k, e), TabsInv(k)
  PROVE  TabsInv(k)'
<1>1. bus[k] \in Seq(Broadcasts) /\ bus[k] # <<>> /\ bus'[k] = Tail(bus[k]) /\ e = Head(bus[k])
  BY DEF Hears, TypeInv
<1>2. Has(bus[k], e) /\ \A x : Has(bus'[k], x) => Has(bus[k], x)
  BY <1>1, HasTail
<1>3. Ids(core'[k]) = Ids(core[k]) /\ core'[k].next_tab_id = core[k].next_tab_id
  BY DEF Hears, Relabels
<1>4. core'[k].active_tab_id < core[k].next_tab_id
  <2>1. CASE e.ev = "TabActivated"
    <3>1. PICK t \in Nat : e = ToldActive(t)
      BY <2>1 DEF Broadcasts, Greeting
    <3>2. core'[k].active_tab_id = t
      BY <2>1, <3>1 DEF Hears, Relabels, ToldActive
    <3> QED
      BY <1>2, <3>1, <3>2 DEF TabsInv, NextIsNew
  <2>2. CASE e.ev # "TabActivated"
    BY <2>2 DEF Hears, Relabels, TabsInv, NextIsNew
  <2> QED
    BY <2>1, <2>2
<1>5. NextIsNew(k)'
  BY <1>2, <1>3, <1>4 DEF TabsInv, NextIsNew, Hears
<1>6. ASSUME NEW x \in Nat PROVE (OpeningOK(k, x) /\ DifferenceOK(k, x) /\ ClosingOK(k, x))'
  <2>1. OpeningOK(k, x) /\ DifferenceOK(k, x) /\ ClosingOK(k, x)
    BY DEF TabsInv
  <2> QED
    BY <1>3, <2>1 DEF OpeningOK, DifferenceOK, ClosingOK, Hears
<1> QED
  BY <1>5, <1>6 DEF TabsInv

LEMMA ToldQueue ==
  ASSUME TypeInv, NEW k \in Clients, NEW e, IsTold(k, e)
  PROVE  /\ Has(replies[k], e) /\ 1 \in DOMAIN replies[k] /\ replies[k][1] = e
         /\ \A x : Has(replies'[k], x) => Has(replies[k], x)
         /\ \A x : Has(replies[k], x) /\ x # e => Has(replies'[k], x)
         /\ \A i \in DOMAIN replies'[k] :
                i \in Nat /\ i >= 1 /\ i + 1 \in DOMAIN replies[k] /\ replies'[k][i] = replies[k][i + 1]
         /\ \A i \in DOMAIN replies[k] :
                \/ i = 1
                \/ i \in Nat /\ i > 1 /\ i - 1 \in DOMAIN replies'[k] /\ replies'[k][i - 1] = replies[k][i]
<1> DEFINE q == replies[k]
<1>1. q \in Seq(Replies) /\ q # <<>> /\ e = Head(q) /\ replies'[k] = Tail(q)
  BY DEF TypeInv, IsTold
<1> HIDE DEF q
<1>2. Has(q, e) /\ 1 \in DOMAIN q /\ q[1] = e
  BY <1>1, HasTail, TailIs
<1>3. (\A x : Has(Tail(q), x) => Has(q, x)) /\ (\A x : Has(q, x) /\ x # e => Has(Tail(q), x))
  BY <1>1, HasTail
<1>4. /\ \A i \in DOMAIN Tail(q) : i \in Nat /\ i >= 1 /\ i + 1 \in DOMAIN q /\ Tail(q)[i] = q[i + 1]
      /\ \A i \in DOMAIN q : i = 1 \/ (i \in Nat /\ i > 1 /\ i - 1 \in DOMAIN Tail(q) /\ Tail(q)[i - 1] = q[i])
  BY <1>1, TailIs
<1> QED
  BY <1>1, <1>2, <1>3, <1>4 DEF q

\* The close that was to be heard of after a TabCreated still is.
LEMMA ToldClosing ==
  ASSUME TypeInv, NEW k \in Clients, NEW e, IsTold(k, e), TabsInv(k), NEW t \in Nat
  PROVE  ClosingOK(k, t)' /\ (e = ToldCreated(t) /\ t \notin DOMAIN table => Has(replies'[k], ToldClosed(t)))
<1>1. ClosingOK(k, t) /\ UNCHANGED table
  BY DEF TabsInv, IsTold
<1>2. t \in DOMAIN table => ~Has(replies'[k], ToldClosed(t))
  BY <1>1, ToldQueue DEF ClosingOK
<1>3. ASSUME t \notin DOMAIN table, NEW i \in DOMAIN replies[k], replies[k][i] = ToldCreated(t)
      PROVE  \E j \in DOMAIN replies'[k] : j + 1 > i /\ replies'[k][j] = ToldClosed(t)
  <2>1. PICK j \in DOMAIN replies[k] : j > i /\ replies[k][j] = ToldClosed(t)
    BY <1>1, <1>3 DEF ClosingOK
  <2>2. i = 1 \/ i > 1
    BY <1>3, ToldQueue
  <2>3. j \in Nat /\ j - 1 \in DOMAIN replies'[k] /\ replies'[k][j - 1] = ToldClosed(t)
    BY <2>1, <2>2, ToldQueue
  <2> QED
    BY <2>1, <2>3
<1>4. ASSUME t \notin DOMAIN table, NEW i \in DOMAIN replies'[k], replies'[k][i] = ToldCreated(t)
      PROVE  \E j \in DOMAIN replies'[k] : j > i /\ replies'[k][j] = ToldClosed(t)
  <2>1. i \in Nat /\ i + 1 \in DOMAIN replies[k] /\ replies[k][i + 1] = ToldCreated(t)
    BY <1>4, ToldQueue
  <2>2. PICK j \in DOMAIN replies'[k] : j + 1 > i + 1 /\ replies'[k][j] = ToldClosed(t)
    BY <1>3, <1>4, <2>1
  <2>3. j \in Nat
    BY ToldQueue
  <2> QED
    BY <2>1, <2>2, <2>3
<1>5. ClosingOK(k, t)'
  BY <1>1, <1>2, <1>4 DEF ClosingOK
<1>6. ASSUME e = ToldCreated(t), t \notin DOMAIN table PROVE Has(replies'[k], ToldClosed(t))
  BY <1>3, <1>6, ToldQueue DEF Has
<1> QED
  BY <1>5, <1>6

LEMMA ToldNew ==
  ASSUME TypeInv, NEW k \in Clients, NEW e, IsTold(k, e), TabsInv(k),
         core'[k].next_tab_id = core[k].next_tab_id, core'[k].active_tab_id < core[k].next_tab_id,
         \A t \in Ids(core'[k]) : t < core[k].next_tab_id
  PROVE  NextIsNew(k)'
<1>1. \A i \in DOMAIN replies'[k] : replies'[k][i].id < core[k].next_tab_id
  BY ToldQueue DEF TabsInv, NextIsNew
<1> QED
  BY <1>1 DEF TabsInv, NextIsNew, IsTold

LEMMA ReplyTabs ==
  ASSUME TypeInv, NEW k \in Clients, Reply(k), TabsInv(k)
  PROVE  TabsInv(k)'
<1> DEFINE c == core[k]
           d == core'[k]
<1>1. PICK x \in Nat :
          \/ IsTold(k, ToldCreated(x)) /\ AddsTab(c, d, x)
          \/ IsTold(k, ToldClosed(x)) /\ DropsTab(c, d, x)
          \/ IsTold(k, ToldActive(x)) /\ Relabels(c, d, ToldActive(x))
  BY ReplyIs
<1>2. PICK e : IsTold(k, e) /\ e \in {ToldCreated(x), ToldClosed(x), ToldActive(x)}
  BY <1>1
<1>3. UNCHANGED <<table, opened, up, bus>>
  BY <1>2 DEF IsTold
<1>4. CoreOK(c) /\ c.next_tab_id \in Nat /\ c.active_tab_id \in Nat
  BY DEF TypeInv, CoreOK, TabsOK
<1>5. x < c.next_tab_id
  <2>1. e.id = x
    BY <1>2, ReplyKinds
  <2> QED
    BY <1>2, <2>1, ToldQueue DEF TabsInv, NextIsNew
<1>6. \A t \in Nat : OpeningOK(k, t) /\ DifferenceOK(k, t) /\ ClosingOK(k, t)
  BY DEF TabsInv
<1>7. c.active_tab_id < c.next_tab_id /\ \A t \in Ids(c) : t < c.next_tab_id
  BY DEF TabsInv, NextIsNew
<1>8. \A y : Has(replies'[k], y) => Has(replies[k], y)
  BY <1>2, ToldQueue
<1>9. CASE IsTold(k, ToldCreated(x)) /\ AddsTab(c, d, x)
  <2>1. Ids(d) = Ids(c) \cup {x} /\ d.next_tab_id = c.next_tab_id /\ d.active_tab_id = c.active_tab_id
    BY <1>4, <1>5, <1>9, CoreAssumption DEF AddsTab, Above
  <2>2. NextIsNew(k)'
    BY <1>5, <1>7, <1>9, <2>1, ToldNew
  <2>3. ASSUME NEW t \in Nat PROVE OpeningOK(k, t)'
    BY <1>3, <1>6, <1>8, <2>1 DEF OpeningOK
  <2>4. ASSUME NEW t \in Nat PROVE DifferenceOK(k, t)'
    <3>1. Has(replies[k], ToldClosed(t)) => Has(replies'[k], ToldClosed(t))
      <4>1. \A y : Has(replies[k], y) /\ y # ToldCreated(x) => Has(replies'[k], y)
        BY <1>9, ToldQueue
      <4> QED
        BY <4>1, ReplyKinds
    <3>2. x \notin DOMAIN table => Has(replies'[k], ToldClosed(x))
      BY <1>9, ToldClosing
    <3> QED
      BY <1>3, <1>6, <2>1, <3>1, <3>2 DEF DifferenceOK
  <2>5. ASSUME NEW t \in Nat PROVE ClosingOK(k, t)'
    BY <1>9, ToldClosing
  <2> QED
    BY <2>2, <2>3, <2>4, <2>5 DEF TabsInv
<1>10. CASE IsTold(k, ToldClosed(x)) /\ DropsTab(c, d, x)
  <2>1. /\ Ids(d) = Ids(c) \ {x} /\ d.next_tab_id = c.next_tab_id
        /\ d.active_tab_id \in Ids(d) \cup {c.active_tab_id} /\ CoreOK(d)
    BY <1>10 DEF DropsTab
  <2>2. NextIsNew(k)'
    <3>1. d.active_tab_id < c.next_tab_id
      BY <1>7, <2>1
    <3> QED
      BY <1>7, <1>10, <2>1, <3>1, ToldNew
  <2>3. Has(replies[k], ToldClosed(x))
    BY <1>10, ToldQueue
  <2>4. ASSUME NEW t \in Nat PROVE OpeningOK(k, t)'
    <3>1. \A i \in DOMAIN up[k] : up[k][i] = Created(t, Home) => t # x
      BY <1>6, <2>3 DEF OpeningOK
    <3> QED
      BY <1>3, <1>6, <1>8, <2>1, <3>1 DEF OpeningOK
  <2>5. ASSUME NEW t \in Nat PROVE DifferenceOK(k, t)'
    <3>1. t # x => (Has(replies[k], ToldClosed(t)) => Has(replies'[k], ToldClosed(t)))
      <4>1. \A y : Has(replies[k], y) /\ y # ToldClosed(x) => Has(replies'[k], y)
        BY <1>10, ToldQueue
      <4> QED
        BY <4>1, ReplyKinds
    <3>2. x \notin DOMAIN table
      BY <1>6, <2>3 DEF ClosingOK
    <3> QED
      BY <1>3, <1>6, <2>1, <3>1, <3>2 DEF DifferenceOK
  <2>6. ASSUME NEW t \in Nat PROVE ClosingOK(k, t)'
    BY <1>10, ToldClosing
  <2> QED
    BY <2>2, <2>4, <2>5, <2>6 DEF TabsInv
<1>11. CASE IsTold(k, ToldActive(x)) /\ Relabels(c, d, ToldActive(x))
  <2>1. Ids(d) = Ids(c) /\ d.next_tab_id = c.next_tab_id /\ d.active_tab_id = x
    BY <1>11 DEF Relabels, ToldActive
  <2>2. NextIsNew(k)'
    BY <1>5, <1>7, <1>11, <2>1, ToldNew
  <2>3. ASSUME NEW t \in Nat PROVE OpeningOK(k, t)'
    BY <1>3, <1>6, <1>8, <2>1 DEF OpeningOK
  <2>4. ASSUME NEW t \in Nat PROVE DifferenceOK(k, t)'
    <3>1. Has(replies[k], ToldClosed(t)) => Has(replies'[k], ToldClosed(t))
      <4>1. \A y : Has(replies[k], y) /\ y # ToldActive(x) => Has(replies'[k], y)
        BY <1>11, ToldQueue
      <4> QED
        BY <4>1, ReplyKinds
    <3> QED
      BY <1>3, <1>6, <2>1, <3>1 DEF DifferenceOK
  <2>5. ASSUME NEW t \in Nat PROVE ClosingOK(k, t)'
    BY <1>11, ToldClosing
  <2> QED
    BY <2>2, <2>3, <2>4, <2>5 DEF TabsInv
<1> QED
  BY <1>1, <1>9, <1>10, <1>11

----------------------------------------------------------------------------
(* The active tab *)

LEMMA BatchIs ==
  ASSUME NEW q \in Seq(Requests), IsBatch(q), q # <<>>
  PROVE  /\ \A t : Head(q) = Created(t, Home) \/ Head(q) = Switched(t) => Tail(q) = <<>>
         /\ Tail(q) # <<>> => \E t \in Nat : Tail(q) = <<Switched(t)>>
         /\ IsBatch(Tail(q)) /\ \A t : ~Has(Tail(q), Created(t, Home))
<1>1. CASE \E t \in Nat : q = <<Created(t, Home)>> \/ q = <<Switched(t)>> \/ q = <<Closed(t)>>
  <2>1. Tail(q) = <<>>
    BY <1>1, SingleTail
  <2> QED
    BY <2>1, EmptyHas DEF IsBatch
<1>2. CASE \E t, x \in Nat : q = <<Closed(x), Switched(t)>>
  <2>1. PICK t \in Nat, x \in Nat : q = <<Closed(x), Switched(t)>>
    BY <1>2
  <2>2. Head(q) = Closed(x) /\ Tail(q) = <<Switched(t)>>
    BY <2>1, PairTail
  <2>3. \A y : ~Has(Tail(q), Created(y, Home))
    <3>1. \A y : Has(<<Switched(t)>>, Created(y, Home)) <=> Created(y, Home) = Switched(t)
      BY SingleHas
    <3>2. \A y : Created(y, Home) # Switched(t)
      BY Kinds
    <3>3. \A y : ~Has(<<Switched(t)>>, Created(y, Home))
      BY <3>1, <3>2
    <3> QED
      BY <2>2, <3>3
  <2> QED
    BY <2>2, <2>3, Kinds DEF IsBatch
<1> QED
  BY <1>1, <1>2 DEF IsBatch

LEMMA SettledIs ==
  ASSUME ~UnderWay, NEW k \in Clients
  PROVE  up[k] = <<>> /\ bus[k] = <<>> /\ replies[k] = <<>> /\ ~Pending(k)
<1>1. up[k] = <<>> /\ bus[k] = <<>> /\ replies[k] = <<>>
  BY DEF UnderWay
<1> QED
  BY <1>1, EmptyHas DEF Pending, Activating, Activates

\* When one thing is asked for at a time, what is under way is what k asks for.
LEMMA UserAsks ==
  ASSUME TypeInv, NEW k \in Clients, NEW out, UserDoes(k, out), ~hasty'
  PROVE  /\ ~hasty /\ ~UnderWay /\ up'[k] = out
         /\ \A j \in Clients : up[j] = <<>> /\ bus'[j] = <<>> /\ replies'[j] = <<>>
         /\ \A j \in Clients \ {k} : up'[j] = <<>>
<1>1. ~hasty /\ ~UnderWay
  BY DEF UserDoes
<1>2. \A j \in Clients : up[j] = <<>> /\ bus[j] = <<>> /\ replies[j] = <<>>
  BY <1>1, SettledIs
<1>3. up'[k] = out
  <2>1. out \in Seq(Requests) /\ up'[k] = <<>> \o out
    BY <1>2 DEF UserDoes
  <2> QED
    BY <2>1, ConcatEmptySeq
<1> QED
  BY <1>1, <1>2, <1>3 DEF UserDoes

\* The tab a client asks for is the one it has active, and not one it closes.
LEMMA AsksFront ==
  ASSUME NEW c, CoreOK(c), c.active_tab_id \in Nat, NEW d, NEW out, Asks(c, d, out)
  PROVE  /\ ~Activating(out) => d.active_tab_id = c.active_tab_id
         /\ \A t : Activates(out, t) => d.active_tab_id = t
         /\ \A t : Has(out, Closed(t)) => d.active_tab_id # t
<1>1. c.next_tab_id \in Nat /\ d.active_tab_id \in Nat
  BY AsksForTabs DEF CoreOK, TabsOK
<1>2. CASE Opens(c, d, out)
  <2>1. out = <<Created(c.next_tab_id, Home)>> /\ d.active_tab_id = c.next_tab_id
    BY <1>2 DEF Opens
  <2>2. \A e : Has(out, e) <=> e = Created(c.next_tab_id, Home)
    BY <2>1, SingleHas
  <2> QED
    BY <1>1, <2>1, <2>2, Kinds DEF Activating, Activates
<1>3. CASE Turns(c, d, out)
  <2>1. out = <<Switched(d.active_tab_id)>>
    BY <1>3 DEF Turns
  <2>2. \A e : Has(out, e) <=> e = Switched(d.active_tab_id)
    BY <2>1, SingleHas
  <2> QED
    BY <1>1, <2>2, Kinds DEF Activating, Activates
<1>4. ASSUME NEW x, Shuts(c, d, x, out)
      PROVE  /\ ~Activating(out) => d.active_tab_id = c.active_tab_id
             /\ \A t : Activates(out, t) => d.active_tab_id = t
             /\ \A t : Has(out, Closed(t)) => d.active_tab_id # t
  <2>1. CASE x # c.active_tab_id /\ out = <<Closed(x)>> /\ d.active_tab_id = c.active_tab_id
    <3>1. \A e : Has(out, e) <=> e = Closed(x)
      BY <2>1, SingleHas
    <3> QED
      BY <2>1, <3>1, Kinds DEF Activating, Activates
  <2>2. CASE /\ x = c.active_tab_id /\ out = <<Closed(x), Switched(d.active_tab_id)>>
             /\ d.active_tab_id \in Ids(d)
    <3>1. \A e : Has(out, e) <=> e = Closed(x) \/ e = Switched(d.active_tab_id)
      BY <2>2, PairHas
    <3>2. d.active_tab_id # x
      BY <1>4, <2>2 DEF Shuts
    <3> QED
      BY <1>1, <3>1, <3>2, Kinds DEF Activating, Activates
  <2> QED
    BY <1>4, <2>1, <2>2 DEF Shuts
<1> QED
  BY <1>2, <1>3, <1>4 DEF Asks

LEMMA UserActive ==
  ASSUME TypeInv, NEW k \in Clients, NEW out, UserDoes(k, out), ActiveInv
  PROVE  ActiveInv'
<1> SUFFICES ASSUME ~hasty' PROVE RoundOK' /\ ActiveNews' /\ WillAgree'
  BY DEF ActiveInv
<1> DEFINE c == core[k]
           d == core'[k]
<1>1. /\ ~hasty /\ ~UnderWay /\ up'[k] = out
      /\ \A j \in Clients : up[j] = <<>> /\ bus'[j] = <<>> /\ replies'[j] = <<>>
      /\ \A j \in Clients \ {k} : up'[j] = <<>>
  BY UserAsks
<1>2. CoreOK(c) /\ c.active_tab_id \in Nat /\ Asks(c, d, out)
  BY DEF TypeInv, UserDoes
<1>3. IsBatch(out)
  BY <1>2, AsksForTabs
<1>4. RoundOK'
  <2>1. \A j \in Clients : IsBatch(up'[j])
    BY <1>1, <1>3 DEF IsBatch
  <2>2. \A j \in Clients : \A e : ~Has(replies'[j], e)
    BY <1>1, EmptyHas
  <2> QED
    BY <1>1, <2>1, <2>2 DEF RoundOK
<1>5. ActiveNews'
  <2>1. \A j \in Clients : \A e : ~Has(replies'[j], e) /\ ~Has(bus'[j], e)
    BY <1>1, EmptyHas
  <2> QED
    BY <2>1 DEF ActiveNews
<1>6. WillAgree'
  <2> SUFFICES ASSUME active \in DOMAIN table, \A j \in Clients : ~Pending(j)', NEW j \in Clients, On(j)
               PROVE  core'[j].active_tab_id = active \/ j \in elsewhere
    BY DEF WillAgree, UserDoes, On
  <2>1. core[j].active_tab_id = active \/ j \in elsewhere
    <3>1. \A i \in Clients : ~Pending(i) /\ bus[i] = <<>>
      BY <1>1, SettledIs
    <3> QED
      BY <1>1, <3>1, EmptyHas DEF ActiveInv, WillAgree
  <2>2. CASE j = k
    <3>1. ~Activating(out)
      BY <1>1 DEF Pending
    <3>2. d.active_tab_id = c.active_tab_id
      BY <1>2, <3>1, AsksFront
    <3> QED
      BY <2>1, <2>2, <3>2
  <2>3. CASE j # k
    BY <2>1, <2>3 DEF UserDoes
  <2> QED
    BY <2>2, <2>3
<1> QED
  BY <1>4, <1>5, <1>6

\* What is under way when the host answers k, and what is left of it.
LEMMA RoundAnswered ==
  ASSUME TypeInv, NEW k \in Clients, NEW m, NEW told, Answers(k, m, told), RoundOK
  PROVE  /\ \A j \in Clients : IsBatch(up'[j]) /\ \A t : ~Has(up'[j], Created(t, Home))
         /\ \A j \in Clients \ {k} : up[j] = <<>> /\ up'[j] = <<>>
         /\ \A i, j \in Clients : up'[i] # <<>> /\ up'[j] # <<>> => i = j
         /\ \A t : m = Created(t, Home) \/ m = Switched(t) => \A j \in Clients : up'[j] = <<>>
         /\ \A j \in Clients, t \in Nat : ~Has(replies[j], ToldCreated(t))
<1>1. up[k] \in Seq(Requests) /\ IsBatch(up[k]) /\ up[k] # <<>> /\ m = Head(up[k]) /\ up'[k] = Tail(up[k])
  BY DEF TypeInv, RoundOK, Answers
<1>2. /\ \A t : m = Created(t, Home) \/ m = Switched(t) => up'[k] = <<>>
      /\ IsBatch(up'[k]) /\ \A t : ~Has(up'[k], Created(t, Home))
  BY <1>1, BatchIs
<1>3. \A j \in Clients \ {k} : up[j] = <<>> /\ up'[j] = <<>>
  BY <1>1 DEF RoundOK, Answers
<1>4. \A j \in Clients : IsBatch(up'[j]) /\ \A t : ~Has(up'[j], Created(t, Home))
  BY <1>2, <1>3, EmptyHas DEF IsBatch
<1>5. \A j \in Clients, t \in Nat : ~Has(replies[j], ToldCreated(t))
  BY <1>1 DEF RoundOK
<1> QED
  BY <1>2, <1>3, <1>4, <1>5

LEMMA RepliesAfter ==
  ASSUME TypeInv, NEW k \in Clients, NEW m, NEW told, Answers(k, m, told)
  PROVE  \A j \in Clients : \A e : Has(replies'[j], e) => Has(replies[j], e) \/ (j = k /\ e = told)
<1>1. \A e : Has(replies'[k], e) <=> Has(replies[k], e) \/ e = told
  BY AnsweredQueues
<1>2. \A j \in Clients \ {k} : replies'[j] = replies[j]
  BY DEF Answers
<1> QED
  BY <1>1, <1>2

LEMMA NoneActivated ==
  ASSUME \A j \in Clients : up'[j] = <<>>
  PROVE  \A j \in Clients : ~Pending(j)'
BY EmptyHas DEF Pending, Activating, Activates

LEMMA PendingIs ==
  ASSUME NEW k \in Clients, NEW t \in Nat, Has(up[k], Created(t, Home)) \/ Has(up[k], Switched(t))
  PROVE  Pending(k)
BY DEF Pending, Activating, Activates

LEMMA CreatesActive ==
  ASSUME TypeInv, NEW k \in Clients, NEW x \in Nat, Creates(k, x), ActiveInv
  PROVE  ActiveInv'
<1> DEFINE m == Created(x, Home)
           told == ToldCreated(x)
           a == Announcement(x, table'[x])
<1>1. Answers(k, m, told) /\ active' = x /\ DOMAIN table' = DOMAIN table \cup {x}
  BY DEF Creates
<1> SUFFICES ASSUME ~hasty' PROVE RoundOK' /\ ActiveNews' /\ WillAgree'
  BY DEF ActiveInv
<1>2. ~hasty /\ RoundOK /\ ActiveNews
  BY <1>1 DEF ActiveInv, Answers
<1>3. \A j \in Clients : up'[j] = <<>> /\ IsBatch(up'[j])
  BY <1>1, <1>2, RoundAnswered
<1>4. \A j \in Clients : \A e : Has(replies'[j], e) => Has(replies[j], e) \/ e = told
  BY <1>1, RepliesAfter
<1>5. Has(up[k], m)
  BY <1>1, AnsweredQueues
<1>6. \A j \in Clients : \A e : ~Has(replies[j], e)
  BY <1>2, <1>5, EmptyHas DEF RoundOK
<1>7. Publishes(a) /\ \A t : Has(a, ToldActive(t)) <=> t = x
  BY AnnouncementHas DEF Creates
<1> HIDE DEF a
<1>8. \A j \in Clients : \A t : Has(bus'[j], ToldActive(t)) <=> Has(bus[j], ToldActive(t)) \/ (On(j) /\ t = x)
  <2>1. \A j \in Clients : \A e : Has(bus'[j], e) <=> Has(bus[j], e) \/ (On(j) /\ Has(a, e))
    BY <1>7, PublishHas
  <2> QED
    BY <1>7, <2>1
<1>9. \A j \in Clients, t \in Nat : ~Has(bus[j], ToldActive(t))
  BY <1>2, <1>5, PendingIs DEF ActiveNews
<1>10. \A j \in Clients : ~Pending(j)'
  BY <1>3, NoneActivated
<1>11. RoundOK'
  <2>1. \A j \in Clients, t \in Nat : ~Has(up'[j], Created(t, Home))
    BY <1>3, EmptyHas
  <2>2. \A j \in Clients, t \in Nat : ~Has(replies'[j], ToldClosed(t))
    BY <1>4, <1>6, ReplyKinds
  <2>3. \A j \in Clients, t \in Nat : Has(replies'[j], ToldCreated(t)) => t \in DOMAIN table'
    BY <1>1, <1>4, <1>6, ReplyKinds
  <2> QED
    BY <1>3, <2>1, <2>2, <2>3 DEF RoundOK
<1>12. ActiveNews'
  <2>1. \A j \in Clients, t \in Nat : ~Has(replies'[j], ToldActive(t))
    BY <1>4, <1>6, ReplyKinds
  <2> QED
    BY <1>1, <1>8, <1>9, <1>10, <2>1 DEF ActiveNews
<1>13. WillAgree'
  BY <1>1, <1>8 DEF WillAgree, Answers, On
<1> QED
  BY <1>11, <1>12, <1>13

LEMMA ClosesActive ==
  ASSUME TypeInv, NEW k \in Clients, NEW x \in Nat, Closes(k, x), ActiveInv
  PROVE  ActiveInv'
<1> DEFINE m == Closed(x)
           told == ToldClosed(x)
<1>1. Answers(k, m, told) /\ DOMAIN table' = DOMAIN table \ {x} /\ UNCHANGED <<active, bus, core, joined, elsewhere>>
  BY DEF Closes, Answers
<1> SUFFICES ASSUME ~hasty' PROVE RoundOK' /\ ActiveNews' /\ WillAgree'
  BY DEF ActiveInv
<1>2. ~hasty /\ RoundOK /\ ActiveNews /\ WillAgree
  BY <1>1 DEF ActiveInv, Answers
<1>3. /\ \A j \in Clients : IsBatch(up'[j]) /\ \A t : ~Has(up'[j], Created(t, Home))
      /\ \A j \in Clients \ {k} : up[j] = <<>> /\ up'[j] = <<>>
      /\ \A i, j \in Clients : up'[i] # <<>> /\ up'[j] # <<>> => i = j
      /\ \A j \in Clients, t \in Nat : ~Has(replies[j], ToldCreated(t))
  BY <1>1, <1>2, RoundAnswered
<1>4. \A j \in Clients : \A e : Has(replies'[j], e) => Has(replies[j], e) \/ e = told
  BY <1>1, RepliesAfter
<1>5. \A j \in Clients : Pending(j)' <=> Pending(j)
  <2>1. \A e : Has(up'[k], e) => Has(up[k], e)
    BY <1>1, AnsweredQueues
  <2>2. \A e : Has(up[k], e) /\ e # m => Has(up'[k], e)
    BY <1>1, AnsweredQueues
  <2>3. Activating(up'[k]) <=> Activating(up[k])
    BY <2>1, <2>2, Kinds DEF Activating, Activates
  <2> QED
    BY <1>3, <2>3 DEF Pending
<1>6. RoundOK'
  <2>1. \A j \in Clients, t \in Nat : Has(replies'[j], ToldClosed(t)) => t \notin DOMAIN table'
    BY <1>1, <1>2, <1>4, ReplyKinds DEF RoundOK
  <2>2. \A j \in Clients, t \in Nat : ~Has(replies'[j], ToldCreated(t))
    <3>1. \A t : told # ToldCreated(t)
      BY ReplyKinds
    <3> QED
      BY <1>3, <1>4, <3>1
  <2> QED
    BY <1>3, <2>1, <2>2 DEF RoundOK
<1>7. ActiveNews'
  <2>1. \A j \in Clients, t \in Nat : Has(replies'[j], ToldActive(t)) => Has(replies[j], ToldActive(t))
    BY <1>4, ReplyKinds
  <2> QED
    BY <1>1, <1>2, <1>5, <2>1 DEF ActiveNews
<1>8. WillAgree'
  BY <1>1, <1>2, <1>5 DEF WillAgree, On
<1> QED
  BY <1>6, <1>7, <1>8

LEMMA SwitchesActive ==
  ASSUME TypeInv, NEW k \in Clients, NEW x \in Nat, Switches(k, x), ActiveInv
  PROVE  ActiveInv'
<1> DEFINE m == Switched(x)
           told == ToldActive(x)
           a == IF x \in DOMAIN table THEN Announcement(x, table[x]) ELSE <<>>
<1>1. Answers(k, m, told) /\ active' = x /\ UNCHANGED <<table, core>>
  BY DEF Switches, Answers
<1> SUFFICES ASSUME ~hasty' PROVE RoundOK' /\ ActiveNews' /\ WillAgree'
  BY DEF ActiveInv
<1>2. ~hasty /\ RoundOK /\ ActiveNews
  BY <1>1 DEF ActiveInv, Answers
<1>3. /\ \A j \in Clients : up'[j] = <<>> /\ IsBatch(up'[j])
      /\ \A j \in Clients, t \in Nat : ~Has(replies[j], ToldCreated(t))
  BY <1>1, <1>2, RoundAnswered
<1>4. \A j \in Clients : \A e : Has(replies'[j], e) => Has(replies[j], e) \/ e = told
  BY <1>1, RepliesAfter
<1>5. Has(up[k], m)
  BY <1>1, AnsweredQueues
<1>6. /\ a \in Seq(Broadcasts) /\ \A t : Has(a, ToldActive(t)) <=> x \in DOMAIN table /\ t = x
  <2>1. CASE x \in DOMAIN table
    <3>1. LabelsTyped(table[x]) /\ a = Announcement(x, table[x])
      BY <2>1 DEF TypeInv
    <3> QED
      BY <2>1, <3>1, AnnouncementHas
  <2>2. CASE x \notin DOMAIN table
    BY <2>2, EmptyHas
  <2> QED
    BY <2>1, <2>2
<1>7. Publishes(a)
  BY DEF Switches
<1> HIDE DEF a
<1>8. \A j \in Clients : \A t :
          Has(bus'[j], ToldActive(t)) <=> Has(bus[j], ToldActive(t)) \/ (On(j) /\ x \in DOMAIN table /\ t = x)
  <2>1. \A j \in Clients : \A e : Has(bus'[j], e) <=> Has(bus[j], e) \/ (On(j) /\ Has(a, e))
    BY <1>7, PublishHas
  <2> QED
    BY <1>6, <2>1
<1>9. \A j \in Clients, t \in Nat : ~Has(bus[j], ToldActive(t)) /\ ~Has(replies[j], ToldActive(t))
  BY <1>2, <1>5, PendingIs DEF ActiveNews
<1>10. \A j \in Clients : ~Pending(j)'
  BY <1>3, NoneActivated
<1>11. RoundOK'
  <2>1. \A j \in Clients, t \in Nat : ~Has(up'[j], Created(t, Home))
    BY <1>3, EmptyHas
  <2>2. \A j \in Clients, t \in Nat : Has(replies'[j], ToldClosed(t)) => t \notin DOMAIN table
    <3>1. \A t : told # ToldClosed(t)
      BY ReplyKinds
    <3> QED
      BY <1>2, <1>4, <3>1 DEF RoundOK
  <2>3. \A j \in Clients, t \in Nat : ~Has(replies'[j], ToldCreated(t))
    <3>1. \A t : told # ToldCreated(t)
      BY ReplyKinds
    <3> QED
      BY <1>3, <1>4, <3>1
  <2> QED
    BY <1>1, <1>3, <2>1, <2>2, <2>3 DEF RoundOK
<1>12. ActiveNews'
  <2>1. \A j \in Clients, t \in Nat : Has(replies'[j], ToldActive(t)) => t = x
    BY <1>4, <1>9, ReplyKinds
  <2> QED
    BY <1>1, <1>8, <1>9, <1>10, <2>1 DEF ActiveNews
<1>13. WillAgree'
  BY <1>1, <1>8 DEF WillAgree, Answers, On
<1> QED
  BY <1>11, <1>12, <1>13

LEMMA AsideActive ==
  ASSUME UNCHANGED <<core, joined, active, up, replies, hasty, elsewhere>>, DOMAIN table' = DOMAIN table,
         \A j \in Clients : \A x : Has(bus'[j], ToldActive(x)) <=> Has(bus[j], ToldActive(x)), ActiveInv
  PROVE  ActiveInv'
<1>1. ASSUME RoundOK PROVE RoundOK'
  BY <1>1 DEF RoundOK
<1>2. ASSUME ActiveNews PROVE ActiveNews'
  BY <1>2 DEF ActiveNews, Pending
<1>3. ASSUME WillAgree PROVE WillAgree'
  BY <1>3 DEF WillAgree, Pending, On
<1> QED
  BY <1>1, <1>2, <1>3 DEF ActiveInv

LEMMA TellsActiveInv ==
  ASSUME TypeInv, NEW e, TellsTab(e) \/ TellsActive(e), ActiveInv
  PROVE  ActiveInv'
<1>1. Tells(e)
  BY DEF TellsTab, TellsActive
<1> QED
  BY <1>1, TellsOther, AsideActive DEF Tells

LEMMA JoinActive ==
  ASSUME TypeInv, NEW k \in Clients, Greeted(k) \/ Subscribes(k), ActiveInv
  PROVE  ActiveInv'
<1> SUFFICES ASSUME ~hasty' PROVE RoundOK' /\ ActiveNews' /\ WillAgree'
  BY DEF ActiveInv
<1>1. UNCHANGED <<core, table, active, up, replies, hasty>>
  BY DEF Greeted, Subscribes
<1>2. RoundOK /\ ActiveNews /\ WillAgree
  BY <1>1 DEF ActiveInv
<1>3. \A j \in Clients : \A x : Has(bus'[j], ToldActive(x)) => Has(bus[j], ToldActive(x))
  BY GreetedOther DEF Subscribes
<1>4. RoundOK'
  BY <1>1, <1>2 DEF RoundOK
<1>5. ActiveNews'
  BY <1>1, <1>2, <1>3 DEF ActiveNews, Pending
<1>6. \A j \in Clients : Pending(j)' <=> Pending(j)
  BY <1>1 DEF Pending
<1>7. CASE Greeted(k)
  <2>1. \A j \in Clients : On(j)' => On(j) /\ bus'[j] = bus[j]
    BY <1>7 DEF Greeted
  <2>2. elsewhere' = elsewhere
    BY <1>7 DEF Greeted
  <2>3. WillAgree'
    BY <1>1, <1>2, <1>6, <2>1, <2>2 DEF WillAgree
  <2> QED
    BY <1>4, <1>5, <2>3
<1>8. CASE Subscribes(k)
  <2>1. /\ \A j \in Clients : On(j)' <=> On(j) \/ j = k
        /\ bus' = bus /\ elsewhere \subseteq elsewhere'
        /\ core[k].active_tab_id = active \/ k \in elsewhere'
    BY <1>8 DEF Subscribes
  <2>2. WillAgree'
    BY <1>1, <1>2, <1>6, <2>1 DEF WillAgree
  <2> QED
    BY <1>4, <1>5, <2>2
<1> QED
  BY <1>7, <1>8

\* A client that hears which tab is active has it active.
LEMMA HearsWhat ==
  ASSUME TypeInv, NEW k \in Clients, NEW e \in Broadcasts, Hears(k, e)
  PROVE  /\ Has(bus[k], e) /\ \A x : Has(bus'[k], x) => Has(bus[k], x)
         /\ \A x : Has(bus[k], x) /\ x # e => Has(bus'[k], x)
         /\ \/ core'[k].active_tab_id = core[k].active_tab_id /\ \A t : e # ToldActive(t)
            \/ \E t \in Nat : e = ToldActive(t) /\ core'[k].active_tab_id = t
<1>1. bus[k] \in Seq(Broadcasts) /\ bus[k] # <<>> /\ bus'[k] = Tail(bus[k]) /\ e = Head(bus[k])
  BY DEF Hears, TypeInv
<1>2. Has(bus[k], e) /\ (\A x : Has(bus'[k], x) => Has(bus[k], x))
      /\ (\A x : Has(bus[k], x) /\ x # e => Has(bus'[k], x))
  BY <1>1, HasTail
<1>3. CASE e.ev = "TabActivated"
  <2>1. PICK t \in Nat : e = ToldActive(t)
    BY <1>3 DEF Broadcasts, Greeting
  <2>2. core'[k].active_tab_id = t
    BY <1>3, <2>1 DEF Hears, Relabels, ToldActive
  <2> QED
    BY <1>2, <2>1, <2>2
<1>4. CASE e.ev # "TabActivated"
  <2>1. \A t : ToldActive(t).ev = "TabActivated"
    BY DEF ToldActive
  <2>2. core'[k].active_tab_id = core[k].active_tab_id
    BY <1>4 DEF Hears, Relabels
  <2> QED
    BY <1>2, <1>4, <2>1, <2>2
<1> QED
  BY <1>3, <1>4

LEMMA HearsActive ==
  ASSUME TypeInv, NEW k \in Clients, NEW e \in Broadcasts, Hears(k, e), ActiveInv
  PROVE  ActiveInv'
<1>1. /\ UNCHANGED <<joined, table, active, up, replies, hasty, elsewhere>>
      /\ \A j \in Clients \ {k} : bus'[j] = bus[j] /\ core'[j] = core[j]
  BY DEF Hears
<1> SUFFICES ASSUME ~hasty' PROVE RoundOK' /\ ActiveNews' /\ WillAgree'
  BY DEF ActiveInv
<1>2. RoundOK /\ ActiveNews /\ WillAgree
  BY <1>1 DEF ActiveInv
<1>3. \A j \in Clients : \A x : Has(bus'[j], x) => Has(bus[j], x)
  BY <1>1, HearsWhat
<1>4. RoundOK'
  BY <1>1, <1>2 DEF RoundOK
<1>5. ActiveNews'
  BY <1>1, <1>2, <1>3 DEF ActiveNews, Pending
<1>6. WillAgree'
  <2> SUFFICES ASSUME active \in DOMAIN table, \A j \in Clients : ~Pending(j), NEW j \in Clients, On(j)
               PROVE  core'[j].active_tab_id = active \/ Has(bus'[j], ToldActive(active)) \/ j \in elsewhere
    BY <1>1 DEF WillAgree, Pending, On
  <2>1. core[j].active_tab_id = active \/ Has(bus[j], ToldActive(active)) \/ j \in elsewhere
    BY <1>2 DEF WillAgree
  <2>2. CASE j = k
    <3>1. CASE \E t \in Nat : e = ToldActive(t) /\ core'[k].active_tab_id = t
      BY <1>2, <2>2, <3>1, HearsWhat DEF ActiveNews
    <3>2. CASE core'[k].active_tab_id = core[k].active_tab_id /\ \A t : e # ToldActive(t)
      BY <2>1, <2>2, <3>2, HearsWhat
    <3> QED
      BY <3>1, <3>2, HearsWhat
  <2>3. CASE j # k
    BY <1>1, <2>1, <2>3
  <2> QED
    BY <2>2, <2>3
<1> QED
  BY <1>4, <1>5, <1>6

LEMMA ReplyActive ==
  ASSUME TypeInv, NEW k \in Clients, Reply(k), ActiveInv
  PROVE  ActiveInv'
<1> DEFINE c == core[k]
           d == core'[k]
<1>1. PICK x \in Nat :
          \/ IsTold(k, ToldCreated(x)) /\ AddsTab(c, d, x)
          \/ IsTold(k, ToldClosed(x)) /\ DropsTab(c, d, x)
          \/ IsTold(k, ToldActive(x)) /\ Relabels(c, d, ToldActive(x))
  BY ReplyIs
<1>2. PICK e : IsTold(k, e)
  BY <1>1
<1>3. UNCHANGED <<joined, table, active, up, bus, hasty, elsewhere>>
      /\ \A j \in Clients \ {k} : replies'[j] = replies[j] /\ core'[j] = core[j]
  BY <1>2 DEF IsTold
<1> SUFFICES ASSUME ~hasty' PROVE RoundOK' /\ ActiveNews' /\ WillAgree'
  BY DEF ActiveInv
<1>4. RoundOK /\ ActiveNews /\ WillAgree
  BY <1>3 DEF ActiveInv
<1>5. \A j \in Clients : \A y : Has(replies'[j], y) => Has(replies[j], y)
  BY <1>2, <1>3, ToldQueue
<1>6. RoundOK'
  <2>1. \A j \in Clients : replies[j] = <<>> => replies'[j] = <<>>
    BY <1>2, <1>3 DEF IsTold
  <2> QED
    BY <1>3, <1>4, <1>5, <2>1 DEF RoundOK
<1>7. ActiveNews'
  BY <1>3, <1>4, <1>5 DEF ActiveNews, Pending
<1>8. WillAgree'
  <2> SUFFICES ASSUME active \in DOMAIN table, \A j \in Clients : ~Pending(j), NEW j \in Clients, On(j)
               PROVE  core'[j].active_tab_id = active \/ Has(bus[j], ToldActive(active)) \/ j \in elsewhere
    BY <1>3 DEF WillAgree, Pending, On
  <2>1. core[j].active_tab_id = active \/ Has(bus[j], ToldActive(active)) \/ j \in elsewhere
    BY <1>4 DEF WillAgree
  <2>2. d.active_tab_id = c.active_tab_id \/ d.active_tab_id = active \/ c.active_tab_id # active
    <3>1. CASE IsTold(k, ToldCreated(x)) /\ AddsTab(c, d, x)
      BY <3>1 DEF AddsTab
    <3>2. CASE IsTold(k, ToldClosed(x)) /\ DropsTab(c, d, x)
      <4>1. x # active
        BY <1>4, <3>2, ToldQueue DEF RoundOK
      <4> QED
        BY <3>2, <4>1 DEF DropsTab
    <3>3. CASE IsTold(k, ToldActive(x)) /\ Relabels(c, d, ToldActive(x))
      <4>1. x = active
        BY <1>4, <3>3, ToldQueue DEF ActiveNews
      <4> QED
        BY <3>3, <4>1 DEF Relabels, ToldActive
    <3> QED
      BY <1>1, <3>1, <3>2, <3>3
  <2> QED
    BY <1>3, <2>1, <2>2
<1> QED
  BY <1>6, <1>7, <1>8

----------------------------------------------------------------------------
(* The labels *)

LEMMA LabelEmpty ==
  ASSUME NEW c, NEW f, NEW id, NEW val
  PROVE  LabelRight(c, <<>>, f, id, val) <=> TabOf(c, id)[f] = val
BY EmptyHas DEF LabelRight

LEMMA LabelSame ==
  ASSUME NEW c, NEW d, NEW q, NEW f, NEW id, NEW val, LabelRight(c, q, f, id, val),
         d.active_tab_id = c.active_tab_id, TabOf(d, id)[f] = TabOf(c, id)[f]
  PROVE  LabelRight(d, q, f, id, val)
BY DEF LabelRight

LEMMA LabelTail ==
  ASSUME NEW S, NEW q \in Seq(S), q # <<>>, NEW c, NEW d, d.active_tab_id = c.active_tab_id,
         NEW f, NEW id, NEW val, LabelRight(c, q, f, id, val),
         TabOf(d, id)[f] = IF OnLabel(Head(q), f, id, c.active_tab_id) THEN Head(q)[f] ELSE TabOf(c, id)[f]
  PROVE  LabelRight(d, Tail(q), f, id, val)
<1> DEFINE a == c.active_tab_id
           p == Tail(q)
           e == Head(q)
<1>1. /\ 1 \in DOMAIN q /\ e = q[1]
      /\ \A i \in DOMAIN p : i \in Nat /\ i + 1 \in DOMAIN q /\ p[i] = q[i + 1] /\ i >= 1
      /\ \A i \in DOMAIN q : i \in Nat /\ (i = 1 \/ (i > 1 /\ i - 1 \in DOMAIN p /\ p[i - 1] = q[i]))
  BY TailIs
<1> HIDE DEF p, e
<1>2. ASSUME \A i \in DOMAIN p : ~OnLabel(p[i], f, id, a) PROVE TabOf(d, id)[f] = val
  <2>1. ASSUME NEW i \in DOMAIN q, i > 1 PROVE ~OnLabel(q[i], f, id, a)
    <3>1. i - 1 \in DOMAIN p /\ p[i - 1] = q[i]
      BY <1>1, <2>1
    <3> QED
      BY <1>2, <3>1
  <2>2. CASE OnLabel(e, f, id, a)
    <3>1. e[f] = val
      BY <1>1, <2>1, <2>2 DEF LabelRight
    <3> QED
      BY <2>2, <3>1 DEF e
  <2>3. CASE ~OnLabel(e, f, id, a)
    <3>1. \A i \in DOMAIN q : ~OnLabel(q[i], f, id, a)
      BY <1>1, <2>1, <2>3
    <3> QED
      BY <2>3, <3>1 DEF LabelRight, e
  <2> QED
    BY <2>2, <2>3
<1>3. ASSUME NEW i \in DOMAIN p, OnLabel(p[i], f, id, a),
             \A j \in DOMAIN p : j > i => ~OnLabel(p[j], f, id, a)
      PROVE  p[i][f] = val
  <2>1. i \in Nat /\ i + 1 \in DOMAIN q /\ q[i + 1] = p[i] /\ i >= 1
    BY <1>1
  <2>2. ASSUME NEW j \in DOMAIN q, j > i + 1 PROVE ~OnLabel(q[j], f, id, a)
    <3>1. j \in Nat /\ j - 1 \in DOMAIN p /\ p[j - 1] = q[j] /\ j - 1 > i
      BY <1>1, <2>1, <2>2
    <3> QED
      BY <1>3, <3>1
  <2> QED
    BY <1>3, <2>1, <2>2 DEF LabelRight
<1> QED
  BY <1>2, <1>3 DEF LabelRight, p

LEMMA LabelOther ==
  ASSUME NEW S, NEW q \in Seq(S), NEW r \in Seq(S), NEW c, NEW f, NEW id, NEW val,
         LabelRight(c, q, f, id, val), \A i \in DOMAIN r : ~OnLabel(r[i], f, id, c.active_tab_id)
  PROVE  LabelRight(c, q \o r, f, id, val)
<1> DEFINE a == c.active_tab_id
           p == q \o r
<1>1. /\ \A i \in DOMAIN q : i \in DOMAIN p /\ p[i] = q[i]
      /\ \A i \in DOMAIN p : i \in DOMAIN q \/ \E j \in DOMAIN r : p[i] = r[j]
  BY ConcatIs
<1> HIDE DEF p
<1>2. \A i \in DOMAIN p : OnLabel(p[i], f, id, a) => i \in DOMAIN q
  BY <1>1
<1>3. ASSUME \A i \in DOMAIN p : ~OnLabel(p[i], f, id, a) PROVE TabOf(c, id)[f] = val
  BY <1>1, <1>3 DEF LabelRight
<1>4. ASSUME NEW i \in DOMAIN p, OnLabel(p[i], f, id, a),
             \A j \in DOMAIN p : j > i => ~OnLabel(p[j], f, id, a)
      PROVE  p[i][f] = val
  BY <1>1, <1>2, <1>4 DEF LabelRight
<1> QED
  BY <1>3, <1>4 DEF LabelRight, p

LEMMA LabelLast ==
  ASSUME NEW S, NEW q \in Seq(S), NEW r \in Seq(S), NEW c, NEW f, NEW id, NEW val,
         \E i \in DOMAIN r : OnLabel(r[i], f, id, c.active_tab_id),
         \A i \in DOMAIN r : OnLabel(r[i], f, id, c.active_tab_id) => r[i][f] = val
  PROVE  LabelRight(c, q \o r, f, id, val)
<1> DEFINE a == c.active_tab_id
           p == q \o r
<1>1. PICK n \in DOMAIN r : OnLabel(r[n], f, id, a)
  OBVIOUS
<1>2. /\ Len(q) \in Nat /\ DOMAIN q = 1..Len(q) /\ n \in Nat /\ n >= 1
      /\ Len(q) + n \in DOMAIN p /\ p[Len(q) + n] = r[n]
      /\ \A i \in DOMAIN p : i \in DOMAIN q \/ \E j \in DOMAIN r : p[i] = r[j]
  BY ConcatIs
<1> HIDE DEF p
<1>3. ~(\A i \in DOMAIN p : ~OnLabel(p[i], f, id, a))
  BY <1>1, <1>2
<1>4. ASSUME NEW i \in DOMAIN p, OnLabel(p[i], f, id, a),
             \A j \in DOMAIN p : j > i => ~OnLabel(p[j], f, id, a)
      PROVE  p[i][f] = val
  <2>1. i \notin DOMAIN q
    BY <1>1, <1>2, <1>4
  <2> QED
    BY <1>2, <1>4, <2>1
<1> QED
  BY <1>3, <1>4 DEF LabelRight, p

\* What is put right is the labels told of.
LEMMA MendedHas ==
  ASSUME NEW k, NEW id, NEW f, <<k, id, f>> \in amiss, NEW t, NEW fs, ~(id = t /\ f \in fs)
  PROVE  <<k, id, f>> \in Mended(t, fs)
BY DEF Mended

LEMMA UserLabels ==
  ASSUME TypeInv, NEW k \in Clients, NEW out, UserDoes(k, out), TabsInv(k), LabelsInv(k)
  PROVE  LabelsInv(k)'
<1> SUFFICES ASSUME ~hasty' PROVE FrontOK(k)' /\ LabelsOK(k)'
  BY DEF LabelsInv
<1> DEFINE c == core[k]
           d == core'[k]
<1>1. /\ ~hasty /\ ~UnderWay /\ up'[k] = out
      /\ up[k] = <<>> /\ bus'[k] = <<>> /\ replies'[k] = <<>>
  BY UserAsks
<1>2. /\ CoreOK(c) /\ c.active_tab_id \in Nat /\ Asks(c, d, out)
      /\ UNCHANGED <<joined, table, active, bus, page, amiss>>
  BY DEF TypeInv, UserDoes
<1>3. ~Pending(k) /\ bus[k] = <<>>
  BY <1>1, SettledIs
<1>4. FrontOK(k) /\ LabelsOK(k)
  BY <1>1 DEF LabelsInv
<1>5. FrontOK(k)'
  <2>1. ~Activating(out) => d.active_tab_id = active
    BY <1>2, <1>3, <1>4, AsksFront DEF FrontOK
  <2>2. \A t : Activates(out, t) => d.active_tab_id = t
    BY <1>2, AsksFront
  <2>3. \A t : Has(out, Closed(t)) => d.active_tab_id # t
    BY <1>2, AsksFront
  <2>4. \A t : Has(out, Created(t, Home)) => t \in Ids(d)
    BY <1>2, AsksWhat
  <2>5. \A e : ~Has(replies'[k], e)
    BY <1>1, EmptyHas
  <2> QED
    BY <1>1, <1>2, <2>1, <2>2, <2>3, <2>4, <2>5 DEF FrontOK, Pending
<1>6. LabelsOK(k)'
  <2> SUFFICES ASSUME On(k), NEW id \in Ids(d) \cap DOMAIN table, NEW f \in Labels, ~Excused(k, id, f)'
               PROVE  LabelRight(d, <<>>, f, id, table[id][f])
    BY <1>1, <1>2 DEF LabelsOK, On
  <2>1. id \in Ids(c)
    <3>1. id \notin Ids(c) => id = c.next_tab_id
      BY <1>2, AsksWhat
    <3>2. c.next_tab_id \notin opened
      BY UserNew
    <3> QED
      BY <3>1, <3>2 DEF TypeInv
  <2>2. LabelRight(c, <<>>, f, id, table[id][f])
    <3>1. ~Excused(k, id, f)
      BY <1>2, <1>3 DEF Excused
    <3> QED
      BY <1>3, <1>4, <2>1, <3>1 DEF LabelsOK
  <2>3. TabOf(d, id)[f] = TabOf(c, id)[f]
    BY <1>2, <2>1 DEF Asks, LabelsKept
  <2> QED
    BY <2>2, <2>3, LabelEmpty
<1> QED
  BY <1>5, <1>6

\* A tab that is announced is right in what is published.
LEMMA AnnouncedRight ==
  ASSUME NEW q \in Seq(Broadcasts), NEW c, NEW t \in Nat, t = c.active_tab_id, NEW tab, LabelsTyped(tab),
         NEW f \in Labels
  PROVE  LabelRight(c, q \o Announcement(t, tab), f, t, tab[f])
<1> DEFINE a == Announcement(t, tab)
           e1 == [ev |-> "Title", title |-> tab.title]
           e2 == [ev |-> "UrlChanged", url |-> tab.url]
           e3 == ToldActive(t)
<1>1. a \in Seq(Broadcasts) /\ DOMAIN a = {1, 2, 3} /\ a[1] = e1 /\ a[2] = e2 /\ a[3] = e3
  <2>1. a \in Seq(Broadcasts) /\ DOMAIN a = 1..3 /\ a[1] = e1 /\ a[2] = e2 /\ a[3] = e3
    BY AnnouncementIs
  <2> HIDE DEF a, e1, e2, e3
  <2> QED
    BY <2>1
<1>2. /\ e1.ev = "Title" /\ e1["title"] = tab["title"] /\ e2.ev = "UrlChanged" /\ e2["url"] = tab["url"]
      /\ e3.ev = "TabActivated"
  BY DEF ToldActive
<1> HIDE DEF a, e1, e2, e3
<1>3. CASE f = "title"
  <2>1. OnLabel(a[1], f, t, c.active_tab_id) /\ a[1][f] = tab[f]
    BY <1>1, <1>2, <1>3 DEF OnLabel, OfActive, Labels
  <2>2. \A i \in DOMAIN a : OnLabel(a[i], f, t, c.active_tab_id) => i = 1
    BY <1>1, <1>2, <1>3 DEF OnLabel, OfTab, OfActive, Labels
  <2> QED
    BY <1>1, <2>1, <2>2, LabelLast DEF a
<1>4. CASE f = "url"
  <2>1. OnLabel(a[2], f, t, c.active_tab_id) /\ a[2][f] = tab[f]
    BY <1>1, <1>2, <1>4 DEF OnLabel, OfActive, Labels
  <2>2. \A i \in DOMAIN a : OnLabel(a[i], f, t, c.active_tab_id) => i = 2
    BY <1>1, <1>2, <1>4 DEF OnLabel, OfTab, OfActive, Labels
  <2> QED
    BY <1>1, <2>1, <2>2, LabelLast DEF a
<1> QED
  BY <1>3, <1>4 DEF Labels

LEMMA AnnouncedOther ==
  ASSUME NEW q \in Seq(Broadcasts), NEW c, NEW t \in Nat, t = c.active_tab_id, NEW tab, LabelsTyped(tab),
         NEW f \in Labels, NEW id, id # t, NEW val, LabelRight(c, q, f, id, val)
  PROVE  LabelRight(c, q \o Announcement(t, tab), f, id, val)
<1> DEFINE a == Announcement(t, tab)
           e1 == [ev |-> "Title", title |-> tab.title]
           e2 == [ev |-> "UrlChanged", url |-> tab.url]
           e3 == ToldActive(t)
<1>1. a \in Seq(Broadcasts) /\ DOMAIN a = {1, 2, 3} /\ a[1] = e1 /\ a[2] = e2 /\ a[3] = e3
  <2>1. a \in Seq(Broadcasts) /\ DOMAIN a = 1..3 /\ a[1] = e1 /\ a[2] = e2 /\ a[3] = e3
    BY AnnouncementIs
  <2> HIDE DEF a, e1, e2, e3
  <2> QED
    BY <2>1
<1>2. e1.ev = "Title" /\ e2.ev = "UrlChanged" /\ e3.ev = "TabActivated"
  BY DEF ToldActive
<1> HIDE DEF a, e1, e2, e3
<1>3. \A i \in DOMAIN a : ~OnLabel(a[i], f, id, c.active_tab_id)
  BY <1>1, <1>2 DEF OnLabel, OfTab, Labels
<1> QED
  BY <1>1, <1>3, LabelOther DEF a

LEMMA CreatesLabels ==
  ASSUME TypeInv, NEW k \in Clients, NEW x \in Nat, Creates(k, x), ActiveInv, LabelsInv(k)
  PROVE  LabelsInv(k)'
<1> SUFFICES ASSUME ~hasty' PROVE FrontOK(k)' /\ LabelsOK(k)'
  BY DEF LabelsInv
<1> DEFINE m == Created(x, Home)
           c == core[k]
<1>1. /\ Answers(k, m, ToldCreated(x)) /\ active' = x /\ DOMAIN table' = DOMAIN table \cup {x}
      /\ \A y \in DOMAIN table \ {x} : table'[y] = table[y]
  BY DEF Creates
<1>2. ~hasty /\ UNCHANGED <<core, joined, page>> /\ amiss' = Mended(x, Labels)
  BY <1>1 DEF Answers, Creates
<1>3. RoundOK /\ FrontOK(k) /\ LabelsOK(k)
  BY <1>2 DEF ActiveInv, LabelsInv
<1>4. Has(up[k], m)
  BY <1>1, AnsweredQueues
<1>5. c.active_tab_id = x /\ x \in Ids(c) /\ Pending(k)
  BY <1>3, <1>4, PendingIs DEF FrontOK, Activates
<1>6. up'[k] = <<>>
  <2>1. \A t : m = Created(t, Home) => \A j \in Clients : up'[j] = <<>>
    BY <1>1, <1>3, RoundAnswered
  <2> QED
    BY <2>1
<1>7. \A e : Has(replies'[k], e) => e = ToldCreated(x)
  <2>1. \A e : ~Has(replies[k], e)
    BY <1>3, <1>4, EmptyHas DEF RoundOK
  <2>2. \A e : Has(replies'[k], e) <=> Has(replies[k], e) \/ e = ToldCreated(x)
    BY <1>1, AnsweredReplies
  <2> QED
    BY <2>1, <2>2
<1>8. FrontOK(k)'
  <2>1. \A e : ~Has(up'[k], e)
    BY <1>6, EmptyHas
  <2> QED
    BY <1>1, <1>2, <1>5, <1>7, <2>1, ReplyKinds DEF FrontOK, Pending, Activates
<1>9. LabelsOK(k)'
  <2> SUFFICES ASSUME NEW id \in Ids(c) \cap DOMAIN table', NEW f \in Labels, ~Excused(k, id, f)'
               PROVE  LabelRight(c, bus'[k], f, id, table'[id][f])
    BY <1>2 DEF LabelsOK
  <2>1. /\ LabelsTyped(table'[x]) /\ bus[k] \in Seq(Broadcasts)
        /\ bus'[k] = bus[k] \o Announcement(x, table'[x])
    BY <1>1, PublishType DEF Creates, TypeInv, Answers
  <2>2. CASE id = x
    BY <1>5, <2>1, <2>2, AnnouncedRight
  <2>3. CASE id # x
    <3>1. LabelRight(c, bus[k], f, id, table[id][f]) /\ table'[id] = table[id]
      <4>1. ~Excused(k, id, f)
        BY <1>2, <1>5, <2>3, MendedHas DEF Excused
      <4> QED
        BY <1>1, <1>3, <2>3, <4>1 DEF LabelsOK, Answers
    <3> QED
      BY <1>5, <2>1, <2>3, <3>1, AnnouncedOther
  <2> QED
    BY <2>2, <2>3
<1> QED
  BY <1>8, <1>9

LEMMA ClosesLabels ==
  ASSUME TypeInv, NEW k \in Clients, NEW x \in Nat, Closes(k, x), ActiveInv, LabelsInv(k)
  PROVE  LabelsInv(k)'
<1> SUFFICES ASSUME ~hasty' PROVE FrontOK(k)' /\ LabelsOK(k)'
  BY DEF LabelsInv
<1> DEFINE m == Closed(x)
           c == core[k]
<1>1. /\ Answers(k, m, ToldClosed(x)) /\ DOMAIN table' = DOMAIN table \ {x}
      /\ \A y \in DOMAIN table' : table'[y] = table[y]
  BY DEF Closes
<1>2. ~hasty /\ UNCHANGED <<core, joined, page, amiss, active, bus>>
  BY <1>1 DEF Answers, Closes
<1>3. FrontOK(k) /\ LabelsOK(k)
  BY <1>2 DEF LabelsInv
<1>4. Has(up[k], m) /\ \A e : Has(up'[k], e) => Has(up[k], e)
  BY <1>1, AnsweredQueues
<1>5. \A e : Has(up[k], e) /\ e # m => Has(up'[k], e)
  BY <1>1, AnsweredQueues
<1>6. \A e : Has(replies'[k], e) <=> Has(replies[k], e) \/ e = ToldClosed(x)
  BY <1>1, AnsweredReplies
<1>7. Pending(k)' <=> Pending(k)
  BY <1>4, <1>5, Kinds DEF Pending, Activating, Activates
<1>8. FrontOK(k)'
  <2>1. Pending(k)' \/ c.active_tab_id = active
    BY <1>3, <1>7 DEF FrontOK
  <2>2. \A t \in Nat : Activates(up'[k], t) => c.active_tab_id = t
    BY <1>3, <1>4 DEF FrontOK, Activates
  <2>3. \A t \in Nat : Has(up'[k], Closed(t)) \/ Has(replies'[k], ToldClosed(t)) => c.active_tab_id # t
    BY <1>3, <1>4, <1>6, ReplyKinds DEF FrontOK
  <2>4. \A t \in Nat : Has(replies'[k], ToldCreated(t)) \/ Has(up'[k], Created(t, Home)) => t \in Ids(c)
    BY <1>3, <1>4, <1>6, ReplyKinds DEF FrontOK
  <2> QED
    BY <1>2, <2>1, <2>2, <2>3, <2>4 DEF FrontOK
<1>9. LabelsOK(k)'
  <2> SUFFICES ASSUME On(k), NEW id \in Ids(c) \cap DOMAIN table', NEW f \in Labels, ~Excused(k, id, f)'
               PROVE  LabelRight(c, bus[k], f, id, table'[id][f])
    BY <1>2 DEF LabelsOK, On
  <2>1. ~Excused(k, id, f)
    BY <1>2, <1>7 DEF Excused
  <2> QED
    BY <1>1, <1>3, <2>1 DEF LabelsOK
<1> QED
  BY <1>8, <1>9

LEMMA SwitchesLabels ==
  ASSUME TypeInv, NEW k \in Clients, NEW x \in Nat, Switches(k, x), ActiveInv, LabelsInv(k)
  PROVE  LabelsInv(k)'
<1> SUFFICES ASSUME ~hasty' PROVE FrontOK(k)' /\ LabelsOK(k)'
  BY DEF LabelsInv
<1> DEFINE m == Switched(x)
           c == core[k]
<1>1. Answers(k, m, ToldActive(x)) /\ active' = x /\ UNCHANGED table
  BY DEF Switches
<1>2. ~hasty /\ UNCHANGED <<core, joined, page>>
  BY <1>1 DEF Answers
<1>3. RoundOK /\ FrontOK(k) /\ LabelsOK(k)
  BY <1>2 DEF ActiveInv, LabelsInv
<1>4. Has(up[k], m)
  BY <1>1, AnsweredQueues
<1>5. c.active_tab_id = x
  BY <1>3, <1>4 DEF FrontOK, Activates
<1>6. up'[k] = <<>>
  <2>1. \A t : m = Switched(t) => \A j \in Clients : up'[j] = <<>>
    BY <1>1, <1>3, RoundAnswered
  <2> QED
    BY <2>1
<1>7. \A e : Has(replies'[k], e) <=> Has(replies[k], e) \/ e = ToldActive(x)
  BY <1>1, AnsweredReplies
<1>8. FrontOK(k)'
  <2>1. \A e : ~Has(up'[k], e)
    BY <1>6, EmptyHas
  <2> QED
    BY <1>1, <1>2, <1>3, <1>5, <1>7, <2>1, ReplyKinds DEF FrontOK, Pending, Activates
<1>9. LabelsOK(k)'
  <2> SUFFICES ASSUME NEW id \in Ids(c) \cap DOMAIN table, NEW f \in Labels, ~Excused(k, id, f)'
               PROVE  LabelRight(c, bus'[k], f, id, table[id][f])
    BY <1>1, <1>2 DEF LabelsOK
  <2>1. bus[k] \in Seq(Broadcasts)
    BY DEF TypeInv
  <2>2. id # x => LabelRight(c, bus[k], f, id, table[id][f])
    <3> SUFFICES ASSUME id # x PROVE ~Excused(k, id, f)
      BY <1>1, <1>3 DEF LabelsOK, Answers
    <3> QED
      BY <1>2, <1>5, MendedHas DEF Excused, Switches
  <2>3. CASE x \in DOMAIN table
    <3>1. LabelsTyped(table[x]) /\ bus'[k] = bus[k] \o Announcement(x, table[x])
      BY <1>1, <2>3, PublishType DEF Switches, TypeInv, Answers
    <3>2. CASE id = x
      BY <1>5, <2>1, <3>1, <3>2, AnnouncedRight
    <3>3. CASE id # x
      BY <1>5, <2>1, <2>2, <3>1, <3>3, AnnouncedOther
    <3> QED
      BY <3>2, <3>3
  <2>4. CASE x \notin DOMAIN table
    <3>1. bus'[k] = bus[k] \o <<>>
      BY <1>1, <2>4, PublishType DEF Switches, Answers
    <3>2. bus'[k] = bus[k]
      BY <2>1, <3>1, ConcatEmptySeq
    <3> QED
      BY <2>2, <2>4, <3>2
  <2> QED
    BY <2>3, <2>4
<1> QED
  BY <1>8, <1>9

\* The loop stores a label: until it tells of it, the client may not know.
LEMMA StoresLabels ==
  ASSUME NEW k \in Clients, NEW t, NEW f, NEW val, Stores(t, f, val), LabelsInv(k)
  PROVE  LabelsInv(k)'
<1> SUFFICES ASSUME ~hasty' PROVE FrontOK(k)' /\ LabelsOK(k)'
  BY DEF LabelsInv
<1> DEFINE c == core[k]
<1>1. /\ UNCHANGED <<core, joined, active, up, bus, replies, hasty, amiss>> /\ DOMAIN table' = DOMAIN table
      /\ page.at = "idle" /\ page' = PageOf("stored", t, f, val)
  BY DEF Stores
<1>2. FrontOK(k) /\ LabelsOK(k)
  BY <1>1 DEF LabelsInv
<1>3. FrontOK(k)'
  BY <1>1, <1>2 DEF FrontOK, Pending
<1>4. LabelsOK(k)'
  <2> SUFFICES ASSUME On(k), NEW id \in Ids(c) \cap DOMAIN table, NEW g \in Labels, ~Excused(k, id, g)'
               PROVE  LabelRight(c, bus[k], g, id, table'[id][g])
    BY <1>1 DEF LabelsOK, On
  <2>1. ~Excused(k, id, g) /\ ~(id = t /\ g = f)
    BY <1>1 DEF Excused, Pending, PageOf
  <2>2. table'[id][g] = table[id][g]
    BY <2>1 DEF Stores
  <2> QED
    BY <1>2, <2>1, <2>2 DEF LabelsOK
<1> QED
  BY <1>3, <1>4

\* It tells of it as news of that tab ...
LEMMA TellsTabLabels ==
  ASSUME TypeInv, NEW k \in Clients, NEW e, TellsTab(e), PageOK, LabelsInv(k)
  PROVE  LabelsInv(k)'
<1> SUFFICES ASSUME ~hasty' PROVE FrontOK(k)' /\ LabelsOK(k)'
  BY DEF LabelsInv
<1> DEFINE c == core[k]
           t == page.tab
           f == page.f
<1>1. /\ UNCHANGED <<core, joined, table, active, up, replies, hasty>>
      /\ page.at = "stored" /\ page'.at = "told" /\ amiss' = Mended(t, {f})
      /\ e \in Broadcasts /\ e.ev = OfTab[f] /\ e.id = t /\ e[f] = page.val /\ Publishes(<<e>>)
  BY DEF TellsTab, Tells, PageOf
<1>2. FrontOK(k) /\ LabelsOK(k)
  BY <1>1 DEF LabelsInv
<1>3. FrontOK(k)'
  BY <1>1, <1>2 DEF FrontOK, Pending
<1>4. f \in Labels
  BY DEF TypeInv, PageType, PageOf
<1>5. LabelsOK(k)'
  <2> SUFFICES ASSUME On(k), NEW id \in Ids(c) \cap DOMAIN table, NEW g \in Labels, ~Excused(k, id, g)'
               PROVE  LabelRight(c, bus'[k], g, id, table[id][g])
    BY <1>1 DEF LabelsOK, On
  <2>1. bus[k] \in Seq(Broadcasts) /\ bus'[k] = bus[k] \o <<e>>
    BY <1>1, PublishType DEF TypeInv
  <2>2. <<e>> \in Seq(Broadcasts) /\ DOMAIN <<e>> = {1} /\ <<e>>[1] = e
    BY <1>1, SingleIs
  <2> DEFINE r == <<e>>
  <2> HIDE DEF r
  <2>3. CASE id = t /\ g = f
    <3>1. OnLabel(e, g, id, c.active_tab_id) /\ e[g] = table[id][g]
      BY <1>1, <2>3 DEF OnLabel, PageOK
    <3> QED
      BY <2>1, <2>2, <3>1, LabelLast DEF r
  <2>4. CASE ~(id = t /\ g = f)
    <3>1. ~Excused(k, id, g)
      BY <1>1, <2>4, MendedHas DEF Excused, Pending
    <3>2. LabelRight(c, bus[k], g, id, table[id][g])
      BY <1>2, <3>1 DEF LabelsOK
    <3>3. ~OnLabel(e, g, id, c.active_tab_id)
      BY <1>1, <1>4, <2>4 DEF OnLabel, OfTab, OfActive, Labels
    <3> QED
      BY <2>1, <2>2, <3>2, <3>3, LabelOther DEF r
  <2> QED
    BY <2>3, <2>4
<1> QED
  BY <1>3, <1>5

\* ... and as news of the active one, which may be another by then.
LEMMA TellsActiveLabels ==
  ASSUME TypeInv, NEW k \in Clients, NEW e, TellsActive(e), PageOK, LabelsInv(k)
  PROVE  LabelsInv(k)'
<1> SUFFICES ASSUME ~hasty' PROVE FrontOK(k)' /\ LabelsOK(k)'
  BY DEF LabelsInv
<1> DEFINE c == core[k]
           f == page.f
<1>1. /\ UNCHANGED <<core, joined, table, active, up, replies, hasty>>
      /\ page.at = "active"
      /\ e \in Broadcasts /\ e.ev \in OfActive[f] /\ e[f] = page.val /\ Publishes(<<e>>)
  BY DEF TellsActive, Tells
<1>2. FrontOK(k) /\ LabelsOK(k)
  BY <1>1 DEF LabelsInv
<1>3. FrontOK(k)'
  BY <1>1, <1>2 DEF FrontOK, Pending
<1>4. f \in Labels
  BY DEF TypeInv, PageType, PageOf
<1>5. amiss \subseteq amiss' /\ (active # page.tab /\ On(k) => <<k, active, f>> \in amiss')
  BY DEF TellsActive
<1>6. LabelsOK(k)'
  <2> SUFFICES ASSUME On(k), NEW id \in Ids(c) \cap DOMAIN table, NEW g \in Labels, ~Excused(k, id, g)'
               PROVE  LabelRight(c, bus'[k], g, id, table[id][g])
    BY <1>1 DEF LabelsOK, On
  <2>1. bus[k] \in Seq(Broadcasts) /\ bus'[k] = bus[k] \o <<e>>
    BY <1>1, PublishType DEF TypeInv
  <2>2. <<e>> \in Seq(Broadcasts) /\ DOMAIN <<e>> = {1} /\ <<e>>[1] = e
    BY <1>1, SingleIs
  <2> DEFINE r == <<e>>
  <2> HIDE DEF r
  <2>3. CASE id = c.active_tab_id /\ g = f
    <3>1. ~Pending(k)
      BY <1>1, <2>3 DEF Excused, Pending
    <3>2. id = active
      BY <1>2, <2>3, <3>1 DEF FrontOK
    <3>3. active = page.tab
      BY <1>5, <2>3, <3>2 DEF Excused
    <3>4. OnLabel(e, g, id, c.active_tab_id) /\ e[g] = table[id][g]
      BY <1>1, <2>3, <3>2, <3>3 DEF OnLabel, PageOK
    <3> QED
      BY <2>1, <2>2, <3>4, LabelLast DEF r
  <2>4. CASE ~(id = c.active_tab_id /\ g = f)
    <3>1. ~Excused(k, id, g)
      BY <1>1, <1>5 DEF Excused, Pending
    <3>2. LabelRight(c, bus[k], g, id, table[id][g])
      BY <1>2, <3>1 DEF LabelsOK
    <3>3. ~OnLabel(e, g, id, c.active_tab_id)
      BY <1>1, <1>4, <2>4 DEF OnLabel, OfTab, OfActive, Labels
    <3> QED
      BY <2>1, <2>2, <3>2, <3>3, LabelOther DEF r
  <2> QED
    BY <2>3, <2>4
<1> QED
  BY <1>3, <1>6

\* A client that starts to get what is published may have wrong what it has not
\* been told.
LEMMA SubscribesLabels ==
  ASSUME TypeInv, JoinOK, NEW k \in Clients, Subscribes(k), LabelsInv(k)
  PROVE  LabelsInv(k)'
<1> SUFFICES ASSUME ~hasty' PROVE FrontOK(k)' /\ LabelsOK(k)'
  BY DEF LabelsInv
<1> DEFINE c == core[k]
           d == IF bus[k] = <<>> THEN c ELSE handle_render_event(c, Head(bus[k]))
<1>1. UNCHANGED <<core, table, active, up, bus, replies, hasty>> /\ Wrong(k) \subseteq amiss'
  BY DEF Subscribes
<1>2. FrontOK(k)'
  BY <1>1 DEF FrontOK, Pending, LabelsInv
<1>3. ASSUME NEW id \in Ids(c) \cap DOMAIN table, NEW f \in Labels, ~Excused(k, id, f)'
      PROVE  LabelRight(c, bus[k], f, id, table[id][f])
  <2>1. id \in Ids(d) => TabOf(d, id)[f] = table[id][f]
    <3>1. <<k, id, f>> \notin Wrong(k)
      BY <1>1, <1>3 DEF Excused
    <3> HIDE DEF d
    <3>2. Wrong(k) = {x \in {k} \X (Ids(d) \cap DOMAIN table) \X Labels :
                          TabOf(d, x[2])[x[3]] # table[x[2]][x[3]]}
      BY DEF Wrong, d
    <3> QED
      BY <3>1, <3>2
  <2>2. CASE bus[k] = <<>>
    BY <2>1, <2>2, LabelEmpty
  <2>3. CASE bus[k] # <<>>
    <3>1. PICK url \in Urls : bus[k] = <<Greeting(url)>>
      BY <2>3 DEF JoinOK, Subscribes
    <3> DEFINE e == Greeting(url)
    <3>2. e \in Broadcasts
      BY DEF Broadcasts
    <3> HIDE DEF e
    <3>3. Head(bus[k]) = e /\ DOMAIN bus[k] = {1} /\ bus[k][1] = e
      BY <3>1, SingleIs, SingleTail DEF e
    <3>4. Relabels(c, d, e)
      BY <2>3, <3>2, <3>3, HeardIs DEF TypeInv
    <3> HIDE DEF d
    <3>5. table[id][f] = IF OnLabel(e, f, id, c.active_tab_id) THEN e[f] ELSE TabOf(c, id)[f]
      BY <2>1, <3>4 DEF Relabels
    <3> QED
      BY <3>3, <3>5 DEF LabelRight
  <2> QED
    BY <2>2, <2>3
<1> QED
  BY <1>1, <1>2, <1>3 DEF LabelsOK

LEMMA HearsLabels ==
  ASSUME TypeInv, NEW k \in Clients, NEW e \in Broadcasts, Hears(k, e), ActiveInv, LabelsInv(k)
  PROVE  LabelsInv(k)'
<1> SUFFICES ASSUME ~hasty' PROVE FrontOK(k)' /\ LabelsOK(k)'
  BY DEF LabelsInv
<1> DEFINE c == core[k]
           d == core'[k]
<1>1. UNCHANGED <<joined, table, active, up, replies, hasty, page, amiss>>
  BY DEF Hears
<1>2. ActiveNews /\ FrontOK(k) /\ LabelsOK(k)
  BY <1>1 DEF ActiveInv, LabelsInv
<1>3. bus[k] \in Seq(Broadcasts) /\ bus[k] # <<>> /\ bus'[k] = Tail(bus[k]) /\ e = Head(bus[k])
  BY DEF Hears, TypeInv
<1>4. d.active_tab_id = c.active_tab_id
  <2>1. CASE \E t \in Nat : e = ToldActive(t) /\ d.active_tab_id = t
    <3>1. PICK t \in Nat : e = ToldActive(t) /\ d.active_tab_id = t
      BY <2>1
    <3>2. Has(bus[k], ToldActive(t))
      BY <3>1, HearsWhat
    <3>3. t = active /\ ~Pending(k)
      BY <1>2, <3>2 DEF ActiveNews
    <3> QED
      BY <1>2, <3>1, <3>3 DEF FrontOK
  <2> QED
    BY <2>1, HearsWhat
<1>5. /\ Ids(d) = Ids(c)
      /\ \A x \in Ids(c), f \in Labels :
             TabOf(d, x)[f] = IF OnLabel(e, f, x, c.active_tab_id) THEN e[f] ELSE TabOf(c, x)[f]
  BY DEF Hears, Relabels
<1>6. FrontOK(k)'
  BY <1>1, <1>2, <1>4, <1>5 DEF FrontOK, Pending
<1>7. LabelsOK(k)'
  <2> SUFFICES ASSUME On(k), NEW id \in Ids(c) \cap DOMAIN table, NEW f \in Labels, ~Excused(k, id, f)
               PROVE  LabelRight(d, bus'[k], f, id, table[id][f])
    BY <1>1, <1>4, <1>5 DEF LabelsOK, Pending, Excused, On
  <2>1. LabelRight(c, bus[k], f, id, table[id][f])
    BY <1>2 DEF LabelsOK
  <2>2. TabOf(d, id)[f] = IF OnLabel(Head(bus[k]), f, id, c.active_tab_id)
                          THEN Head(bus[k])[f] ELSE TabOf(c, id)[f]
    BY <1>3, <1>5
  <2> HIDE DEF c, d
  <2> QED
    BY <1>3, <1>4, <2>1, <2>2, LabelTail
<1> QED
  BY <1>6, <1>7

\* The front of a client stays as it was when it is told of a tab.
LEMMA ToldFront ==
  ASSUME TypeInv, NEW k \in Clients, NEW e, IsTold(k, e), FrontOK(k),
         core'[k].active_tab_id = core[k].active_tab_id,
         \A t \in Nat : Has(replies[k], ToldCreated(t)) \/ Has(up[k], Created(t, Home)) =>
             t \in Ids(core'[k])
  PROVE  FrontOK(k)'
<1>1. UNCHANGED <<active, up>> /\ \A x : Has(replies'[k], x) => Has(replies[k], x)
  BY ToldQueue DEF IsTold
<1> QED
  BY <1>1 DEF FrontOK, Pending

\* And the labels, but of a tab whose label is put back.
LEMMA ToldLabels ==
  ASSUME NEW k \in Clients, NEW e, IsTold(k, e), LabelsOK(k),
         core'[k].active_tab_id = core[k].active_tab_id, Ids(core'[k]) \subseteq Ids(core[k]),
         \A x \in Ids(core'[k]), f \in Labels :
             <<k, x, f>> \in amiss' \/ TabOf(core'[k], x)[f] = TabOf(core[k], x)[f]
  PROVE  LabelsOK(k)'
<1> DEFINE c == core[k]
           d == core'[k]
<1>1. UNCHANGED <<joined, table, up, bus, page>> /\ amiss \subseteq amiss'
  BY DEF IsTold
<1> SUFFICES ASSUME On(k), NEW id \in Ids(d) \cap DOMAIN table, NEW f \in Labels, ~Excused(k, id, f)'
             PROVE  LabelRight(d, bus[k], f, id, table[id][f])
  BY <1>1 DEF LabelsOK, On
<1>2. LabelRight(c, bus[k], f, id, table[id][f])
  <2>1. ~Excused(k, id, f)
    BY <1>1 DEF Excused, Pending
  <2> QED
    BY <2>1 DEF LabelsOK
<1>3. TabOf(d, id)[f] = TabOf(c, id)[f]
  BY DEF Excused
<1> HIDE DEF c, d
<1> QED
  BY <1>2, <1>3, LabelSame DEF c, d

LEMMA ReplyLabels ==
  ASSUME TypeInv, NEW k \in Clients, Reply(k), ActiveInv, LabelsInv(k)
  PROVE  LabelsInv(k)'
<1> DEFINE c == core[k]
           d == core'[k]
<1>1. PICK x \in Nat :
          \/ IsTold(k, ToldCreated(x)) /\ AddsTab(c, d, x)
          \/ IsTold(k, ToldClosed(x)) /\ DropsTab(c, d, x)
          \/ IsTold(k, ToldActive(x)) /\ Relabels(c, d, ToldActive(x))
  BY ReplyIs
<1>2. UNCHANGED <<table, active, up, bus, hasty>>
  BY <1>1 DEF IsTold
<1> SUFFICES ASSUME ~hasty' PROVE FrontOK(k)' /\ LabelsOK(k)'
  BY DEF LabelsInv
<1>3. RoundOK /\ ActiveNews /\ FrontOK(k) /\ LabelsOK(k)
  BY <1>2 DEF ActiveInv, LabelsInv
<1>4. CASE IsTold(k, ToldCreated(x)) /\ AddsTab(c, d, x)
  <2>1. Has(replies[k], ToldCreated(x))
    BY <1>4, ToldQueue
  <2>2. x \in Ids(c)
    BY <1>3, <2>1 DEF FrontOK
  <2>3. Ids(d) = Ids(c) /\ d.active_tab_id = c.active_tab_id
    BY <1>4, <2>2 DEF AddsTab
  <2>4. \A t \in Nat : Has(replies[k], ToldCreated(t)) \/ Has(up[k], Created(t, Home)) => t \in Ids(d)
    BY <1>3, <2>3 DEF FrontOK
  <2>5. FrontOK(k)'
    BY <1>3, <1>4, <2>3, <2>4, ToldFront
  <2>6. ASSUME NEW y \in Ids(d), NEW f \in Labels, <<k, y, f>> \notin amiss'
        PROVE  TabOf(d, y)[f] = TabOf(c, y)[f]
    <3>1. y # x => TabOf(d, y)[f] = TabOf(c, y)[f]
      BY <1>4, <2>3 DEF AddsTab
    <3>2. CASE y = x
      <4> DEFINE e == ToldCreated(x)
      <4>1. e.ev = "TabCreated" /\ e.id = x /\ e["title"] = "New Tab" /\ e["url"] = Home
        BY DEF ToldCreated
      <4> HIDE DEF e
      <4>2. Undone(k, e) \subseteq amiss'
        BY <1>4 DEF IsTold, e
      <4>3. TabOf(c, x)[f] = e[f]
        BY <2>2, <2>6, <3>2, <4>1, <4>2 DEF Undone
      <4>4. e[f] = NewTabLabels[f]
        <5>1. NewTabLabels["title"] = "New Tab" /\ NewTabLabels["url"] = Home
          BY DEF NewTabLabels
        <5>2. f = "title" \/ f = "url"
          BY DEF Labels
        <5> QED
          BY <4>1, <5>1, <5>2
      <4>5. TabOf(d, x)[f] = NewTabLabels[f]
        BY <1>4, <2>2 DEF AddsTab
      <4> QED
        BY <3>2, <4>3, <4>4, <4>5
    <3> QED
      BY <3>1, <3>2
  <2>7. LabelsOK(k)'
    BY <1>3, <1>4, <2>3, <2>6, ToldLabels
  <2> QED
    BY <2>5, <2>7
<1>5. CASE IsTold(k, ToldClosed(x)) /\ DropsTab(c, d, x)
  <2>1. Has(replies[k], ToldClosed(x))
    BY <1>5, ToldQueue
  <2>2. c.active_tab_id # x
    BY <1>3, <2>1 DEF FrontOK
  <2>3. Ids(d) = Ids(c) \ {x} /\ d.active_tab_id = c.active_tab_id /\ LabelsKept(c, d)
    BY <1>5, <2>2 DEF DropsTab
  <2>4. ASSUME NEW t \in Nat, Has(replies[k], ToldCreated(t)) \/ Has(up[k], Created(t, Home))
        PROVE  t \in Ids(d)
    <3>1. t \in Ids(c)
      BY <1>3, <2>4 DEF FrontOK
    <3>2. x \notin DOMAIN table
      BY <1>3, <2>1 DEF RoundOK
    <3>3. Has(replies[k], ToldCreated(t)) => t \in DOMAIN table
      BY <1>3 DEF RoundOK
    <3>4. ~Has(up[k], Created(t, Home))
      <4>1. Has(up[k], Created(t, Home)) => replies[k] = <<>>
        BY <1>3 DEF RoundOK
      <4> QED
        BY <2>1, <4>1, EmptyHas
    <3> QED
      BY <2>3, <2>4, <3>1, <3>2, <3>3, <3>4
  <2>5. FrontOK(k)'
    BY <1>3, <1>5, <2>3, <2>4, ToldFront
  <2>6. LabelsOK(k)'
    BY <1>3, <1>5, <2>3, ToldLabels DEF LabelsKept
  <2> QED
    BY <2>5, <2>6
<1>6. CASE IsTold(k, ToldActive(x)) /\ Relabels(c, d, ToldActive(x))
  <2>1. Has(replies[k], ToldActive(x))
    BY <1>6, ToldQueue
  <2>2. x = active /\ ~Pending(k)
    BY <1>3, <2>1 DEF ActiveNews
  <2>3. ToldActive(x).ev = "TabActivated" /\ ToldActive(x).id = x
    BY DEF ToldActive
  <2>4. d.active_tab_id = c.active_tab_id
    BY <1>3, <1>6, <2>2, <2>3 DEF Relabels, FrontOK
  <2>5. Ids(d) = Ids(c)
    BY <1>6 DEF Relabels
  <2>6. ASSUME NEW y \in Ids(d), NEW f \in Labels PROVE TabOf(d, y)[f] = TabOf(c, y)[f]
    <3>1. ~OnLabel(ToldActive(x), f, y, c.active_tab_id)
      BY <2>3 DEF OnLabel, OfTab, OfActive, Labels
    <3>2. TabOf(d, y)[f] = IF OnLabel(ToldActive(x), f, y, c.active_tab_id)
                           THEN ToldActive(x)[f] ELSE TabOf(c, y)[f]
      BY <1>6, <2>5 DEF Relabels
    <3> QED
      BY <3>1, <3>2
  <2>7. FrontOK(k)'
    BY <1>3, <1>6, <2>4, <2>5, ToldFront DEF FrontOK
  <2>8. LabelsOK(k)'
    BY <1>3, <1>6, <2>4, <2>5, <2>6, ToldLabels
  <2> QED
    BY <2>7, <2>8
<1> QED
  BY <1>1, <1>4, <1>5, <1>6

----------------------------------------------------------------------------
(* The loop's label *)

LEMMA HandlePage ==
  ASSUME TypeInv, NEW k \in Clients, NEW x \in Nat, Creates(k, x) \/ Closes(k, x) \/ Switches(k, x),
         TabsInv(k), PageOK
  PROVE  PageOK'
<1>1. PICK m, told : Answers(k, m, told)
  BY DEF Creates, Closes, Switches
<1>2. page' = page /\ page.tab \in opened
  BY <1>1 DEF Answers, TypeInv, PageType, PageOf
<1>3. CASE Creates(k, x)
  <2>1. x \notin opened
    <3>1. Answers(k, Created(x, Home), ToldCreated(x))
      BY <1>3 DEF Creates
    <3>2. Has(up[k], Created(x, Home))
      BY <3>1, AnsweredQueues
    <3> QED
      BY <3>2 DEF TabsInv, OpeningOK, Has
  <2> QED
    BY <1>2, <1>3, <2>1 DEF PageOK, Creates
<1>4. CASE Closes(k, x)
  BY <1>2, <1>4 DEF PageOK, Closes
<1>5. CASE Switches(k, x)
  BY <1>2, <1>5 DEF PageOK, Switches
<1> QED
  BY <1>3, <1>4, <1>5

LEMMA StoresPage == ASSUME NEW t, NEW f, NEW val, Stores(t, f, val) PROVE PageOK'
BY DEF Stores, PageOK, PageOf

LEMMA TellsPage == ASSUME NEW e, TellsTab(e) \/ TellsActive(e), PageOK PROVE PageOK'
BY DEF TellsTab, TellsActive, Tells, PageOK, PageOf, NoNews

----------------------------------------------------------------------------
(* The invariant *)

\* What a step leaves alone of a client and of the host.
Untouched(k) ==
    /\ core'[k] = core[k] /\ up'[k] = up[k] /\ replies'[k] = replies[k]
    /\ On(k)' => On(k) /\ bus'[k] = bus[k]
    /\ \A x : Has(bus'[k], ToldActive(x)) => Has(bus[k], ToldActive(x))
    /\ amiss \subseteq amiss'
    /\ UNCHANGED <<table, active, opened, hasty, page>>

\* What the invariant says of a client that is alone.
OwnInv(k) == TabsInv(k) /\ PageOK /\ LabelsInv(k)

LEMMA UntouchedInv == ASSUME NEW k \in Clients, Untouched(k), OwnInv(k) PROVE OwnInv(k)'
<1>1. TabsInv(k)'
  <2>1. NextIsNew(k)'
    BY DEF OwnInv, TabsInv, NextIsNew, Untouched
  <2>2. ASSUME NEW t \in Nat PROVE (OpeningOK(k, t) /\ DifferenceOK(k, t) /\ ClosingOK(k, t))'
    <3>1. OpeningOK(k, t) /\ DifferenceOK(k, t) /\ ClosingOK(k, t)
      BY DEF OwnInv, TabsInv
    <3> QED
      BY <3>1 DEF OpeningOK, DifferenceOK, ClosingOK, Untouched
  <2> QED
    BY <2>1, <2>2 DEF TabsInv
<1>2. ASSUME FrontOK(k) PROVE FrontOK(k)'
  BY <1>2 DEF FrontOK, Pending, Untouched
<1>3. ASSUME LabelsOK(k) PROVE LabelsOK(k)'
  <2>1. \A id, f : Excused(k, id, f) => Excused(k, id, f)'
    BY DEF Excused, Pending, Untouched
  <2> QED
    BY <1>3, <2>1 DEF LabelsOK, Untouched
<1>4. PageOK'
  BY DEF OwnInv, PageOK, Untouched
<1> QED
  BY <1>1, <1>2, <1>3, <1>4 DEF OwnInv, LabelsInv, Untouched

LEMMA InitInv == Init => IInv
<1> SUFFICES ASSUME Init PROVE IInv
  OBVIOUS
<1> DEFINE c == new({}, Home, FALSE)
<1>1. CoreOK(c)
  BY NewIs
<1> DEFINE tab == TabInfo(1, "New Tab", Home, FALSE)
<1>2. c.out = <<>> /\ c.active_tab_id = 1 /\ c.next_tab_id = 2 /\ c.tabs = <<tab>>
  BY DEF new
<1> HIDE DEF c
<1>3. tab.id = 1 /\ tab.title = "New Tab" /\ tab.url = Home
  BY DEF TabInfo
<1> HIDE DEF tab
<1>4. Ids(c) = {1} /\ TabOf(c, 1) = tab
  <2>1. DOMAIN c.tabs = {1} /\ c.tabs[1] = tab
    BY <1>2, SingleIs
  <2>2. Ids(c) = {1}
    BY <1>3, <2>1 DEF Ids
  <2>3. Position(c, 1) \in DOMAIN c.tabs
    BY <1>1, <2>2, PositionIs DEF CoreOK
  <2> QED
    BY <2>1, <2>2, <2>3 DEF TabOf
<1>5. \A k \in Clients : core[k] = c
  BY DEF Init, c
<1>6. \A k \in Clients : up[k] = <<>> /\ bus[k] = <<>> /\ replies[k] = <<>>
  BY DEF Init, Empty
<1>7. /\ DOMAIN table = {1} /\ table[1] = [title |-> "New Tab", url |-> FirstPage]
      /\ active = 1 /\ opened = {1} /\ news = 0 /\ page = NoNews
      /\ \A k \in Clients : ~On(k)
  BY DEF Init, On, Away
<1>8. \A k \in Clients : \A e : ~Has(up[k], e) /\ ~Has(bus[k], e) /\ ~Has(replies[k], e)
  BY <1>6, EmptyHas
<1>9. \A k \in Clients : ~Pending(k)
  BY <1>8 DEF Pending, Activating, Activates
<1>10. TypeInv
  <2>1. /\ core = [k \in Clients |-> core[k]]
        /\ up = [k \in Clients |-> <<>>] /\ bus = [k \in Clients |-> <<>>]
        /\ replies = [k \in Clients |-> <<>>]
    BY DEF Init, Empty
  <2>2. "New Tab" \in Titles /\ Home \in Urls /\ FirstPage \in Urls
    BY DEF Titles, Urls
  <2>3. /\ up \in [Clients -> Seq(Requests)] /\ bus \in [Clients -> Seq(Broadcasts)]
        /\ replies \in [Clients -> Seq(Replies)]
    BY <2>1
  <2>4. \A k \in Clients : CoreOK(core[k]) /\ core[k].out = <<>> /\ core[k].active_tab_id \in Nat
    BY <1>1, <1>2, <1>5
  <2>5. \A t \in DOMAIN table : LabelsTyped(table[t])
    <3> DEFINE first == [title |-> "New Tab", url |-> FirstPage]
    <3>1. LabelsTyped(table[1])
      <4>1. DOMAIN first = Labels /\ first["title"] = "New Tab" /\ first["url"] = FirstPage
        BY DEF Labels
      <4>2. table[1] = first
        BY <1>7
      <4> HIDE DEF first
      <4>3. Texts["title"] = Titles /\ Texts["url"] = Urls /\ \A f \in Labels : f = "title" \/ f = "url"
        BY DEF Texts, Labels
      <4> QED
        BY <2>2, <4>1, <4>2, <4>3 DEF LabelsTyped
    <3>2. \A t \in DOMAIN table : t = 1
      BY <1>7
    <3> QED
      BY <3>1, <3>2
  <2>6. /\ DOMAIN table \subseteq opened /\ 1 \in opened /\ opened \subseteq Nat /\ active \in Nat
        /\ news \in Nat
    <3>1. DOMAIN table = {1} /\ opened = {1} /\ active = 1 /\ news = 0
      BY <1>7
    <3> QED
      BY <3>1
  <2>9. PageType
    <3>1. page = PageOf("idle", 1, "url", Home) /\ "url" \in Labels /\ Home \in Texts["url"]
      BY <1>7, <2>2 DEF NoNews, PageOf, Labels, Texts
    <3> QED
      BY <2>6, <3>1 DEF PageType
  <2>10. joined = [k \in Clients |-> joined[k]]
    BY DEF Init
  <2>7. core = [k \in Clients |-> core[k]]
    BY <2>1
  <2>8. hasty \in BOOLEAN
    BY Zenon DEF Init
  <2> QED
    BY <2>3, <2>4, <2>5, <2>6, <2>7, <2>8, <2>9, <2>10 DEF TypeInv
<1>11. AskersOK /\ JoinOK
  BY <1>6 DEF AskersOK, JoinOK
<1>12. ActiveInv
  BY <1>2, <1>5, <1>6, <1>7, <1>8 DEF ActiveInv, RoundOK, IsBatch, ActiveNews, WillAgree
<1>13. ASSUME NEW k \in Clients PROVE TabsInv(k)
  <2>1. DOMAIN up[k] = {} /\ DOMAIN replies[k] = {}
    BY <1>6, EmptyHas
  <2>2. NextIsNew(k)
    <3>1. core[k].next_tab_id = 2 /\ core[k].active_tab_id = 1
      BY <1>2, <1>5
    <3>2. \A t \in opened : t = 1
      BY <1>7
    <3>3. \A t \in Ids(core[k]) : t = 1
      BY <1>4, <1>5
    <3> QED
      BY <1>8, <2>1, <3>1, <3>2, <3>3 DEF NextIsNew
  <2> QED
    BY <1>4, <1>5, <1>7, <1>8, <2>1, <2>2 DEF TabsInv, OpeningOK, DifferenceOK, ClosingOK
<1>14. ASSUME NEW k \in Clients PROVE LabelsInv(k)
  <2>1. FrontOK(k)
    BY <1>2, <1>5, <1>7, <1>8, <1>9 DEF FrontOK, Activates
  <2>2. LabelsOK(k)
    BY <1>7 DEF LabelsOK
  <2> QED
    BY <2>1, <2>2 DEF LabelsInv
<1>15. PageOK
  BY <1>7 DEF PageOK, NoNews
<1> QED
  BY <1>10, <1>11, <1>12, <1>13, <1>14, <1>15 DEF IInv

LEMMA UserInv == ASSUME IInv, NEW k \in Clients, User(k) PROVE IInv'
<1>1. TypeInv /\ AskersOK /\ JoinOK /\ ActiveInv
  BY DEF IInv
<1>2. PICK out : UserDoes(k, out)
  BY <1>1, UserIs
<1>3. TypeInv' /\ AskersOK' /\ JoinOK'
  BY <1>1, <1>2, UserType
<1>4. ActiveInv'
  BY <1>1, <1>2, UserActive
<1>5. ASSUME NEW j \in Clients, Alone(j)' PROVE TabsInv(j)' /\ PageOK' /\ LabelsInv(j)'
  <2>1. j = k /\ Alone(j)
    BY <1>2, <1>5 DEF UserDoes, Alone
  <2>2. TabsInv(k) /\ PageOK /\ LabelsInv(k)
    BY <2>1 DEF IInv
  <2>3. TabsInv(k)'
    BY <1>1, <1>2, <2>2, UserTabs
  <2>4. PageOK'
    BY <1>2, <2>2 DEF PageOK, UserDoes
  <2>5. LabelsInv(k)'
    BY <1>1, <1>2, <2>2, UserLabels
  <2> QED
    BY <2>1, <2>3, <2>4, <2>5
<1> QED
  BY <1>3, <1>4, <1>5 DEF IInv

LEMMA HandleInv == ASSUME IInv, NEW k \in Clients, Handle(k) PROVE IInv'
<1>1. TypeInv /\ AskersOK /\ JoinOK /\ ActiveInv
  BY DEF IInv
<1>2. PICK t \in Nat : Creates(k, t) \/ Closes(k, t) \/ Switches(k, t)
  BY <1>1, HandleIs
<1>3. TypeInv' /\ AskersOK' /\ JoinOK'
  BY <1>1, <1>2, HandleType
<1>4. ActiveInv'
  BY <1>1, <1>2, CreatesActive, ClosesActive, SwitchesActive
<1>5. k \in askers /\ askers' = askers
  <2>1. PICK m, told : Answers(k, m, told)
    BY <1>2 DEF Creates, Closes, Switches
  <2>2. k \in askers
    BY <1>1, <2>1, AnswersType
  <2> QED
    BY <2>1, <2>2 DEF Answers
<1>6. ASSUME NEW j \in Clients, Alone(j)' PROVE TabsInv(j)' /\ PageOK' /\ LabelsInv(j)'
  <2>1. j = k /\ Alone(j)
    BY <1>5, <1>6 DEF Alone
  <2>2. TabsInv(k) /\ PageOK /\ LabelsInv(k)
    BY <2>1 DEF IInv
  <2>3. TabsInv(k)'
    BY <1>1, <1>2, <2>2, CreatesTabs, ClosesTabs, SwitchesTabs
  <2>4. PageOK'
    BY <1>1, <1>2, <2>2, HandlePage
  <2>5. LabelsInv(k)'
    BY <1>1, <1>2, <2>2, CreatesLabels, ClosesLabels, SwitchesLabels
  <2> QED
    BY <2>1, <2>3, <2>4, <2>5
<1> QED
  BY <1>3, <1>4, <1>6 DEF IInv

LEMMA StoreNewsInv == ASSUME IInv, NEW t \in opened, StoreNews(t) PROVE IInv'
<1>1. TypeInv /\ AskersOK /\ JoinOK /\ ActiveInv
  BY DEF IInv
<1>2. PICK f \in Labels : \E val : Stores(t, f, val)
  BY <1>1, StoreNewsIs
<1>3. PICK val : Stores(t, f, val)
  BY <1>2
<1>4. TypeInv' /\ AskersOK' /\ JoinOK'
  BY <1>1, <1>3, StoresType
<1>5. ActiveInv'
  BY <1>1, <1>3, AsideActive DEF Stores
<1>6. ASSUME NEW j \in Clients, Alone(j)' PROVE TabsInv(j)' /\ PageOK' /\ LabelsInv(j)'
  <2>1. TabsInv(j) /\ PageOK /\ LabelsInv(j)
    BY <1>3, <1>6 DEF IInv, Stores, Alone
  <2>2. TabsInv(j)'
    BY <1>3, <2>1, AsideTabs DEF Stores
  <2>3. PageOK'
    BY <1>3, StoresPage
  <2>4. LabelsInv(j)'
    BY <1>3, <2>1, StoresLabels
  <2> QED
    BY <2>2, <2>3, <2>4
<1> QED
  BY <1>4, <1>5, <1>6 DEF IInv

LEMMA TellsInv == ASSUME IInv, TellTab \/ TellActive PROVE IInv'
<1>1. TypeInv /\ AskersOK /\ JoinOK /\ ActiveInv
  BY DEF IInv
<1>2. PICK e : TellsTab(e) \/ TellsActive(e)
  BY <1>1, TellTabIs, TellActiveIs
<1>3. TypeInv' /\ AskersOK' /\ JoinOK'
  BY <1>1, <1>2, TellsType
<1>4. ActiveInv'
  BY <1>1, <1>2, TellsActiveInv
<1>5. ASSUME NEW j \in Clients, Alone(j)' PROVE TabsInv(j)' /\ PageOK' /\ LabelsInv(j)'
  <2>1. TabsInv(j) /\ PageOK /\ LabelsInv(j)
    BY <1>2, <1>5 DEF IInv, TellsTab, TellsActive, Tells, Alone
  <2>2. TabsInv(j)'
    BY <1>1, <1>2, <2>1, TellsTabs
  <2>3. PageOK'
    BY <1>2, <2>1, TellsPage
  <2>4. LabelsInv(j)'
    BY <1>1, <1>2, <2>1, TellsTabLabels, TellsActiveLabels
  <2> QED
    BY <2>2, <2>3, <2>4
<1> QED
  BY <1>3, <1>4, <1>5 DEF IInv

LEMMA CheckActiveInv == ASSUME IInv, CheckActive PROVE IInv'
<1>1. TypeInv /\ AskersOK /\ JoinOK /\ ActiveInv
  BY DEF IInv
<1>2. /\ UNCHANGED <<core, joined, table, active, opened, up, bus, replies, hasty, askers, elsewhere, amiss>>
      /\ page.at = "told" /\ page'.at # "stored"
      /\ page'.at # "idle" => page'.tab = page.tab /\ page'.f = page.f /\ page'.val = page.val
  <2>1. PICK at, t, f, val : page = PageOf(at, t, f, val)
    BY <1>1 DEF TypeInv, PageType
  <2>2. page.at = "told" /\ (page' = PageOf("active", t, f, val) \/ page' = NoNews)
    BY <2>1 DEF CheckActive, PageOf
  <2> QED
    BY <2>1, <2>2 DEF CheckActive, hostVars, ghosts, PageOf, NoNews
<1>3. TypeInv' /\ AskersOK' /\ JoinOK'
  BY <1>1, CheckActiveType
<1>4. ActiveInv'
  BY <1>1, <1>2, AsideActive
<1>5. ASSUME NEW j \in Clients, Alone(j)' PROVE TabsInv(j)' /\ PageOK' /\ LabelsInv(j)'
  <2>1. TabsInv(j) /\ PageOK /\ LabelsInv(j)
    BY <1>2, <1>5 DEF IInv, Alone
  <2>2. TabsInv(j)'
    BY <1>2, <2>1, AsideTabs
  <2>3. PageOK'
    BY <1>2, <2>1 DEF PageOK
  <2>4. ASSUME FrontOK(j) PROVE FrontOK(j)'
    BY <1>2, <2>4 DEF FrontOK, Pending
  <2>5. ASSUME LabelsOK(j) PROVE LabelsOK(j)'
    <3>1. \A id, f : Excused(j, id, f) => Excused(j, id, f)'
      BY <1>2 DEF Excused, Pending
    <3> QED
      BY <1>2, <2>5, <3>1 DEF LabelsOK, On
  <2> QED
    BY <1>2, <2>1, <2>2, <2>3, <2>4, <2>5 DEF LabelsInv
<1> QED
  BY <1>3, <1>4, <1>5 DEF IInv

LEMMA JoinInv == ASSUME IInv, NEW k \in Clients, Hello(k) \/ Welcome(k) \/ Subscribe(k) PROVE IInv'
<1>1. TypeInv /\ AskersOK /\ JoinOK /\ ActiveInv
  BY DEF IInv
<1>2. Greeted(k) \/ Subscribes(k)
  BY <1>1, HelloIs, WelcomeIs, SubscribeIs
<1>3. TypeInv' /\ AskersOK' /\ JoinOK'
  BY <1>1, <1>2, JoinType
<1>4. ActiveInv'
  BY <1>1, <1>2, JoinActive
<1>5. ASSUME NEW j \in Clients, Alone(j)' PROVE TabsInv(j)' /\ PageOK' /\ LabelsInv(j)'
  <2>1. TabsInv(j) /\ PageOK /\ LabelsInv(j)
    BY <1>2, <1>5 DEF IInv, Greeted, Subscribes, Alone
  <2>2. CASE Subscribes(k) /\ j = k
    <3>1. TabsInv(k)'
      BY <2>1, <2>2, AsideTabs DEF Subscribes
    <3>2. PageOK'
      BY <2>1, <2>2 DEF PageOK, Subscribes
    <3>3. LabelsInv(k)'
      BY <1>1, <2>1, <2>2, SubscribesLabels
    <3> QED
      BY <2>2, <3>1, <3>2, <3>3
  <2>3. CASE Greeted(k) \/ j # k
    <3>1. Untouched(j)
      <4>1. \A x : Has(bus'[j], ToldActive(x)) => Has(bus[j], ToldActive(x))
        BY <1>2, GreetedOther DEF Subscribes
      <4>2. CASE Greeted(k)
        BY <4>1, <4>2 DEF Greeted, Untouched
      <4>3. CASE Subscribes(k) /\ j # k
        BY <4>1, <4>3 DEF Subscribes, Untouched
      <4> QED
        BY <1>2, <2>3, <4>2, <4>3
    <3> QED
      BY <2>1, <3>1, UntouchedInv DEF OwnInv
  <2> QED
    BY <1>2, <2>2, <2>3
<1> QED
  BY <1>3, <1>4, <1>5 DEF IInv

LEMMA BroadcastInv == ASSUME IInv, NEW k \in Clients, Broadcast(k) PROVE IInv'
<1>1. TypeInv /\ AskersOK /\ JoinOK /\ ActiveInv
  BY DEF IInv
<1>2. PICK e \in Broadcasts : Hears(k, e)
  BY <1>1, BroadcastIs
<1>3. TypeInv' /\ AskersOK' /\ JoinOK'
  BY <1>1, <1>2, BroadcastType
<1>4. ActiveInv'
  BY <1>1, <1>2, HearsActive
<1>5. ASSUME NEW j \in Clients, Alone(j)' PROVE TabsInv(j)' /\ PageOK' /\ LabelsInv(j)'
  <2>1. TabsInv(j) /\ PageOK /\ LabelsInv(j)
    BY <1>2, <1>5 DEF IInv, Hears, Alone
  <2>2. CASE j = k
    <3>1. TabsInv(k)'
      BY <1>1, <1>2, <2>1, <2>2, HearsTabs
    <3>2. PageOK'
      BY <1>2, <2>1 DEF PageOK, Hears
    <3>3. LabelsInv(k)'
      BY <1>1, <1>2, <2>1, <2>2, HearsLabels
    <3> QED
      BY <2>2, <3>1, <3>2, <3>3
  <2>3. CASE j # k
    <3>1. Untouched(j)
      BY <1>2, <2>3 DEF Hears, Untouched, On
    <3> QED
      BY <2>1, <3>1, UntouchedInv DEF OwnInv
  <2> QED
    BY <2>2, <2>3
<1> QED
  BY <1>3, <1>4, <1>5 DEF IInv

LEMMA ReplyInv == ASSUME IInv, NEW k \in Clients, Reply(k) PROVE IInv'
<1>1. TypeInv /\ AskersOK /\ JoinOK /\ ActiveInv
  BY DEF IInv
<1>2. TypeInv' /\ AskersOK' /\ JoinOK'
  BY <1>1, ReplyType
<1>3. ActiveInv'
  BY <1>1, ReplyActive
<1>4. k \in askers /\ UNCHANGED <<table, page, askers>>
  BY <1>1 DEF Reply, AskersOK, hostVars
<1>5. ASSUME NEW j \in Clients, Alone(j)' PROVE TabsInv(j)' /\ PageOK' /\ LabelsInv(j)'
  <2>1. j = k /\ Alone(j)
    BY <1>4, <1>5 DEF Alone
  <2>2. TabsInv(k) /\ PageOK /\ LabelsInv(k)
    BY <2>1 DEF IInv
  <2>3. TabsInv(k)'
    BY <1>1, <2>2, ReplyTabs
  <2>4. PageOK'
    BY <1>4, <2>2 DEF PageOK
  <2>5. LabelsInv(k)'
    BY <1>1, <2>2, ReplyLabels
  <2> QED
    BY <2>1, <2>3, <2>4, <2>5
<1> QED
  BY <1>2, <1>3, <1>5 DEF IInv

LEMMA NextInv == IInv /\ [Next]_vars => IInv'
<1> SUFFICES ASSUME IInv, [Next]_vars PROVE IInv'
  OBVIOUS
<1>1. ASSUME NEW k \in Clients, User(k) PROVE IInv'
  BY <1>1, UserInv
<1>2. ASSUME NEW k \in Clients, Handle(k) PROVE IInv'
  BY <1>2, HandleInv
<1>3. ASSUME NEW k \in Clients, Broadcast(k) PROVE IInv'
  BY <1>3, BroadcastInv
<1>4. ASSUME NEW k \in Clients, Reply(k) PROVE IInv'
  BY <1>4, ReplyInv
<1>5. ASSUME NEW k \in Clients, Hello(k) \/ Welcome(k) \/ Subscribe(k) PROVE IInv'
  BY <1>5, JoinInv
<1>6. CASE Page
  <2>1. ASSUME NEW t \in opened, StoreNews(t) PROVE IInv'
    BY <2>1, StoreNewsInv
  <2> QED
    BY <1>6, <2>1, TellsInv, CheckActiveInv DEF Page
<1>7. CASE UNCHANGED vars
  <2>1. TypeInv' /\ AskersOK' /\ JoinOK'
    BY <1>7 DEF IInv, TypeInv, AskersOK, JoinOK, On, PageType, vars, hostVars, ghosts
  <2>2. ActiveInv'
    BY <1>7, AsideActive DEF IInv, vars, hostVars, ghosts
  <2>3. ASSUME NEW j \in Clients, Alone(j)' PROVE TabsInv(j)' /\ PageOK' /\ LabelsInv(j)'
    <3>1. Untouched(j) /\ Alone(j)
      BY <1>7, <2>3 DEF Untouched, Alone, On, vars, hostVars, ghosts
    <3>2. OwnInv(j)
      BY <3>1 DEF IInv, OwnInv
    <3> QED
      BY <3>1, <3>2, UntouchedInv DEF OwnInv
  <2> QED
    BY <2>1, <2>2, <2>3 DEF IInv
<1> QED
  BY <1>1, <1>2, <1>3, <1>4, <1>5, <1>6, <1>7 DEF Next

LEMMA SpecIInv == Spec => []IInv
<1> QED
  BY InitInv, NextInv, PTL DEF Spec

----------------------------------------------------------------------------
(* What holds *)

\* When all that was sent has been seen, and no one asked for anything while a
\* request was under way, every client that has joined shows the tab the host
\* has active, if it is there, unless it joined while another was active and no
\* switch has been published since: each switch was published after the last
\* other one (main.rs:391-421, 632, render.rs:1211-1223).
THEOREM ClientsAgree == Spec => []ActiveAgrees
<1>1. ASSUME IInv PROVE ActiveAgrees
  <2> SUFFICES ASSUME Settled, ~hasty, active \in DOMAIN table, NEW k \in Clients, On(k)
               PROVE  core[k].active_tab_id = active \/ k \in elsewhere
    BY DEF ActiveAgrees
  <2>1. WillAgree
    BY <1>1 DEF IInv, ActiveInv
  <2>2. \A j \in Clients : bus[j] = <<>> /\ ~Pending(j)
    BY SettledIs DEF Settled
  <2> QED
    BY <2>1, <2>2, EmptyHas DEF WillAgree
<1> QED
  BY <1>1, SpecIInv, PTL

\* And a client that is the only one to ask has the tabs of the host, however
\* it asks: the ids it gives are new, and what it closes before it has heard
\* of it is closed once more by the late TabClosed
\* (main.rs:377-421, render.rs:1173-1210).
THEOREM ClientHasTheTabs == Spec => []TabsAgree
<1>1. ASSUME IInv PROVE TabsAgree
  <2> SUFFICES ASSUME Settled, NEW k \in Clients, Alone(k) PROVE Ids(core[k]) = DOMAIN table
    BY DEF TabsAgree
  <2>1. TabsInv(k) /\ CoreOK(core[k]) /\ DOMAIN table \subseteq Nat
    BY <1>1 DEF IInv, TypeInv
  <2>2. \A e : ~Has(up[k], e) /\ ~Has(replies[k], e)
    BY SettledIs, EmptyHas DEF Settled
  <2>3. \A t \in Nat : t \in Ids(core[k]) <=> t \in DOMAIN table
    BY <2>1, <2>2 DEF TabsInv, DifferenceOK
  <2> QED
    BY <2>1, <2>3, IdsAreNats
<1> QED
  BY <1>1, SpecIInv, PTL

\* And their labels, once it has joined, if it asks for one thing at a time: what
\* it heard under the wrong tab is put right by the announcement of the tab it
\* switched to.  Only those in amiss may be wrong: what was news before the
\* client joined, what a late TabCreated has put back, and what the loop
\* published for the tab active before
\* (main.rs:325-350, 405-408 and 632, render.rs:1152-1242).
THEOREM ClientHasTheLabels == Spec => []LabelsAgree
<1>1. ASSUME IInv PROVE LabelsAgree
  <2> SUFFICES ASSUME Settled, ~hasty, NEW k \in Clients, On(k), Alone(k), NEW id \in Ids(core[k]),
                      NEW f \in Labels, <<k, id, f>> \notin amiss
               PROVE  TabOf(core[k], id)[f] = table[id][f]
    BY DEF LabelsAgree
  <2>1. TabsInv(k) /\ LabelsOK(k) /\ CoreOK(core[k])
    BY <1>1 DEF IInv, TypeInv, LabelsInv
  <2>2. up[k] = <<>> /\ replies[k] = <<>> /\ bus[k] = <<>> /\ ~Pending(k) /\ page.at = "idle"
    BY SettledIs DEF Settled
  <2>3. id \in DOMAIN table
    <3>1. id \in Nat
      BY <2>1, IdsAreNats
    <3>2. DifferenceOK(k, id)
      BY <2>1, <3>1 DEF TabsInv
    <3> QED
      BY <2>2, <3>2, EmptyHas DEF DifferenceOK
  <2>4. ~Excused(k, id, f)
    BY <2>2 DEF Excused
  <2>5. LabelRight(core[k], bus[k], f, id, table[id][f])
    BY <2>1, <2>3, <2>4 DEF LabelsOK
  <2> QED
    BY <2>2, <2>5, LabelEmpty
<1> QED
  BY <1>1, SpecIInv, PTL

=============================================================================
