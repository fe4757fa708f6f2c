------------------------------ MODULE Browsing ------------------------------
(***************************************************************************)
(* Clients and the host about tabs: the strip of each client (BrowserCore) *)
(* against the tab table and active_tab_id (main.rs), over what lies       *)
(* between them.  A client joins when it likes: it is told a url and from  *)
(* then on what is published.  A request goes up in order; its reply goes  *)
(* to the client that asked, what is published goes to every client that   *)
(* has joined, and the writer of a connection sends the two in any order.  *)
(*                                                                         *)
(* A client acts on its own strip at once and does not wait for the host,  *)
(* nor for the connection.  The clients are those with a BrowserCore, over *)
(* TCP.  HostTabs has the steps within a request, FramePipeline the frames.*)
(***************************************************************************)
EXTENDS BrowserCore

CONSTANTS Clients,
          Names,       \* what the pages are called, as a sequence: bound on news
          MaxTab,      \* bound: ids given
          MaxEvents    \* bound: requests of all clients, titles and urls together

ASSUME BrowsingAssumption == MaxTab \in Nat /\ MaxTab < TopId /\ MaxEvents \in Nat

VARIABLES core,     \* of each client
          joined,   \* how far the handshake of a client has come
          table,    \* tabs: the url and title the host has of each
          active,   \* active_tab_id
          opened,   \* the tabs that have been in the table: news of them may come
          up,       \* requests on their way to the host
          bus,      \* WELCOME and what was published, not yet seen, for each client
          replies,  \* sent and not yet seen
          page,     \* the title or url the frame loop is working on
          news,     \* titles and urls so far
          asked,    \* requests so far
          hasty,    \* ghost: someone asked while a request was under way
          askers,   \* ghost: the clients that have asked for anything
          elsewhere, \* ghost: clients that joined on another tab, not told since
          amiss     \* ghost: labels a client may have wrong, not told since

hostVars == <<table, active, opened>>
ghosts == <<hasty, askers, elsewhere, amiss>>

vars == <<core, joined, hostVars, up, bus, replies, page, news, asked, ghosts>>

Labels == {"title", "url"}

Empty == [k \in Clients |-> <<>>]
Away == [at |-> "away", tab |-> 1]
NoNews == [at |-> "idle", tab |-> 1, f |-> "url", val |-> Home]

\* The host has a page of its own.
FirstPage == <<"https://", "example.com">>

Init ==
    /\ core = [k \in Clients |-> new({}, Home, FALSE)]
    /\ joined = [k \in Clients |-> Away]
    /\ table = [t \in {1} |-> [title |-> "New Tab", url |-> FirstPage]]
    /\ active = 1 /\ opened = {1}
    /\ up = Empty /\ bus = Empty /\ replies = Empty
    /\ page = NoNews
    /\ news = 0 /\ asked = 0
    /\ hasty = FALSE /\ askers = {} /\ elsewhere = {} /\ amiss = {}

----------------------------------------------------------------------------
\* The user of a client

Wishes(c) == {NewTab(c), CloseTab(c, c.active_tab_id), NextTab(c)}
              \cup {ClickTab(c, id) : id \in Ids(c)} \cup {CloseTab(c, id) : id \in Ids(c)}

UnderWay == \E k \in Clients : up[k] # <<>> \/ bus[k] # <<>> \/ replies[k] # <<>>

User(k) ==
    /\ asked + news < MaxEvents
    /\ \E n \in Wishes(core[k]) :
          /\ n.out # <<>>
          /\ n.next_tab_id = core[k].next_tab_id \/ core[k].next_tab_id <= MaxTab
          /\ core' = [core EXCEPT ![k] = [n EXCEPT !.out = <<>>]]
          /\ up' = [up EXCEPT ![k] = @ \o n.out]
    /\ asked' = asked + 1
    /\ hasty' = (hasty \/ UnderWay)
    /\ askers' = askers \cup {k}
    /\ UNCHANGED <<joined, hostVars, bus, replies, page, news, elsewhere, amiss>>

----------------------------------------------------------------------------
\* The handshake

On(k) == joined[k].at = "on"

\* HELLO has come: current_url reads active_tab_id ...
Hello(k) ==
    /\ joined[k] = Away
    /\ joined' = [joined EXCEPT ![k] = [at |-> "reads", tab |-> active]]
    /\ UNCHANGED <<core, hostVars, up, bus, replies, page, news, asked, ghosts>>

\* ... and then the table; WELCOME goes out with the url of that tab, which the
\* client takes no notice of when there is none.
Welcome(k) ==
    /\ joined[k].at = "reads"
    /\ bus' = [bus EXCEPT ![k] =
                   IF joined[k].tab \in DOMAIN table
                   THEN <<[ev |-> "InitialUrl", url |-> table[joined[k].tab].url]>> ELSE <<>>]
    /\ joined' = [joined EXCEPT ![k] = [at |-> "welcome", tab |-> 1]]
    /\ UNCHANGED <<core, hostVars, up, replies, page, news, asked, ghosts>>

\* The labels the client has or is about to have that are not the host's.
Wrong(k) ==
    LET c == IF bus[k] = <<>> THEN core[k] ELSE handle_render_event(core[k], Head(bus[k]))
    IN  {x \in {k} \X (Ids(c) \cap DOMAIN table) \X Labels :
             TabOf(c, x[2])[x[3]] # table[x[2]][x[3]]}

\* From here on the client gets what is published.  It has been told neither
\* which tab is active nor any title.
Subscribe(k) ==
    /\ joined[k].at = "welcome"
    /\ joined' = [joined EXCEPT ![k] = [at |-> "on", tab |-> 1]]
    /\ elsewhere' = elsewhere \cup (IF core[k].active_tab_id = active THEN {} ELSE {k})
    /\ amiss' = amiss \cup Wrong(k)
    /\ UNCHANGED <<core, hostVars, up, bus, replies, page, news, asked, hasty, askers>>

----------------------------------------------------------------------------
\* The host

Publish(items) == bus' = [k \in Clients |-> IF On(k) THEN bus[k] \o items ELSE bus[k]]

\* What is published of label f of tab t puts right what clients had wrong.
Mended(t, fs) == {x \in amiss : ~(x[2] = t /\ x[3] \in fs)}

\* Mutants of Announcement: without the title, or without TabActivated.
AnnouncementUntitled(t, tab) == <<[ev |-> "UrlChanged", url |-> tab.url], [ev |-> "TabActivated", id |-> t]>>
AnnouncementInactive(t, tab) == <<[ev |-> "Title", title |-> tab.title], [ev |-> "UrlChanged", url |-> tab.url]>>

\* What switch_tab publishes of a tab.
Announcement(t, tab) == <<[ev |-> "Title", title |-> tab.title], [ev |-> "UrlChanged", url |-> tab.url],
                          [ev |-> "TabActivated", id |-> t]>>

\* The tab becomes active whether or not it is there; it is announced if so.
switch_tab(t) ==
    /\ active' = t
    /\ IF t \in DOMAIN table'
       THEN Publish(Announcement(t, table'[t])) /\ elsewhere' = {} /\ amiss' = Mended(t, Labels)
       ELSE UNCHANGED <<bus, elsewhere, amiss>>

create_tab(t, url) ==
    /\ table' = Put(table, t, [title |-> "New Tab", url |-> url])
    /\ opened' = opened \cup {t}
    /\ switch_tab(t)

\* Mutant of close_tab: the tab stays in the table.
close_tab_view(t) == UNCHANGED <<hostVars, bus, elsewhere, amiss>>

\* The active tab may go: active_tab_id is left on it.
close_tab(t) ==
    /\ table' = Restrict(table, DOMAIN table \ {t})
    /\ UNCHANGED <<active, opened, bus, elsewhere, amiss>>

Confirm(k, e) == replies' = [replies EXCEPT ![k] = Append(@, e)]

Handle(k) ==
    /\ On(k) /\ up[k] # <<>>
    /\ up' = [up EXCEPT ![k] = Tail(@)]
    /\ LET m == Head(up[k])
       IN  \/ /\ m.ev = "CreateTab" /\ create_tab(m.tab_id, m.url)
              /\ Confirm(k, [ev |-> "TabCreated", id |-> m.tab_id, title |-> "New Tab", url |-> m.url])
           \/ /\ m.ev = "CloseTab" /\ close_tab(m.tab_id)
              /\ Confirm(k, [ev |-> "TabClosed", id |-> m.tab_id])
           \/ /\ m.ev = "SwitchTab" /\ UNCHANGED <<table, opened>> /\ switch_tab(m.tab_id)
              /\ Confirm(k, [ev |-> "TabActivated", id |-> m.tab_id])
    /\ UNCHANGED <<core, joined, page, news, asked, hasty, askers>>

\* A page has a new title or has committed a url: the frame loop stores it, if
\* the tab is in the table ...
StoreNews(t) ==
    /\ page.at = "idle" /\ news < Len(Names) /\ asked + news < MaxEvents
    /\ news' = news + 1
    /\ \E f \in Labels :
          LET val == IF f = "title" THEN Names[news + 1] ELSE <<"https://", Names[news + 1]>>
          IN  /\ page' = [at |-> "stored", tab |-> t, f |-> f, val |-> val]
              /\ table' = IF t \in DOMAIN table THEN [table EXCEPT ![t][f] = val] ELSE table
    /\ UNCHANGED <<core, joined, active, opened, up, bus, replies, asked, ghosts>>

\* ... publishes it as news of that tab ...
TellTab ==
    /\ page.at = "stored"
    /\ page' = [page EXCEPT !.at = "told"]
    /\ Publish(IF page.f = "title" THEN <<[ev |-> "TabTitle", id |-> page.tab, title |-> page.val]>>
               ELSE <<[ev |-> "TabUrl", id |-> page.tab, url |-> page.val]>>)
    /\ amiss' = Mended(page.tab, {page.f})
    /\ UNCHANGED <<core, joined, hostVars, up, replies, news, asked, hasty, askers, elsewhere>>

\* ... asks whether it is the active one ...
CheckActive ==
    /\ page.at = "told"
    /\ page' = IF active = page.tab THEN [page EXCEPT !.at = "active"] ELSE NoNews
    /\ UNCHANGED <<core, joined, hostVars, up, bus, replies, news, asked, ghosts>>

\* ... and publishes it again as news of whichever tab that is: by now another
\* may be, and gets the label.
TellActive ==
    /\ page.at = "active"
    /\ page' = NoNews
    /\ Publish(IF page.f = "title" THEN <<[ev |-> "Title", title |-> page.val]>>
               ELSE <<[ev |-> "UrlChanged", url |-> page.val]>>)
    /\ amiss' = amiss \cup (IF active = page.tab THEN {}
                           ELSE {k \in Clients : On(k)} \X {active} \X {page.f})
    /\ UNCHANGED <<core, joined, hostVars, up, replies, news, asked, hasty, askers, elsewhere>>

Page == (\E t \in opened : StoreNews(t)) \/ TellTab \/ CheckActive \/ TellActive

----------------------------------------------------------------------------
\* The client sees what comes

Sees(k, e) == core' = [core EXCEPT ![k] = handle_render_event(@, e)]

Broadcast(k) ==
    /\ bus[k] # <<>>
    /\ Sees(k, Head(bus[k]))
    /\ bus' = [bus EXCEPT ![k] = Tail(@)]
    /\ UNCHANGED <<joined, hostVars, up, replies, page, news, asked, ghosts>>

\* A TabCreated that comes after news of its tab puts back what the tab was
\* called when it was opened.
Undone(k, e) ==
    IF e.ev = "TabCreated" /\ e.id \in Ids(core[k])
    THEN {k} \X {e.id} \X {f \in Labels : TabOf(core[k], e.id)[f] # e[f]} ELSE {}

\* WELCOME comes before any reply.
Reply(k) ==
    /\ replies[k] # <<>>
    /\ bus[k] # <<>> => Head(bus[k]).ev # "InitialUrl"
    /\ Sees(k, Head(replies[k]))
    /\ amiss' = amiss \cup Undone(k, Head(replies[k]))
    /\ replies' = [replies EXCEPT ![k] = Tail(@)]
    /\ UNCHANGED <<joined, hostVars, up, bus, page, news, asked, hasty, askers, elsewhere>>

Next ==
    \/ \E k \in Clients :
          \/ User(k) \/ Handle(k) \/ Broadcast(k) \/ Reply(k)
          \/ Hello(k) \/ Welcome(k) \/ Subscribe(k)
    \/ Page

Spec == Init /\ [][Next]_vars

----------------------------------------------------------------------------
(***************************************************************************)
(* Properties.                                                             *)
(***************************************************************************)

\* Everything sent has been seen, and the loop has nothing left to tell.
Settled == ~UnderWay /\ page.at = "idle"

Alone(k) == askers \subseteq {k}

\* Clients that ask for one thing at a time, whoever they are, all come to show
\* the tab the host has active: each switch is published, and the reply to it
\* comes before the next is asked for.  Not so a client that joined while
\* another tab was active, until the next switch: WELCOME has a url and no tab
\* (main.rs:632, 483-487).  And not so after a switch to a tab that another
\* client has closed: as the closing is told to no one else, it may still be
\* asked for, and only its client is told of it (main.rs:391-421,
\* render.rs:1211-1223).
ActiveAgrees ==
    Settled /\ ~hasty /\ active \in DOMAIN table =>
        \A k \in Clients : On(k) => core[k].active_tab_id = active \/ k \in elsewhere

\* A client that is the only one to ask has the host's tabs, hasty or not: what
\* it opens is in the table and what it closes is not, and a TabCreated that
\* comes after the client closed the tab is followed by its TabClosed
\* (main.rs:377-421, render.rs:1173-1210).
TabsAgree == Settled => \A k \in Clients : Alone(k) => Ids(core[k]) = DOMAIN table

\* And so are its labels, if it asks for one thing at a time: the Title and
\* UrlChanged that reach it under another tab, as they carry no id, are put
\* right by those of the switch.  Until it is told again, a label may be wrong
\* that was news before the client joined, that a late TabCreated has put back,
\* or that the loop published for the tab active before: it had asked for
\* active_tab_id before the switch (main.rs:325-350 against 391-408 and 632,
\* render.rs:904-912, 1152-1242).
LabelsAgree ==
    Settled /\ ~hasty =>
        \A k \in Clients : On(k) /\ Alone(k) =>
            \A id \in Ids(core[k]), f \in Labels :
                TabOf(core[k], id)[f] = table[id][f] \/ <<k, id, f>> \in amiss

=============================================================================
