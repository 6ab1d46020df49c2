------------------------------- MODULE Boards -------------------------------
(***************************************************************************)
(* Dashboards, widgets, share links, alerts and PDF jobs as the tenant's   *)
(* rows they are: every method looks a row up in the caller's workspace,   *)
(* lets others go on, and then writes by id alone.                         *)
(***************************************************************************)
EXTENDS Requests

\* findFirst({ id, workspaceId })
Found(r, kind, w) == rows[r].kind = kind /\ rows[r].state # "gone" /\ rows[r].ws = w

\* The read of a check-then-write: found or 404.
NotFound(s) == Reply(s, 404, NONE) /\ UNCHANGED rows
Check(s, found) ==
    IF found THEN Goto(s, "write") /\ UNCHANGED rows ELSE NotFound(s)

\* create({ data }): the foreign key to the dashboard must hold.
BoardThere(b) == b = 0 \/ rows[b].state = "live"
Insert(s, row) ==
    IF row.kind = "pdf" \/ BoardThere(row.board)
    THEN IdsLeft /\ rows' = [rows EXCEPT ![NewId] = row] /\ Commit(s, NONE)
    ELSE Reply(s, 500, NONE) /\ UNCHANGED rows

\* update and delete({ where: { id } }): a row that is gone is an error.
UpdateRow(s, row) ==
    IF rows[req[s].x].state = "gone" THEN Reply(s, 500, NONE) /\ UNCHANGED rows
    ELSE rows' = [rows EXCEPT ![req[s].x] = row] /\ Commit(s, NONE)
Touched(r) == [rows[r] EXCEPT !.rev = 1 - @]

\* mutant: nothing is deleted with the dashboard
NoCascade(x) == {x}
Cascade(x) == {x} \cup {r \in Rows : rows[r].board = x /\ rows[r].kind \in {"widget", "link"}
                                      /\ rows[x].kind = "board"}
DeleteRow(s) ==
    IF rows[req[s].x].state = "gone" THEN Reply(s, 500, NONE) /\ UNCHANGED rows
    ELSE /\ rows' = [r \in Rows |-> IF r \in Cascade(req[s].x)
                                    THEN [rows[r] EXCEPT !.state = "gone"] ELSE rows[r]]
         /\ Commit(s, NONE)

Read(s, val) == Reply(s, 200, val) /\ UNCHANGED rows
SpacesOf(kind, w) == {rows[r].ws : r \in {q \in Rows : Found(q, kind, w)}}

-----------------------------------------------------------------------------
(* DashboardsService                                                       *)
ListBoards(s) == At(s, "listBoards", "service") /\ Read(s, SpacesOf("board", req[s].ws))
\* mutant: the dashboard is not read again
BoardOfWorkspace(s) == rows[req[s].x].ws = req[s].ws
BoardFound(s) == Found(req[s].x, "board", req[s].ws)
GetBoard(s) ==
    /\ At(s, "getBoard", "service")
    /\ IF BoardFound(s) THEN Read(s, {rows[req[s].x].ws}) ELSE NotFound(s)
CreateBoard(s) ==
    At(s, "createBoard", "service") /\ Insert(s, Row("board", req[s].ws, 0, 0))
UpdateBoard(s) ==
    \/ At(s, "updateBoard", "service") /\ Check(s, BoardFound(s))
    \/ At(s, "updateBoard", "write") /\ UpdateRow(s, Touched(req[s].x))
DeleteBoard(s) ==
    \/ At(s, "deleteBoard", "service") /\ Check(s, BoardFound(s))
    \/ At(s, "deleteBoard", "write") /\ DeleteRow(s)

-----------------------------------------------------------------------------
(* WidgetsService: the dashboard is y, the widget x; the dashboard is      *)
(* asserted first, then the widget is looked up in it.                     *)
AssertDashboard(s) ==
    /\ At(s, "updateWidget", "service") \/ At(s, "deleteWidget", "service")
    /\ IF Found(req[s].y, "board", req[s].ws) THEN Goto(s, "find") ELSE Reply(s, 404, NONE)
    /\ UNCHANGED rows
\* mutant: the widget is looked up by its id alone
WidgetAnywhere(s) == rows[req[s].x].state = "live"
WidgetFound(s) == rows[req[s].x].state = "live" /\ rows[req[s].x].board = req[s].y
CreateWidget(s) ==
    \/ At(s, "createWidget", "service") /\ Check(s, BoardFound(s))
    \/ At(s, "createWidget", "write") /\ Insert(s, Row("widget", NONE, req[s].x, 0))
UpdateWidget(s) ==
    \/ At(s, "updateWidget", "find") /\ Check(s, WidgetFound(s))
    \/ At(s, "updateWidget", "write") /\ UpdateRow(s, Touched(req[s].x))
DeleteWidget(s) ==
    \/ At(s, "deleteWidget", "find") /\ Check(s, WidgetFound(s))
    \/ At(s, "deleteWidget", "write") /\ DeleteRow(s)

-----------------------------------------------------------------------------
(* ShareService: a token carries its dashboard, its workspace and its      *)
(* expiry; y of a create is the time to live, then the expiry.             *)
Expiry(ttl) == IF ttl = 0 THEN 0 ELSE now + ttl
CreateLink(s) ==
    \/ /\ At(s, "createLink", "service")
       /\ IF BoardFound(s) THEN Note(s, "write", Expiry(req[s].y)) ELSE Reply(s, 404, NONE)
       /\ UNCHANGED rows
    \/ At(s, "createLink", "write") /\ Insert(s, Row("link", req[s].ws, req[s].x, req[s].y))
ListLinks(s) == At(s, "listLinks", "service") /\ Read(s, SpacesOf("link", req[s].ws))
RevokeLink(s) ==
    \/ /\ At(s, "revokeLink", "service")
       /\ IF rows[req[s].x].state = "revoked" /\ rows[req[s].x].ws = req[s].ws
          THEN Read(s, NONE) ELSE Check(s, Found(req[s].x, "link", req[s].ws))
    \/ /\ At(s, "revokeLink", "write")
       /\ UpdateRow(s, [rows[req[s].x] EXCEPT !.state = "revoked"])

\* mutant: a revoked link is good enough
OnRecord(r) == rows[r].state # "gone"
NotRevoked(r) == rows[r].state = "live"

\* ShareController.resolve: the signature and the expiry, the record, the page.
Verify(s) ==
    LET link == rows[req[s].x] IN
    \/ /\ At(s, "resolve", "service")
       /\ IF link.exp # 0 /\ link.exp < now THEN Reply(s, 401, NONE) ELSE Goto(s, "record")
    \/ /\ At(s, "resolve", "record")
       /\ IF NotRevoked(req[s].x) THEN Goto(s, "page") ELSE Reply(s, 401, NONE)
ReadDashboard(s) ==
    LET b == rows[req[s].x].board IN
    /\ At(s, "resolve", "page")
    /\ IF Found(b, "board", rows[req[s].x].ws) THEN Reply(s, 200, req[s].y)
       ELSE Reply(s, 404, NONE)
Resolve(s) == (Verify(s) \/ ReadDashboard(s)) /\ UNCHANGED rows

-----------------------------------------------------------------------------
(* AlertsService and PdfService, as far as the rows and who may write them *)
(* go; AlertEvaluator and PdfJobs model what the rows set in motion.       *)
AlertFound(s) == Found(req[s].x, "alert", req[s].ws)
ListAlerts(s) == At(s, "listAlerts", "service") /\ Read(s, SpacesOf("alert", req[s].ws))
CreateAlert(s) ==
    At(s, "createAlert", "service") /\ Insert(s, Row("alert", req[s].ws, 0, 0))
UpdateAlert(s) ==
    \/ At(s, "updateAlert", "service") /\ Check(s, AlertFound(s))
    \/ At(s, "updateAlert", "write") /\ UpdateRow(s, Touched(req[s].x))
DeleteAlert(s) ==
    \/ At(s, "deleteAlert", "service") /\ Check(s, AlertFound(s))
    \/ At(s, "deleteAlert", "write") /\ DeleteRow(s)

\* PdfService.enqueue takes any dashboard id: there is no foreign key.
EnqueuePdf(s) ==
    At(s, "enqueuePdf", "service") /\ Insert(s, Row("pdf", req[s].ws, req[s].x, 0))
PdfStatus(s) ==
    /\ At(s, "pdfStatus", "service")
    /\ IF Found(req[s].x, "pdf", req[s].ws) THEN Read(s, {rows[req[s].x].ws})
       ELSE NotFound(s)

-----------------------------------------------------------------------------
BoardStep(s) ==
    /\ \/ ListBoards(s) \/ GetBoard(s) \/ CreateBoard(s) \/ UpdateBoard(s) \/ DeleteBoard(s)
       \/ AssertDashboard(s) \/ CreateWidget(s) \/ UpdateWidget(s) \/ DeleteWidget(s)
       \/ CreateLink(s) \/ ListLinks(s) \/ RevokeLink(s) \/ Resolve(s)
       \/ ListAlerts(s) \/ CreateAlert(s) \/ UpdateAlert(s) \/ DeleteAlert(s)
       \/ EnqueuePdf(s) \/ PdfStatus(s)
    /\ UNCHANGED <<accounts, keys, cache, gateway, env>>
=============================================================================
