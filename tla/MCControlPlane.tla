--------------------------- MODULE MCControlPlane ---------------------------
EXTENDS ControlPlane, TLC

MCSlugBase == [u \in Users |-> "acme"]
MCFounders == <<"ann", "bob">>
MCStock == <<Row("board", "ann", 0, 0), Row("board", "bob", 0, 0), Row("widget", NONE, 1, 0),
             Row("link", "ann", 1, 0), Row("alert", "ann", 0, 0)>>
MCResults == [kpi |-> {NONE},
              funnel |-> {[l \in {} |-> 0], [l \in {0, 2} |-> l + 1], [l \in {1, 2} |-> 1],
                          [l \in {1, 3} |-> l]},
              cohort |-> {{}, {[week |-> 1, off |-> 0, users |-> 2], [week |-> 1, off |-> 12, users |-> 1],
                               [week |-> 2, off |-> 13, users |-> 1]}}]
MCMixes ==
    {[ops |-> {"signup", "login", "refresh"}, most |-> 3],
     [ops |-> {"listWorkspaces", "getWorkspace", "invite", "login"}, most |-> 2],
     [ops |-> {"listKeys", "issueKey", "revokeKey", "invite"}, most |-> 2],
     [ops |-> {"issueKey"}, most |-> 3],
     [ops |-> {"listBoards", "getBoard", "createBoard", "updateBoard", "deleteBoard", "invite"}, most |-> 2],
     [ops |-> {"createWidget", "updateWidget", "deleteWidget", "deleteBoard"}, most |-> 2],
     [ops |-> {"listLinks", "createLink", "revokeLink", "resolve", "deleteBoard"}, most |-> 2],
     [ops |-> {"revokeLink", "resolve", "deleteBoard"}, most |-> 3],
     [ops |-> {"listAlerts", "createAlert", "updateAlert", "deleteAlert", "invite"}, most |-> 2],
     [ops |-> {"enqueuePdf", "pdfStatus", "forecast", "models"}, most |-> 2],
     [ops |-> {"kpi", "funnel", "cohort"}, most |-> 2],
     [ops |-> {"kpi"}, most |-> 3],
     [ops |-> {"connect", "invite"}, most |-> 3]}
SlotSymmetry == Permutations(Slots)
=============================================================================
