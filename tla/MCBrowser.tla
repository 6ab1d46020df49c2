----------------------------- MODULE MCBrowser ------------------------------
EXTENDS Browser

Model(kind, at, mape) == [metric |-> "mrr", kind |-> kind, at |-> at, mape |-> mape]
Was(ds, y) == [ds |-> ds, y |-> y, lower |-> y, upper |-> y]
MayBe(ds, y, upper) == [ds |-> ds, y |-> y, lower |-> 0, upper |-> upper]
Weeks(a, b, c) == [i \in 0..12 |-> CASE i = 0 -> a [] i = 1 -> b [] i = 12 -> c [] OTHER -> 0]
Forecast == [history |-> <<Was(1, 5), Was(2, 7)>>, forecast |-> <<MayBe(3, 6, 8), MayBe(4, 0, -1)>>]
MCAnswers ==
    [models |-> {Model("prophet", 1, 9), Model("prophet", 2, Null), Model("arima", 1, 8), Model("arima", 2, 10)},
     forecast |-> {Forecast, [history |-> <<>>, forecast |-> <<MayBe(3, 6, 6)>>]},
     funnel |-> {<<4, 3, 1>>, <<2, 0, 0>>, <<0, 0, 0>>},
     cohort |-> {<<>>, <<[size |-> 3, weeks |-> Weeks(3, 2, 1)], [size |-> 0, weeks |-> Weeks(0, 1, 0)]>>}]

Fresh == [k \in {} |-> NONE]
Used == [k \in {"dashboards", "dashboard", "models"} |->
           CASE k = "dashboard" -> "funnel" [] k = "models" -> Model("arima", 1, 8) [] OTHER -> "item"]
Drawn == [k \in {"dashboards", "dashboard", "forecast", "cohort"} |->
            CASE k = "dashboard" -> "funnel" [] k = "forecast" -> Forecast [] k = "cohort" -> <<>> [] OTHER -> "item"]

MCMixes ==
    {[may |-> {"login", "signup", "dashboards", "otherTab"},
      most |-> 3, faults |-> 1, from |-> {NONE, "v"}, made |-> Fresh],
     [may |-> {"dashboards", "models", "createBoard", "reload"},
      most |-> 3, faults |-> 1, from |-> {"v"}, made |-> Fresh],
     [may |-> {"dashboards", "mark", "createKey", "reload"},
      most |-> 2, faults |-> 1, from |-> {"v"}, made |-> Used],
     [may |-> {"dashboards", "board", "addWidget"},
      most |-> 3, faults |-> 0, from |-> {"v"}, made |-> Used],
     [may |-> {"alerts", "history", "changeAlert", "createAlert", "logout", "login"},
      most |-> 3, faults |-> 1, from |-> {"v"}, made |-> Fresh],
     [may |-> {"board", "addWidget", "forecast", "funnel", "cohort", "others"},
      most |-> 2, faults |-> 1, from |-> {"v"}, made |-> Drawn],
     [may |-> {"models", "others"}, most |-> 2, faults |-> 2, from |-> {"v"}, made |-> Fresh]}
=============================================================================
