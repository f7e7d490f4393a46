------------------------ MODULE MCDatabaseProvision ------------------------
(***************************************************************************)
(* Sites for DatabaseProvision, and what their users may ask for.          *)
(***************************************************************************)
EXTENDS DatabaseProvision

CONSTANTS c1, c2, main, spare

Shop == [ ns |-> "one", head |-> "shop", tail |-> "" ]
Blog == [ ns |-> "one", head |-> "blog", tail |-> "" ]

One         == { Shop }
ShopAndBlog == { Shop, Blog }

OptIn  == [ enabled |-> TRUE, mariadbRef |-> NoRef, database |-> main ]
OptOut == [ OptIn EXCEPT !.enabled = FALSE ]
At2    == [ OptIn EXCEPT !.mariadbRef = c2 ]
Spare  == [ OptIn EXCEPT !.database = spare ]

\* The Shop moves and opts in and out, the Blog just stays.
ShopMoves == [ s \in ShopAndBlog |-> IF s = Shop THEN { OptIn, OptOut, At2 } ELSE { Spare } ]

\* Every Site wants a database in the default cluster.
AllOptIn == [ s \in Sites |-> { OptIn } ]
=============================================================================
