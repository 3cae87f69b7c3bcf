------------------------- MODULE MCSimulatedSteals --------------------------
\* Every option that simulates steals: all continuations, points of the user
\* with and without a skipped first interval, random points, one depth.
EXTENDS SimulatedSteals

Options(cr, update, sb_size, steal) ==
  [cr |-> cr, update |-> update, sb_size |-> sb_size, steal |-> steal]
None == <<0, 0, 0>>

MCCommandLines ==
  {Options(TRUE, 0, 1, None), Options(TRUE, 0, 2, None),
   Options(FALSE, 0, 0, <<1, 2, 3>>), Options(FALSE, 0, 0, <<0, 1, 2>>),
   Options(TRUE, 2, 0, None)}
=============================================================================
