------------------------------ MODULE MCInput -------------------------------
\* Values for TLC: the keys that reach the listeners' interesting cases, with the
\* bytes a keyboard of scan-code set 1 sends for them.  Grey keys are wrapped in
\* the release and press of a left shift that is held.
EXTENDS Input

MCMake ==
  [shift \in BOOLEAN |->
     [super |-> <<224, 91>>, lshift |-> <<42>>, y |-> <<21>>, s |-> <<31>>,
      sysrq |-> IF shift THEN <<224, 55>> ELSE <<224, 42, 224, 55>>,
      up |-> IF shift THEN <<224, 170, 224, 72>> ELSE <<224, 72>>]]

MCBreak ==
  [shift \in BOOLEAN |->
     [super |-> <<224, 219>>, lshift |-> <<170>>, y |-> <<149>>, s |-> <<159>>,
      sysrq |-> IF shift THEN <<224, 183>> ELSE <<224, 183, 224, 170>>,
      up |-> IF shift THEN <<224, 200, 224, 42>> ELSE <<224, 200>>]]

\* Every three moves, and the longer chords and packets that make commands run, moused
\* answer, sleeps begin and sequences break.
MCScripts ==
  [1..3 -> Items] \union
  {<<"super", "sysrq", "s", "s", "up">>,
   <<"super", "sysrq", "s", "byte", "super">>,
   <<"super", "sysrq", "s", "move", "s">>,
   <<"super", "sysrq", "y", "up", "up">>,
   <<"super", "sysrq", "y", "up", "glitch">>,
   <<"super", "sysrq", "y", "up", "move", "move">>,
   <<"super", "sysrq", "lshift", "y", "super">>,
   <<"sysrq", "super", "s", "sysrq">>,
   <<"lshift", "up", "up", "sysrq", "lshift">>,
   <<"byte", "glitch", "byte", "byte", "up">>,
   <<"byte", "byte", "byte", "byte", "byte", "byte">>}
=============================================================================
