SPECIFICATION FairSpec
CONSTANTS
  Workers = {w1, w2, w3}
  Slots = {i1}
  MinDelay = 1
  Free = Free
  Dead = Dead
INVARIANTS OverrunsDoNotSpread GrantsArePaced
PROPERTY SomebodyIsServed
