\* Two queues, one of which may run for ever (evloop_no_exit_on_empty) or be polled
\* (evloop_once with evloop_nonblock), a functor that breaks its loop and a loopexit().
\* No symmetry: the properties are temporal.
\* The program may end with every functor settled and every queue destroyed.
SPECIFICATION FairSpec
CHECK_DEADLOCK FALSE
CONSTANTS
  Queues = {q1, q2}
  Named = {}
  Temps = {t1}
  Exits = {x1}
  Breakers = {t1}
  FlagSets = {{"noexit"}, {"once", "nonblock"}}
  None = None
PROPERTIES
  Delivered
  StopsWhenTold
