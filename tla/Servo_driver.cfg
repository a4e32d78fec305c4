\* All clients may be lost in kthread_stop, see CallStop.
CHECK_DEADLOCK FALSE
CONSTANTS
  Clients = {ctl, t_servo}
  Threads = {t1, t2, t3}
SPECIFICATION Spec
 
PROPERTIES ImplementsSweep StopEnds
