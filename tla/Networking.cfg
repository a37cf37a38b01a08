SPECIFICATION Spec
CHECK_DEADLOCK FALSE
INVARIANTS TcpDelivers   NoLostWakeup
