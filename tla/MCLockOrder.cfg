CONSTANTS
  th1 = th1
  th2 = th2
  th3 = th3
  NoThread = NoThread
  Thread = {th1, th2, th3}
  Operations = {"handle_incoming_tx", "handle_incoming_blocks", "create_block_template", "flush_txes_from_pool", "pop_blocks", "get_blocks"}
SPECIFICATION Spec
INVARIANTS LockOrderKept BatchIsOwn
PROPERTY AllFinish
