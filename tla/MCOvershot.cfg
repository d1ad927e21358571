SPECIFICATION Spec
CONSTANTS
  Procs = {1, 2}
  Workloads <- MCWorkloads
  Addresses = {0, 2}
  Lengths <- TwoLengths
  Starts = {0, 25}
  NonMem = NonMem
  PageBytes = 2
  AddressSpace = 8
  Radix = 2
  NumFrames = 2
  TLBSize = 1
  Word = 65536
  non_mem_inst_length = 5
  TLB_latency = 1
  DRAM_latency = 2
  Swap_latency = 30
  Page_fault_trap_handling_time = 4
  Swap_interrupt_handling_time = 4
  contextSwitchTime = 2
  quantum = 8
  NoProc = NoProc
  NoFrame = NoFrame
  MaxTime = 500
  MaxMisreads = 0
CHECK_DEADLOCK FALSE
INVARIANT NeverOvershot
