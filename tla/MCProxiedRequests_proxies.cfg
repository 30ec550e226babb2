SPECIFICATION FairSpec
CONSTANTS
  q1 = q1
  q2 = q2
  q3 = q3
  p1 = p1
  p2 = p2
  h1 = h1
  h2 = h2
  direct = direct
  nothing = nothing
  Queue = {q1, q2}
  Ordered = {q1}
  Pusher = {q2}
  Abandoner = {q1}
  Urls <- TwoAndOne
  Batch = 2
  Host = {h1}
  HostOf <- OneHost
  Localhost = direct
  Configured = {p1}
  Settings <- OtherProxy
  MaxChanges = 1
  AllowFallback = TRUE
  MaxOverall = 1
  MaxPerHost = 1
  Nothing = nothing
INVARIANTS TypeOK RequestsHaveSlots EachResultOnce
PROPERTIES ProcessorsEnd 
CHECK_DEADLOCK FALSE
