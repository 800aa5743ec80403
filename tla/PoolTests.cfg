SPECIFICATION Spec
CONSTANTS
  Host = {h1, h2}
  Me = h1
  NoHost = NoHost
  Key = {lun, other}
INVARIANT HostsAsFound FullMarksLeaveNoSr
