SPECIFICATION FairSpec
CONSTANTS
  v1 = v1
  v2 = v2
  v3 = v3
  v4 = v4
  home = home
  homeMore = homeMore
  nav = nav
  last = last
  View = {v1, v2, v3, v4}
  Pages = {home, homeMore, nav, last}
  Navigation = navigate
  None = None
  Apps <- Some
INVARIANT LiveHears
INVARIANT GoneSilent
INVARIANT NoCrash
INVARIANT MountsOnce
PROPERTY PagesMount
CHECK_DEADLOCK FALSE
