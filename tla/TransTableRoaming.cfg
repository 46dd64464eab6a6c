CONSTANTS
    self = self
    h1 = h1
    h2 = h2
    mcast = mcast
    Hosts = {self, h1, h2, mcast}
    Groups = {mcast}
    Primary = self
    Origs = {o1, o2}
    Me = Me
    NoOwner = NoOwner
    NoBuff = NoBuff
    Announcements <- MCAnnouncements
    MaxHna = 2
    MaxAge = 1
    MaxTime = 3
SPECIFICATION Spec
PROPERTIES
    AnnouncementApplied
CHECK_DEADLOCK FALSE
