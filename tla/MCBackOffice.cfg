INIT MCInit
NEXT MCNext
SYMMETRY Symmetry
CHECK_DEADLOCK FALSE
CONSTANTS
  Foci = {"operations", "low_stock", "realtime", "media", "gallery", "codes", "invites", "logins", "team", "customers", "threads", "receipts", "scans", "links", "alerts", "low_stock_alerts", "rehearsal", "drafting"}
  Orders = {o1}
  Variants = {v1}
  Returns = {b1, b2}
  Purchases = {p1}
  None = None
  MaxQty = 2
  MaxAdjust = 1
  MaxRefund = 2
  Goods = {a1, a2}
  MaxShelf = 1
  Streams = {s1}
  Threads = {a1, a2}
  QueueLimit = 2
  MaxVersion = 2
  Pictures = {b1, b2}
  Keys = {1, 2, 3}
  Movers = {a1, a2}
  NoKey = 0
  Images = {1, 2, 3}
  Qrs = {1, 2, 3}
  MaxImages = 3
  MaxQrs = 3
  Owner = owner
  Staff = {b1, b2}
  Requests = {a1, a2}
  MaxCodes = 2
  OtpMaxAttempts = 1
  LoginMaxAttempts = 1
  MaxStaff = 1
  Nobody = nobody
  Messages = {a1, a2}
  Desks = {d1, d2}
  MaxCustomers = 2
  MaxThreads = 2
  Sales = {a1, a2}
  References = {ref1}
  MaxPictures = 2
  Rescans = {b1, b2}
  MaxScans = 4
  MaxScanLosses = 1
  Bots = {b1}
  Chats = {a1, a2}
  Windows = {b1, b2}
  MaxLinks = 3
  MaxAttempts = 2
  MaxLosses = 1
  NoChat = nochat
  Products = {a1, a2}
  VariantNumbers = {1, 2}
  Tabs = {b1, b2}
  HistoryLimit = 2
  CatalogueLimit = 2
  RowLimit = 1
  MaxPhotos = 1
  ReplyLimit = 2
  DraftLimit = 1
  MaxMessages = 3
  MaxTokens = 2
  MaxItems = 2
  MaxQuantity = 1
INVARIANTS
  PapersAddUp PicturesKept GalleriesHold OldNewsIsOnItsWay
  AccountsHold PeopleAreKept ReceiptsAreJudged SellersAreReached AssistantKeepsToTheShop
PROPERTIES
  PapersKeepTheBooks AlertGoesWrongOnlyUnjudged
