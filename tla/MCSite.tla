-------------------------------- MODULE MCSite --------------------------------
(* Small instances, one at a time, of what a visitor uses: the search       *)
(* dialog and the route that it asks, a published article, the account.     *)
EXTENDS SearchDialog, SearchRoute, PublicArticle, AuthSession

CONSTANTS go, sql, every, topic

MCTerms == {go, sql}
MCKinds == {every, topic}

VARIABLE part  \* what a behaviour is about; the others stay at rest

DialogRest ==
  /\ open = FALSE /\ query = Blank /\ filter = All /\ searches = {}
  /\ results = None /\ loading = FALSE /\ failed = FALSE
RouteRest == index = <<>> /\ answer = NoAnswer
ArticleRest ==
  /\ publications = 0 /\ archived = FALSE /\ readable = TRUE /\ entry = 0
  /\ stale = FALSE /\ fetches = {} /\ view = NewView(FALSE)
AuthRest ==
  /\ accounts = {} /\ session = NoOne /\ place = "login" /\ leaving = Stay
  /\ calls = [s \in Slots |-> FreeSlot] /\ formError = "" /\ panel = FreshPanel

SiteInit ==
  \/ part = "dialog" /\ Init /\ RouteRest /\ ArticleRest /\ AuthRest
  \/ part = "route" /\ DialogRest /\ RouteInit /\ ArticleRest /\ AuthRest
  \/ part = "article" /\ DialogRest /\ RouteRest /\ PublicInit /\ AuthRest
  \/ part = "account" /\ DialogRest /\ RouteRest /\ ArticleRest /\ AuthInit

SiteNext ==
  \/ part = "dialog" /\ Next /\ UNCHANGED <<part, routeVars, publicVars, authVars>>
  \/ part = "route" /\ RouteNext /\ UNCHANGED <<part, vars, publicVars, authVars>>
  \/ part = "article" /\ PublicNext /\ UNCHANGED <<part, vars, routeVars, authVars>>
  \/ part = "account" /\ AuthNext /\ UNCHANGED <<part, vars, routeVars, publicVars>>

SiteSpec ==
  /\ SiteInit /\ [][SiteNext]_<<part, vars, routeVars, publicVars, authVars>>
  /\ WF_vars(part = "dialog" /\ SearchStep)
  /\ part = "article" => PublicFairness
=============================================================================
