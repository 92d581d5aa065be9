CONSTANTS
    Methods <- MCMethods
    ClientHeaders <- MCClientHeaders
    Origins <- MCOrigins
    Home = "home"
    ProxyOrigin = "proxy"
    Statuses <- MCStatuses
    ProxyStatuses <- MCProxyStatuses
    MaxRedirects <- MCMaxRedirects
SPECIFICATION Spec
INVARIANT ProxyTargetsClean
