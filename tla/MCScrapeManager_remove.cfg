SPECIFICATION Spec
CONSTANTS
    t1 = t1
    t2 = t2
    g1 = g1
    g2 = g2
    g3 = g3
    Targets = {t1}
    Scrapers = {g1}
    NoScraper = NoScraper
    Delayed = TRUE
PROPERTY NoScrapeAfterRemove
